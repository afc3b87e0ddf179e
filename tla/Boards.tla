------------------------------- MODULE Boards -------------------------------
(* The kanban board of one view: its cards are the records of the table,   *)
(* its cells the values of a group field and an optional lane field, and   *)
(* the manual order of the cards is kept in board_card_orders, one rank    *)
(* and revision per card that was ever moved.                              *)
(*                                                                         *)
(* moveBoardCard locks the card and its two anchors; when the anchors'     *)
(* ranks are too close it also renumbers the rest of the cell, which it    *)
(* has read without locks.                                                 *)
EXTENDS Integers, FiniteSets

CONSTANTS
    NCards,      \* record ids 1..NCards, which are also their order_index
    Fields,      \* fields a board may be grouped by
    Values,
    NoValue,     \* __unassigned__
    NoField,
    Keep,        \* no target lane is given
    NoCard,
    Movers,      \* requests that run at a time
    RankStep,
    MinGap,      \* MIN_RANK_GAP
    MaxSteps     \* bound on the moves and edits of a history

VARIABLES
    config,      \* boardConfig of the view: its group field and lane field
    data,        \* the values of the records in Fields
    live,        \* the records that exist
    placed,      \* board_card_orders
    moving,      \* what each request has read and locked
    steps

varsBoards == <<config, data, live, placed, moving, steps>>

Cards == 1..NCards
Contents == Values \cup {NoValue}
NoRow == [rank |-> 0, rev |-> 0]
Resting == [card |-> NoCard]

(* boardView pages through the cards of a cell by rank, then order_index.  *)
RankIn(rows, x) == IF rows[x] = NoRow THEN x * RankStep ELSE rows[x].rank
Rank(x) == RankIn(placed, x)
AheadIn(rows, x, y) ==
    RankIn(rows, x) < RankIn(rows, y) \/ (RankIn(rows, x) = RankIn(rows, y) /\ x < y)
Ahead(x, y) == AheadIn(placed, x, y)

(* A board has a group field and may have a lane field. A board whose lanes *)
(* repeat its columns is left out.                                         *)
ValidBoard(cfg) == cfg.group \in Fields /\ cfg.lane \in (Fields \ {cfg.group}) \cup {NoField}

CellIn(d, cfg, x) == <<d[x][cfg.group], IF cfg.lane = NoField THEN NoValue ELSE d[x][cfg.lane]>>
CellOf(cfg, x) == CellIn(data, cfg, x)
InCell(cfg, cell) == {x \in live : CellOf(cfg, x) = cell}

Anchors(e) == {e.before, e.after} \ {NoCard}
Locks(m) == IF moving[m] = Resting THEN {} ELSE {moving[m].card} \cup Anchors(moving[m])
LockedByOthers(m) == UNION {Locks(n) : n \in Movers \ {m}}
Locked == UNION {Locks(n) : n \in Movers}

InitBoards ==
    /\ config \in [group : Fields, lane : {NoField}]
    /\ data = [x \in Cards |-> [f \in Fields |-> NoValue]]
    /\ live = Cards
    /\ placed = [x \in Cards |-> NoRow]
    /\ moving = [m \in Movers |-> Resting]
    /\ steps = 0

-----------------------------------------------------------------------------
Counted == steps < MaxSteps /\ steps' = steps + 1

(* updateBoardViewConfig: the new fields are written whatever moves run.   *)
ConfigureBoard(g, l) ==
    LET cfg == [group |-> g, lane |-> l]
    IN  /\ Counted /\ config # cfg /\ ValidBoard(cfg)
        /\ config' = cfg
        /\ UNCHANGED <<data, live, placed, moving>>

(* Records are edited, deleted and created elsewhere; a deleted record     *)
(* takes its place on the board along.                                     *)
EditRecord(x, f, v) ==
    /\ Counted
    /\ x \in live \ Locked /\ data[x][f] # v
    /\ data' = [data EXCEPT ![x][f] = v]
    /\ UNCHANGED <<config, live, placed, moving>>
DeleteRecord(x) ==
    /\ Counted
    /\ x \in live \ Locked
    /\ live' = live \ {x}
    /\ placed' = [placed EXCEPT ![x] = NoRow]
    /\ UNCHANGED <<config, data, moving>>
CreateRecord(x) ==
    /\ Counted
    /\ x \in Cards \ live
    /\ live' = live \cup {x}
    /\ data' = [data EXCEPT ![x] = [f \in Fields |-> NoValue]]
    /\ UNCHANGED <<config, placed, moving>>

-----------------------------------------------------------------------------
(* moveBoardCard *)

(* Two anchors whose ranks leave no room, or are the wrong way round. *)
Crowded(before, after) ==
    before # NoCard /\ after # NoCard /\ Rank(after) - Rank(before) <= MinGap

(* _rebalance_cell: the cards of the cell but the moving one are numbered  *)
(* in the order they are shown in.                                         *)
Rebalanced(cards) ==
    [x \in cards |-> RankStep * Cardinality({y \in cards : y = x \/ Ahead(y, x)})]

(* _rank_for_target_position, given the ranks after renumbering. *)
PlaceBetween(rank, before, after, others) ==
    CASE before # NoCard /\ after # NoCard -> (rank[before] + rank[after]) \div 2
      [] before # NoCard /\ after = NoCard -> rank[before] + RankStep
      [] before = NoCard /\ after # NoCard -> rank[after] - RankStep
      [] OTHER -> RankStep +
           (IF others = {} THEN 0 ELSE CHOOSE n \in {rank[x] : x \in others} :
                                            \A x \in others : rank[x] <= n)

BeginMove(m, card, col, lane, before, after) ==
    LET cell == <<col, IF config.lane = NoField THEN NoValue
                       ELSE IF lane = Keep THEN data[card][config.lane] ELSE lane>>
        others == InCell(config, cell) \ {card}
        fresh == IF Crowded(before, after) THEN Rebalanced(others) ELSE [x \in {} |-> 0]
        rank == [x \in Cards |-> IF x \in DOMAIN fresh THEN fresh[x] ELSE Rank(x)]
    IN  /\ moving[m] = Resting /\ Counted
        /\ card \in live \ Locked
        /\ {before, after} \ {NoCard} \subseteq others \ Locked
        /\ lane # Keep => config.lane # NoField
        /\ (before # NoCard /\ after # NoCard) => rank[before] < rank[after]
        /\ moving' = [moving EXCEPT ![m] =
              [card |-> card, before |-> before, after |-> after, cfg |-> config,
               cell |-> cell, setLane |-> lane # Keep, fresh |-> fresh,
               rank |-> PlaceBetween(rank, before, after, others),
               seen |-> [data |-> data, live |-> live, placed |-> placed]]]
        /\ UNCHANGED <<config, data, live, placed>>

(* A row that was inserted or deleted since it was read makes the whole    *)
(* transaction fail; one that was changed is overwritten.                  *)
SameRows(e) ==
    \A x \in DOMAIN e.fresh : x \in live /\ (placed[x] = NoRow <=> e.seen.placed[x] = NoRow)

CommitMove(m) ==
    LET e == moving[m]
        moved == [data[e.card] EXCEPT ![e.cfg.group] = e.cell[1]]
        row(x, rank) == [rank |-> rank, rev |-> e.seen.placed[x].rev + 1]
    IN  /\ e # Resting
        /\ DOMAIN e.fresh \cap LockedByOthers(m) = {} /\ SameRows(e)
        /\ placed' = [x \in Cards |-> CASE x = e.card -> row(x, e.rank)
                                        [] x \in DOMAIN e.fresh -> row(x, e.fresh[x])
                                        [] OTHER -> placed[x]]
        /\ data' = [data EXCEPT ![e.card] =
              IF e.setLane THEN [moved EXCEPT ![e.cfg.lane] = e.cell[2]] ELSE moved]
        /\ moving' = [moving EXCEPT ![m] = Resting]
        /\ UNCHANGED <<config, live, steps>>

(* A conflict, a deadlock the database ends, or a lost connection. *)
AbandonMove(m) ==
    /\ moving[m] # Resting
    /\ moving' = [moving EXCEPT ![m] = Resting]
    /\ UNCHANGED <<config, data, live, placed, steps>>

NextBoards ==
    \/ \E g \in Fields, l \in Fields \cup {NoField} : ConfigureBoard(g, l)
    \/ \E x \in Cards, f \in Fields, v \in Contents : EditRecord(x, f, v)
    \/ \E x \in Cards : DeleteRecord(x) \/ CreateRecord(x)
    \/ \E m \in Movers, card \in Cards, col \in Contents, lane \in Contents \cup {Keep},
          before, after \in Cards \cup {NoCard} : BeginMove(m, card, col, lane, before, after)
    \/ \E m \in Movers : CommitMove(m) \/ AbandonMove(m)

SpecBoards == InitBoards /\ [][NextBoards]_varsBoards

-----------------------------------------------------------------------------
(* The variables have values of their types. *)
TypeOKBoards ==
    /\ ValidBoard(config)
    /\ data \in [Cards -> [Fields -> Contents]]
    /\ live \subseteq Cards
    /\ placed \in [Cards -> [rank : Int, rev : Nat]]
    /\ \A m \in Movers : moving[m].card \in Cards \cup {NoCard}

(* A committed move puts its card into the cell that was asked for,        *)
(* strictly between the anchors the user dropped it between, whatever runs *)
(* beside it and however often the gap was halved; and if nothing else was *)
(* written meanwhile, the pages show all other cards in the same order.     *)
MovesLandInPlaceStep ==
    \A m \in Movers :
       (moving[m] # Resting /\ moving'[m] = Resting /\ placed' # placed) =>
          LET e == moving[m]
          IN  /\ CellIn(data', e.cfg, e.card) = e.cell
              /\ e.before # NoCard => RankIn(placed', e.before) < RankIn(placed', e.card)
              /\ e.after # NoCard => RankIn(placed', e.card) < RankIn(placed', e.after)
              /\ \A x \in Anchors(e) : CellIn(data', e.cfg, x) = e.cell
              /\ e.seen = [data |-> data, live |-> live, placed |-> placed] =>
                   \A x, y \in live \ {e.card} :
                      /\ x \in live' /\ CellIn(data', e.cfg, x) = CellIn(data, e.cfg, x)
                      /\ CellIn(data, e.cfg, x) = CellIn(data, e.cfg, y) =>
                            (AheadIn(placed', x, y) <=> AheadIn(placed, x, y))
MovesLandInPlace == [][MovesLandInPlaceStep]_varsBoards

(* Two different orders of a card never carry the same revision, so that a *)
(* client that sends expectedOrderRevision knows its card has not moved.   *)
RevisionsTellMoves ==
    [][\A x \in Cards : (placed[x] # NoRow /\ placed'[x] # NoRow /\ placed[x] # placed'[x])
                           => placed'[x].rev > placed[x].rev]_varsBoards
=============================================================================
