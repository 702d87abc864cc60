------------------------------- MODULE Tetris -------------------------------
(***************************************************************************)
(* The console Tetris of tetris/tetris/tetris.cpp: the title screen and    *)
(* the loop of play(), one action per turn of it.  One thread, no          *)
(* concurrency: what is hard is the order of the calls in a turn, the      *)
(* tests they make against a board they have just changed, and indices.    *)
(*                                                                         *)
(* `board` is the array as C lays it out: board[y][x] is cell              *)
(* y * BOARD_WIDTH + x, also for an x at or past the edge.                 *)
(***************************************************************************)
EXTENDS Integers, FiniteSets

CONSTANTS
    BOARD_WIDTH, BOARD_HEIGHT,
    Speed0,           \* speed after reset()            (100 in the code)
    LinesPerLevel,    \*                                ( 10 in the code)
    RandomTypes,      \* bound: what rand() % 7 returns
    MaxPieces,        \* bound: pieces in all games together
    MaxClock          \* bound: time_cont stays there once it has run past speed

ASSUME SizeAssumption ==
    BOARD_WIDTH \in Nat /\ BOARD_WIDTH >= 6 /\ BOARD_HEIGHT \in Nat /\ BOARD_HEIGHT >= 7
ASSUME PaceAssumption ==
    /\ Speed0 \in Nat \ {0}
    /\ LinesPerLevel \in Nat /\ LinesPerLevel >= 4    \* a piece is 4 rows high
ASSUME BoundAssumption ==
    /\ RandomTypes \subseteq 0 .. 6 /\ RandomTypes # {}
    /\ MaxPieces \in Nat /\ MaxClock \in Nat /\ MaxClock > Speed0

EMPTY == 0
M_BLOCK == 1          \* moving
S_BLOCK == 2          \* settled
CEILING == 3
WALL == 4

(* blocks[type][rotation]: the <<row, column>> that hold a 1.              *)
blocks ==
    LET o == {<<1,1>>, <<1,2>>, <<2,1>>, <<2,2>>}
        flatI == {<<2,0>>, <<2,1>>, <<2,2>>, <<2,3>>}
        tallI == {<<0,1>>, <<1,1>>, <<2,1>>, <<3,1>>}
        flatZ == {<<1,0>>, <<1,1>>, <<2,1>>, <<2,2>>}
        tallZ == {<<1,2>>, <<2,1>>, <<2,2>>, <<3,1>>}
        flatS == {<<1,1>>, <<1,2>>, <<2,0>>, <<2,1>>}
        tallS == {<<1,0>>, <<2,0>>, <<2,1>>, <<3,1>>}
        bar   == {<<2,0>>, <<2,1>>, <<2,2>>}
        pole  == {<<1,1>>, <<2,1>>, <<3,1>>}
        Rotations(a, b, c, d) ==
            [r \in 0 .. 3 |-> CASE r = 0 -> a [] r = 1 -> b [] r = 2 -> c [] r = 3 -> d]
    IN  [t \in 0 .. 6 |->
           CASE t = 0 -> Rotations(o, o, o, o)
             [] t = 1 -> Rotations(flatI, tallI, flatI, tallI)
             [] t = 2 -> Rotations(flatZ, tallZ, flatZ, tallZ)
             [] t = 3 -> Rotations(flatS, tallS, flatS, tallS)
             [] t = 4 -> Rotations(bar \cup {<<1,2>>}, pole \cup {<<1,0>>},
                                   bar \cup {<<3,0>>}, pole \cup {<<3,2>>})
             [] t = 5 -> Rotations(bar \cup {<<1,0>>}, pole \cup {<<3,0>>},
                                   bar \cup {<<3,2>>}, pole \cup {<<1,2>>})
             [] t = 6 -> Rotations(bar \cup {<<1,1>>}, pole \cup {<<2,2>>},
                                   bar \cup {<<3,1>>}, pole \cup {<<2,0>>})]

VARIABLES
    screen,           \* "title" | "play" | "exit"
    menu,             \* title(): the entry marked, 0 start, 1 quit
    board,
    block,            \* [b_type, b_rotation, b_next, bx, by]
    clock,            \* [time_cont, speed]
    tally,            \* [score, score_up, level]
    pieces            \* pieces made so far (for MaxPieces)

vars == <<screen, menu, board, block, clock, tally, pieces>>

Cells == 0 .. BOARD_WIDTH * BOARD_HEIGHT - 1
At(y, x) == y * BOARD_WIDTH + x
Row(y) == {At(y, x) : x \in 0 .. BOARD_WIDTH - 1}
Inner(y) == {At(y, x) : x \in 1 .. BOARD_WIDTH - 2}
BoardWalls == {At(y, 0) : y \in 0 .. BOARD_HEIGHT - 1}
         \cup {At(y, BOARD_WIDTH - 1) : y \in 0 .. BOARD_HEIGHT - 1}
         \cup Row(BOARD_HEIGHT - 1)

Shape(x, y, rotation, type) ==
    {At(y + c[1], x + c[2]) : c \in blocks[type][rotation]}
Window(x, y) == {At(y + i, x + j) : i \in 0 .. 3, j \in 0 .. 3}
ShapeOf(blk) == Shape(blk.bx, blk.by, blk.b_rotation, blk.b_type)

(* board with every cell of ks set to v.                                   *)
Set(b, ks, v) == [k \in DOMAIN b \cup ks |-> IF k \in ks THEN v ELSE b[k]]

-----------------------------------------------------------------------------
make_wall(b) == Set(b, BoardWalls, WALL)

(* draw_board: what it changes in the board.                               *)
draw_board(b) == Set(b, {k \in Inner(2) : b[k] # M_BLOCK}, CEILING)

(* TRUE if the block fits.                                                 *)
check_crash(b, x, y, rotation, type) ==
    \A k \in Shape(x, y, rotation, type) : b[k] \notin {S_BLOCK, WALL}

delete_block(b, x, y, rotation, type) ==
    Set(b, Shape(x, y, rotation, type), EMPTY)

insert_block(b, x, y, rotation, type) ==
    Set(b, Shape(x, y, rotation, type), M_BLOCK)

(* Fault: only the floor is made again.                                    *)
move_block_floor_only(b, blk, dx, dy) ==
    Set(insert_block(
            delete_block(b, blk.bx, blk.by, blk.b_rotation, blk.b_type),
            blk.bx + dx, blk.by + dy, blk.b_rotation, blk.b_type),
        Row(BOARD_HEIGHT - 1), WALL)

(* The board after move_block by dx columns or dy rows.                    *)
move_block(b, blk, dx, dy) ==
    make_wall(insert_block(
        delete_block(b, blk.bx, blk.by, blk.b_rotation, blk.b_type),
        blk.bx + dx, blk.by + dy, blk.b_rotation, blk.b_type))

(* One full row i taken out: the rows above it move down to row 2, the     *)
(* ceiling does not.                                                       *)
ShiftDown(b, i) ==
    LET moved == UNION {Inner(y) : y \in 2 .. i}
    IN  [k \in DOMAIN b |-> IF k \notin moved THEN b[k]
                            ELSE IF b[k - BOARD_WIDTH] = CEILING THEN EMPTY
                            ELSE b[k - BOARD_WIDTH]]

IsFull(b, i) == Cardinality({k \in Row(i) : b[k] = S_BLOCK}) = BOARD_WIDTH - 2

(* Fault: the row that moved into the place of a full one is not looked at.*)
check_row_once(s) ==
    IF s.i <= 3 THEN s
    ELSE IF IsFull(s.board, s.i)
         THEN [board |-> ShiftDown(s.board, s.i), i |-> s.i - 1, lines |-> s.lines + 1]
         ELSE [s EXCEPT !.i = s.i - 1]

(* A round of check_line's loop, at row i with this many rows taken out.   *)
check_row(s) ==
    IF s.i <= 3 THEN s
    ELSE IF IsFull(s.board, s.i)
         THEN [board |-> ShiftDown(s.board, s.i), i |-> s.i, lines |-> s.lines + 1]
         ELSE [s EXCEPT !.i = s.i - 1]

(* check_line: its loop is over, at row 3, before BOARD_HEIGHT rounds.     *)
check_line(b) ==
    LET rounds[n \in 0 .. BOARD_HEIGHT] ==
            IF n = 0 THEN [board |-> b, i |-> BOARD_HEIGHT - 2, lines |-> 0]
            ELSE check_row(rounds[n - 1])
    IN  rounds[BOARD_HEIGHT]

(* A game in the middle of a turn: board, block, lines taken out in this   *)
(* turn, touch_flag.                                                       *)
Turn == [board |-> board, block |-> block, lines |-> 0, touch_flag |-> FALSE]

(* drop_block returns nothing once the block has settled: by is then       *)
(* whatever was in the register.                                           *)
Garbage == -1

(* Fault: only the row that is the block's lowest one settles.             *)
drop_block_one_row(t) ==
    LET y == t.block.by + 1
        b == move_block(t.board, t.block, 0, 1)
    IN  IF check_crash(b, t.block.bx, y + 1, t.block.b_rotation, t.block.b_type)
        THEN [t EXCEPT !.board = b, !.block.by = y]
        ELSE LET settled == {k \in Window(t.block.bx, y) \cap Row(y + 2) : b[k] = M_BLOCK}
                 done == check_line(Set(b, settled, S_BLOCK))
             IN  [board |-> done.board, block |-> [t.block EXCEPT !.by = Garbage],
                  lines |-> t.lines + done.lines, touch_flag |-> TRUE]

drop_block(t) ==
    LET y == t.block.by + 1
        b == move_block(t.board, t.block, 0, 1)
    IN  IF check_crash(b, t.block.bx, y + 1, t.block.b_rotation, t.block.b_type)
        THEN [t EXCEPT !.board = b, !.block.by = y]
        ELSE LET settled == {k \in Window(t.block.bx, y) \cap Cells : b[k] = M_BLOCK}
                 done == check_line(Set(b, settled, S_BLOCK))
             IN  [board |-> done.board, block |-> [t.block EXCEPT !.by = Garbage],
                  lines |-> t.lines + done.lines, touch_flag |-> TRUE]

(* Space: play() drops until the block touches, which it does before it    *)
(* has passed every row.                                                   *)
drop_again(t) == IF t.touch_flag THEN t ELSE drop_block(t)
hard_drop(t) ==
    LET drops[n \in 0 .. BOARD_HEIGHT] == IF n = 0 THEN t ELSE drop_again(drops[n - 1])
    IN  drops[BOARD_HEIGHT]

rotate_block(b, blk) ==
    insert_block(delete_block(b, blk.bx, blk.by, blk.b_rotation, blk.b_type),
                 blk.bx, blk.by, (blk.b_rotation + 1) % 4, blk.b_type)

(* The answers check_crash may give before a rotation.  It is asked for    *)
(* rotation + 1: from rotation 3 that is rotation 0 of the next type, and  *)
(* for the last type whatever lies behind `blocks`.                        *)
RotationFits(b, blk) ==
    LET Fits(r, t) == check_crash(b, blk.bx, blk.by, r, t)
    IN  IF blk.b_rotation < 3 THEN {Fits(blk.b_rotation + 1, blk.b_type)}
        ELSE IF blk.b_type < 6 THEN {Fits(0, blk.b_type + 1)}
        ELSE BOOLEAN

Keys == {"none", "left", "right", "up", "down", "space"}

(* check_input, and the hard drop play() makes right after it: the turns   *)
(* that may come of a key.                                                 *)
check_input(key) ==
    LET t == Turn
        x == block.bx
        Fits(dx) == check_crash(board, x + dx, block.by, block.b_rotation, block.b_type)
        Side(dx) == [t EXCEPT !.board = move_block(board, block, dx, 0), !.block.bx = x + dx]
        Rotated == [t EXCEPT !.board = rotate_block(board, block),
                             !.block.b_rotation = (block.b_rotation + 1) % 4]
    IN  CASE key = "none"  -> {t}
          [] key = "left"  -> {IF Fits(-1) THEN Side(-1) ELSE t}
          [] key = "right" -> {IF Fits(1) THEN Side(1) ELSE t}
          [] key = "up"    -> {IF fits THEN Rotated ELSE t : fits \in RotationFits(board, block)}
          [] key = "down"  -> {drop_block(t)}
          [] key = "space" -> {hard_drop(t)}

(* The whole 4x4 picture of the block is copied, its zeros too.            *)
PutNew(b, blk) ==
    Set(Set(b, Window(blk.bx, blk.by), EMPTY), ShapeOf(blk), M_BLOCK)

NewBlock(type, next) ==
    [b_type |-> type, b_rotation |-> 0, b_next |-> next,
     bx |-> BOARD_WIDTH \div 2 - 2, by |-> 0]

(* Fault: only type and rotation are set.                                  *)
new_block_in_place(blk) ==
    [blk EXCEPT !.b_type = blk.b_next, !.b_rotation = 0, !.b_next = 1]

new_block(blk) == NewBlock(blk.b_next, 1)

check_game_over(b) == \E x \in 1 .. BOARD_WIDTH - 3 : b[At(4, x)] = S_BLOCK

(* The score of a turn, and the level and speed that follow from it.       *)
Scored(t) ==
    [score |-> tally.score + t.lines,
     score_up |-> IF t.lines > 0 THEN 0 ELSE tally.score_up]
(* Fault: the level is only looked at when score is exactly at it.         *)
LevelUpExact(s) == s.score = tally.level * LinesPerLevel /\ s.score_up = 0

LevelUp(s) == s.score \div LinesPerLevel = tally.level /\ s.score_up = 0

Halved(v) == IF v \div 2 = 0 THEN 1 ELSE v \div 2

(* The end of a turn t, the clock being at time.                           *)
EndOfTurn(t, time) ==
    LET s == Scored(t)
        up == LevelUp(s)
        next == IF t.touch_flag THEN new_block(t.block) ELSE t.block
        b == IF t.touch_flag THEN PutNew(t.board, next) ELSE t.board
    IN  /\ tally' = [score |-> s.score,
                     score_up |-> IF up THEN 1 ELSE s.score_up,
                     level |-> IF up THEN tally.level + 1 ELSE tally.level]
        /\ clock' = [time_cont |-> time,
                     speed |-> IF up THEN Halved(clock.speed) ELSE clock.speed]
        /\ block' = next
        /\ board' = b
        /\ pieces' = IF t.touch_flag THEN pieces + 1 ELSE pieces
        /\ screen' = IF check_game_over(b) THEN "title" ELSE "play"
        /\ menu' = 0

-----------------------------------------------------------------------------
(* reset() and init_block().                                               *)
reset_board == draw_board(make_wall([k \in Cells |-> EMPTY]))

Init ==
    /\ screen = "title"
    /\ menu = 0
    /\ board = [k \in Cells |-> EMPTY]
    /\ block = [b_type |-> 0, b_rotation |-> 0, b_next |-> 0, bx |-> 0, by |-> 0]
    /\ clock = [time_cont |-> 0, speed |-> Speed0]
    /\ tally = [score |-> 0, score_up |-> 1, level |-> 1]
    /\ pieces = 0

TitleMove ==
    /\ screen = "title"
    /\ \/ menu > 0 /\ menu' = menu - 1
       \/ menu < 1 /\ menu' = menu + 1
    /\ UNCHANGED <<screen, board, block, clock, tally, pieces>>

TitleQuit ==
    /\ screen = "title"
    /\ menu = 1
    /\ screen' = "exit"
    /\ UNCHANGED <<menu, board, block, clock, tally, pieces>>

(* play(), up to its loop.                                                 *)
TitleStart ==
    /\ screen = "title"
    /\ menu = 0
    /\ pieces < MaxPieces
    /\ \E type \in RandomTypes, next \in RandomTypes :
          /\ block' = NewBlock(type, next)
          /\ board' = PutNew(reset_board, NewBlock(type, next))
    /\ clock' = [time_cont |-> 0, speed |-> Speed0]
    /\ tally' = [score |-> 0, score_up |-> 1, level |-> 1]
    /\ pieces' = pieces + 1
    /\ screen' = "play"
    /\ UNCHANGED menu

Playing == screen = "play" /\ pieces <= MaxPieces

(* Fault: a turn that saw a key does not count.                            *)
PollFree(key) ==
    /\ Playing
    /\ clock.time_cont # clock.speed
    /\ \E t \in check_input(key) :
          EndOfTurn([t EXCEPT !.board = draw_board(t.board)],
                    IF clock.time_cont < MaxClock /\ key = "none"
                    THEN clock.time_cont + 1 ELSE clock.time_cont)

(* A turn of play() that polls the keyboard.                               *)
Poll(key) ==
    /\ Playing
    /\ clock.time_cont # clock.speed
    /\ \E t \in check_input(key) :
          EndOfTurn([t EXCEPT !.board = draw_board(t.board)],
                    IF clock.time_cont < MaxClock
                    THEN clock.time_cont + 1 ELSE MaxClock)

(* The turn in which the block falls by itself.                            *)
Fall ==
    /\ Playing
    /\ clock.time_cont = clock.speed
    /\ EndOfTurn(drop_block(Turn), 0)

Play == Fall \/ \E key \in Keys : Poll(key)
Next == TitleMove \/ TitleQuit \/ TitleStart \/ Play

Spec == Init /\ [][Next]_vars

(* play() loops by itself: it does not wait for a key.  (Weak fairness of   *)
(* Play, with what enables it spelt out; every step on the play screen is a*)
(* turn.  Nothing is asked of a clock that has reached its bound.)         *)
Fairness == \/ []<>(~Playing \/ clock.time_cont = MaxClock)
            \/ []<><<screen = "play">>_vars
FairSpec == Spec /\ Fairness

-----------------------------------------------------------------------------
(* In particular, the garbage drop_block returns is gone before the next   *)
(* turn, and the 4x4 picture of the block starts on the board.             *)
TypeOK ==
    /\ screen \in {"title", "play", "exit"}
    /\ menu \in {0, 1}
    /\ board \in [Cells -> EMPTY .. WALL]
    /\ block \in [b_type : 0 .. 6, b_rotation : 0 .. 3, b_next : 0 .. 6,
                  bx : 0 .. BOARD_WIDTH - 3, by : 0 .. BOARD_HEIGHT - 4]
    /\ clock \in [time_cont : 0 .. MaxClock, speed : 1 .. Speed0]
    /\ tally \in [score : Nat, score_up : {0, 1}, level : Nat \ {0}]
    /\ pieces \in 0 .. MaxPieces + 1

(* What moves on the board is the block, wherever deleting, inserting,     *)
(* settling and shifting rows have left it: no cell of an earlier position *)
(* or an earlier block is still M_BLOCK.                                   *)
(* (move_block, rotate_block, drop_block, check_line, new_block)           *)
OnlyTheBlockMoves ==
    screen = "play" => \A k \in Cells : board[k] = M_BLOCK => k \in ShapeOf(block)

(* The walls stand, but for one cell: from rotation 3 the test is of the   *)
(* next type's picture or, past the last, of anything, and so the long     *)
(* block and the last one may turn into the right wall, in their third row,*)
(* where the cell is the block's or empty until the block moves.  No block *)
(* ever settles in a wall, where check_line would count it.                *)
(* (check_input, check_crash, move_block, make_wall, drop_block)           *)
WallsStand ==
    screen = "play" =>
        \A k \in BoardWalls :
            board[k] # WALL => /\ k = At(block.by + 2, BOARD_WIDTH - 1)
                               /\ block.b_type \in {1, 6}
                               /\ board[k] # S_BLOCK

(* Wherever keys, turns and falls take the block, they leave nothing of it *)
(* behind and nothing of the walls missing.                                *)
(* (check_input, move_block, rotate_block, drop_block, new_block)          *)
MovesLeaveNoTrace == OnlyTheBlockMoves /\ WallsStand

(* check_line takes every full row out, however many become full at once   *)
(* and whatever slides into their place.                                   *)
NoFullRowStays ==
    screen = "play" => \A i \in 4 .. BOARD_HEIGHT - 2 : ~IsFull(board, i)

(* The level follows the score, which may jump by several lines: no level  *)
(* is skipped and none is given twice; the speed is halved once a level    *)
(* and never reaches 0.                                                    *)
SpeedAt(level) ==
    LET speed[n \in 1 .. level] == IF n = 1 THEN Speed0 ELSE Halved(speed[n - 1])
    IN  speed[level]
LevelFollowsScore ==
    /\ tally.level = 1 + tally.score \div LinesPerLevel
    /\ clock.speed = SpeedAt(tally.level)

(* No key sequence keeps a block in the air: with the clock not past speed,*)
(* it settles.                                                             *)
BlockLands ==
    \A n \in 1 .. MaxPieces :
        Playing /\ pieces = n /\ clock.time_cont <= clock.speed ~> pieces > n \/ ~Playing
=============================================================================
