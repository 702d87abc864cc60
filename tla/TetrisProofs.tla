---------------------------- MODULE TetrisProofs ----------------------------
(***************************************************************************)
(* Proofs about Tetris for a board of any size and any number of pieces:   *)
(* the block stays inside walls that stay whole, except where a test of    *)
(* the wrong shape lets it turn into one; a row is full only until its     *)
(* turn ends; the level follows the score.                                 *)
(***************************************************************************)
EXTENDS Tetris, SequenceLemmas, FiniteSetTheorems

-----------------------------------------------------------------------------
(* The board as rows and columns.                                          *)
LEMMA Ordered ==
  ASSUME NEW a \in Int, NEW b \in Int, NEW w \in Nat, a <= b
  PROVE  a * w <= b * w /\ a * w \in Int /\ b * w \in Int
OBVIOUS

LEMMA Multiples ==
  ASSUME NEW a \in Int, NEW w \in Int
  PROVE  (a + 1) * w = a * w + w /\ (a - 1) * w = a * w - w /\ a * w \in Int
OBVIOUS

LEMMA AtInt ==
  ASSUME NEW y \in Int, NEW x \in Int
  PROVE  At(y, x) \in Int
BY SizeAssumption, Multiples DEF At

LEMMA AtCell ==
  ASSUME NEW y \in 0 .. BOARD_HEIGHT - 1, NEW x \in 0 .. BOARD_WIDTH - 1
  PROVE  At(y, x) \in Cells
<1> DEFINE w == BOARD_WIDTH
           h == BOARD_HEIGHT
           p == y * w
           q == w * h
<1>1. w \in Nat /\ h \in Nat
  BY SizeAssumption
<1>2. 0 * w <= p /\ p <= (h - 1) * w /\ p \in Int /\ 0 * w = 0
  BY <1>1, Ordered
<1>3. (h - 1) * w = h * w - w /\ h * w = q /\ q \in Int
  BY <1>1, Multiples
<1> HIDE DEF p, q
<1>4. p + x \in 0 .. q - 1
  BY <1>1, <1>2, <1>3
<1>5. QED  BY <1>4 DEF At, Cells, p, q

LEMMA AtEdge ==
  ASSUME NEW y \in Int
  PROVE  At(y, BOARD_WIDTH) = At(y + 1, 0)
<1>1. (y + 1) * BOARD_WIDTH = y * BOARD_WIDTH + BOARD_WIDTH /\ y * BOARD_WIDTH \in Int
  BY SizeAssumption, Multiples
<1>2. QED  BY <1>1, SizeAssumption DEF At

LEMMA AtAbove ==
  ASSUME NEW y \in Int, NEW x \in Int
  PROVE  At(y, x) - BOARD_WIDTH = At(y - 1, x)
<1>1. (y - 1) * BOARD_WIDTH = y * BOARD_WIDTH - BOARD_WIDTH /\ y * BOARD_WIDTH \in Int
  BY SizeAssumption, Multiples
<1>2. QED  BY <1>1, SizeAssumption DEF At

LEMMA AtSame ==
  ASSUME NEW y \in Int, NEW x \in 0 .. BOARD_WIDTH - 1,
         NEW v \in Int, NEW u \in 0 .. BOARD_WIDTH - 1, At(y, x) = At(v, u)
  PROVE  y = v /\ x = u
<1> DEFINE w == BOARD_WIDTH
           p == y * w
           q == v * w
<1>1. w \in Nat /\ w > 0
  BY SizeAssumption
<1>2. p + x = q + u
  BY DEF At
<1>3. p \in Int /\ q \in Int
  BY <1>1, Multiples
<1>4. ~ (y + 1 <= v)
  <2> SUFFICES ASSUME y + 1 <= v
               PROVE  FALSE
    OBVIOUS
  <2>1. (y + 1) * w <= q /\ (y + 1) * w = p + w
    BY <1>1, Ordered, Multiples
  <2> HIDE DEF p, q
  <2>2. QED  BY <1>1, <1>2, <1>3, <2>1
<1>5. ~ (v + 1 <= y)
  <2> SUFFICES ASSUME v + 1 <= y
               PROVE  FALSE
    OBVIOUS
  <2>1. (v + 1) * w <= p /\ (v + 1) * w = q + w
    BY <1>1, Ordered, Multiples
  <2> HIDE DEF p, q
  <2>2. QED  BY <1>1, <1>2, <1>3, <2>1
<1>6. y = v
  BY <1>4, <1>5
<1>7. QED  BY <1>2, <1>3, <1>6

-----------------------------------------------------------------------------
(* The shapes.  Only the long block is four columns wide, and then in row 2*)
(* only; every shape has <<2, 1>>.                                         *)
LEMMA Pictures ==
  /\ blocks[0][0] = {<<1,1>>, <<1,2>>, <<2,1>>, <<2,2>>}
  /\ blocks[0][1] = {<<1,1>>, <<1,2>>, <<2,1>>, <<2,2>>}
  /\ blocks[0][2] = {<<1,1>>, <<1,2>>, <<2,1>>, <<2,2>>}
  /\ blocks[0][3] = {<<1,1>>, <<1,2>>, <<2,1>>, <<2,2>>}
  /\ blocks[1][0] = {<<2,0>>, <<2,1>>, <<2,2>>, <<2,3>>}
  /\ blocks[1][1] = {<<0,1>>, <<1,1>>, <<2,1>>, <<3,1>>}
  /\ blocks[1][2] = {<<2,0>>, <<2,1>>, <<2,2>>, <<2,3>>}
  /\ blocks[1][3] = {<<0,1>>, <<1,1>>, <<2,1>>, <<3,1>>}
  /\ blocks[2][0] = {<<1,0>>, <<1,1>>, <<2,1>>, <<2,2>>}
  /\ blocks[2][1] = {<<1,2>>, <<2,1>>, <<2,2>>, <<3,1>>}
  /\ blocks[2][2] = {<<1,0>>, <<1,1>>, <<2,1>>, <<2,2>>}
  /\ blocks[2][3] = {<<1,2>>, <<2,1>>, <<2,2>>, <<3,1>>}
  /\ blocks[3][0] = {<<1,1>>, <<1,2>>, <<2,0>>, <<2,1>>}
  /\ blocks[3][1] = {<<1,0>>, <<2,0>>, <<2,1>>, <<3,1>>}
  /\ blocks[3][2] = {<<1,1>>, <<1,2>>, <<2,0>>, <<2,1>>}
  /\ blocks[3][3] = {<<1,0>>, <<2,0>>, <<2,1>>, <<3,1>>}
  /\ blocks[4][0] = {<<2,0>>, <<2,1>>, <<2,2>>, <<1,2>>}
  /\ blocks[4][1] = {<<1,1>>, <<2,1>>, <<3,1>>, <<1,0>>}
  /\ blocks[4][2] = {<<2,0>>, <<2,1>>, <<2,2>>, <<3,0>>}
  /\ blocks[4][3] = {<<1,1>>, <<2,1>>, <<3,1>>, <<3,2>>}
  /\ blocks[5][0] = {<<2,0>>, <<2,1>>, <<2,2>>, <<1,0>>}
  /\ blocks[5][1] = {<<1,1>>, <<2,1>>, <<3,1>>, <<3,0>>}
  /\ blocks[5][2] = {<<2,0>>, <<2,1>>, <<2,2>>, <<3,2>>}
  /\ blocks[5][3] = {<<1,1>>, <<2,1>>, <<3,1>>, <<1,2>>}
  /\ blocks[6][0] = {<<2,0>>, <<2,1>>, <<2,2>>, <<1,1>>}
  /\ blocks[6][1] = {<<1,1>>, <<2,1>>, <<3,1>>, <<2,2>>}
  /\ blocks[6][2] = {<<2,0>>, <<2,1>>, <<2,2>>, <<3,1>>}
  /\ blocks[6][3] = {<<1,1>>, <<2,1>>, <<3,1>>, <<2,0>>}
BY DEF blocks

LEMMA Pairs ==
  ASSUME NEW a, NEW b
  PROVE  <<a, b>>[1] = a /\ <<a, b>>[2] = b
OBVIOUS

LEMMA ShapesAre ==
  ASSUME NEW t \in 0 .. 6, NEW r \in 0 .. 3
  PROVE  /\ blocks[t][r] \subseteq (0 .. 3) \X (0 .. 3)
         /\ <<2, 1>> \in blocks[t][r]
         /\ \A c \in blocks[t][r] : c[2] = 3 => c[1] = 2 /\ t = 1
         /\ \A c \in blocks[t][r] : c[1] = 0 => c[2] = 1
         /\ t = 1 => \A c \in blocks[t][r] : c[2] = 2 => <<2, 3>> \in blocks[t][r]
         /\ t = 6 => <<1, 1>> \in blocks[t][r] \/ <<3, 1>> \in blocks[t][r]
<1>1. t = 0 \/ t = 1 \/ t = 2 \/ t = 3 \/ t = 4 \/ t = 5 \/ t = 6
  OBVIOUS
<1>2. r = 0 \/ r = 1 \/ r = 2 \/ r = 3
  OBVIOUS
<1>3. QED  BY <1>1, <1>2, Pictures

-----------------------------------------------------------------------------
(* The walls and the cells within.                                         *)
LEMMA WallCells ==
  /\ BoardWalls \subseteq Cells
  /\ \A y \in 0 .. BOARD_HEIGHT - 1 :
        At(y, 0) \in BoardWalls /\ At(y, BOARD_WIDTH - 1) \in BoardWalls
  /\ \A x \in 0 .. BOARD_WIDTH - 1 : At(BOARD_HEIGHT - 1, x) \in BoardWalls
<1>1. /\ 0 \in 0 .. BOARD_WIDTH - 1 /\ BOARD_WIDTH - 1 \in 0 .. BOARD_WIDTH - 1
      /\ BOARD_HEIGHT - 1 \in 0 .. BOARD_HEIGHT - 1
  BY SizeAssumption
<1>2. QED  BY <1>1, AtCell DEF BoardWalls, Row

LEMMA InnerCells ==
  ASSUME NEW y \in 0 .. BOARD_HEIGHT - 2, NEW x \in 1 .. BOARD_WIDTH - 2
  PROVE  At(y, x) \in Cells /\ At(y, x) \notin BoardWalls
<1>1. y \in 0 .. BOARD_HEIGHT - 1 /\ x \in 0 .. BOARD_WIDTH - 1 /\ y \in Int
  BY SizeAssumption
<1>2. /\ x # 0 /\ x # BOARD_WIDTH - 1 /\ y # BOARD_HEIGHT - 1 /\ BOARD_HEIGHT - 1 \in Int
      /\ 0 \in 0 .. BOARD_WIDTH - 1 /\ BOARD_WIDTH - 1 \in 0 .. BOARD_WIDTH - 1
  BY SizeAssumption
<1>3. \A v \in 0 .. BOARD_HEIGHT - 1 : v \in Int
  OBVIOUS
<1>4. At(y, x) \notin BoardWalls
  BY <1>1, <1>2, <1>3, AtSame DEF BoardWalls, Row
<1>5. QED  BY <1>1, <1>4, AtCell

(* Row y holds nothing but settled cells from wall to wall.                *)
Full(b, y) == \A x \in 1 .. BOARD_WIDTH - 2 : b[At(y, x)] = S_BLOCK

LEMMA InnerCount ==
  ASSUME NEW y \in 0 .. BOARD_HEIGHT - 2
  PROVE  IsFiniteSet(Inner(y)) /\ Cardinality(Inner(y)) = BOARD_WIDTH - 2
<1> DEFINE C == 1 .. BOARD_WIDTH - 2
           f == [x \in C |-> At(y, x)]
<1>1. IsFiniteSet(C) /\ Cardinality(C) = BOARD_WIDTH - 2
  BY SizeAssumption, FS_Interval
<1>2. \A x \in C : x \in 0 .. BOARD_WIDTH - 1
  BY SizeAssumption
<1>3. y \in Int
  OBVIOUS
<1>4. f \in [C -> Inner(y)]
  BY DEF Inner
<1>5. \A x, u \in C : f[x] = f[u] => x = u
  BY <1>2, <1>3, AtSame
<1>6. \A k \in Inner(y) : \E x \in C : f[x] = k
  BY DEF Inner
<1> HIDE DEF f, C
<1>7. f \in Bijection(C, Inner(y))
  BY <1>4, <1>5, <1>6 DEF Bijection, Injection, IsInjective, Surjection
<1>8. ExistsBijection(C, Inner(y))
  BY <1>7 DEF ExistsBijection
<1>9. QED  BY <1>1, <1>8, FS_Bijection

(* With no settled cell in the walls, check_line counts right.             *)
LEMMA FullIs ==
  ASSUME NEW y \in 0 .. BOARD_HEIGHT - 2, NEW b, \A k \in BoardWalls : b[k] # S_BLOCK
  PROVE  IsFull(b, y) <=> Full(b, y)
<1> DEFINE S == {k \in Row(y) : b[k] = S_BLOCK}
<1>1. y \in 0 .. BOARD_HEIGHT - 1
  BY SizeAssumption
<1>2. b[At(y, 0)] # S_BLOCK /\ b[At(y, BOARD_WIDTH - 1)] # S_BLOCK
  BY <1>1, WallCells
<1>3. S = {k \in Inner(y) : b[k] = S_BLOCK}
  <2>1. Inner(y) \subseteq Row(y)
    BY SizeAssumption DEF Inner, Row
  <2>2. ASSUME NEW x \in 0 .. BOARD_WIDTH - 1, b[At(y, x)] = S_BLOCK
        PROVE  At(y, x) \in Inner(y)
    <3>1. x # 0 /\ x # BOARD_WIDTH - 1
      BY <1>2, <2>2
    <3>2. x \in 1 .. BOARD_WIDTH - 2
      BY <3>1, SizeAssumption
    <3>3. QED  BY <3>2 DEF Inner
  <2>3. QED  BY <2>1, <2>2 DEF Row
<1> HIDE DEF S
<1>4. S \in SUBSET Inner(y)
  BY <1>3
<1>5. Cardinality(S) = BOARD_WIDTH - 2 <=> S = Inner(y)
  BY <1>4, InnerCount, FS_Subset
<1>6. S = Inner(y) <=> Full(b, y)
  BY <1>3 DEF Inner, Full
<1>7. QED  BY <1>5, <1>6 DEF IsFull, S

-----------------------------------------------------------------------------
(* The invariant.  From rotation 3 the test is of the next type's shape,   *)
(* which is too narrow for the long block, and of anything for the last    *)
(* type: these may turn into the right wall, by one cell in row 2, and     *)
(* leave a hole there until they move.                                     *)
Loose(blk) == \/ blk.b_type = 1 /\ blk.bx = BOARD_WIDTH - 4
              \/ blk.b_type = 6 /\ blk.bx = BOARD_WIDTH - 3

BlockType == [b_type : 0 .. 6, b_rotation : 0 .. 3, b_next : 0 .. 6,
              bx : 0 .. BOARD_WIDTH - 3, by : 0 .. BOARD_HEIGHT - 5]

Inside(blk) ==
    \A c \in blocks[blk.b_type][blk.b_rotation] :
       /\ blk.bx + c[2] >= 1
       /\ \/ blk.bx + c[2] <= BOARD_WIDTH - 2
          \/ Loose(blk) /\ c[1] = 2 /\ blk.bx + c[2] = BOARD_WIDTH - 1

Boards == [Cells -> EMPTY .. WALL]

Walled(b, blk) ==
    \A k \in BoardWalls :
       b[k] = WALL \/ (Loose(blk) /\ k = At(blk.by + 2, BOARD_WIDTH - 1))

(* Neither in the walls, nor where the next block appears, nor all along a *)
(* row.                                                                    *)
Sparse(b) ==
    /\ \A k \in BoardWalls \cup Window(BOARD_WIDTH \div 2 - 2, 0) : b[k] # S_BLOCK
    /\ \A y \in 1 .. BOARD_HEIGHT - 2 : ~Full(b, y)

OnlyMoves(b, blk) == \A k \in Cells : b[k] = M_BLOCK => k \in ShapeOf(blk)

InPlay(b, blk) ==
    /\ b \in Boards /\ blk \in BlockType
    /\ Inside(blk) /\ Walled(b, blk) /\ Sparse(b) /\ OnlyMoves(b, blk)

IInv ==
    /\ TypeOK
    /\ LevelFollowsScore
    /\ screen = "play" => InPlay(board, block)

-----------------------------------------------------------------------------
(* What is done to a board.                                                *)
LEMMA SetIs ==
  ASSUME NEW b \in Boards, NEW ks, ks \subseteq Cells, NEW v \in EMPTY .. WALL
  PROVE  /\ Set(b, ks, v) \in Boards
         /\ \A k \in Cells : Set(b, ks, v)[k] = IF k \in ks THEN v ELSE b[k]
<1>1. DOMAIN b = Cells /\ DOMAIN b \cup ks = Cells
  BY DEF Boards
<1>2. Set(b, ks, v) = [k \in Cells |-> IF k \in ks THEN v ELSE b[k]]
  BY <1>1 DEF Set
<1>3. QED  BY <1>2 DEF Boards

LEMMA CellsOfBlock ==
  ASSUME NEW blk \in BlockType, Inside(blk), NEW y \in 0 .. BOARD_HEIGHT - 4
  PROVE  Shape(blk.bx, y, blk.b_rotation, blk.b_type) \subseteq Cells
<1> SUFFICES ASSUME NEW c \in blocks[blk.b_type][blk.b_rotation]
             PROVE  At(y + c[1], blk.bx + c[2]) \in Cells
  BY DEF Shape
<1>1. blk.b_type \in 0 .. 6 /\ blk.b_rotation \in 0 .. 3 /\ blk.bx \in 0 .. BOARD_WIDTH - 3
  BY DEF BlockType
<1>2. c \in (0 .. 3) \X (0 .. 3)
  BY <1>1, ShapesAre
<1>3. c[1] \in 0 .. 3 /\ c[2] \in 0 .. 3
  BY <1>2
<1>4. blk.bx + c[2] <= BOARD_WIDTH - 1
  BY <1>1, <1>3, SizeAssumption DEF Inside
<1>5. y + c[1] \in 0 .. BOARD_HEIGHT - 1 /\ blk.bx + c[2] \in 0 .. BOARD_WIDTH - 1
  BY <1>1, <1>3, <1>4, SizeAssumption
<1>6. QED  BY <1>5, AtCell

LEMMA MoveIs ==
  ASSUME NEW b \in Boards, NEW x, NEW y, NEW r, NEW t, NEW dx, NEW dy,
         NEW blk, blk.bx = x, blk.by = y, blk.b_rotation = r, blk.b_type = t,
         Shape(x, y, r, t) \subseteq Cells, Shape(x + dx, y + dy, r, t) \subseteq Cells
  PROVE  /\ move_block(b, blk, dx, dy) \in Boards
         /\ \A k \in Cells : move_block(b, blk, dx, dy)[k] =
                IF k \in BoardWalls THEN WALL
                ELSE IF k \in Shape(x + dx, y + dy, r, t) THEN M_BLOCK
                ELSE IF k \in Shape(x, y, r, t) THEN EMPTY ELSE b[k]
<1> DEFINE b1 == delete_block(b, x, y, r, t)
           b2 == insert_block(b1, x + dx, y + dy, r, t)
           b3 == make_wall(b2)
<1>1. EMPTY \in EMPTY .. WALL /\ M_BLOCK \in EMPTY .. WALL /\ WALL \in EMPTY .. WALL
  BY DEF EMPTY, M_BLOCK, WALL
<1>2. /\ b1 \in Boards
      /\ \A k \in Cells : b1[k] = IF k \in Shape(x, y, r, t) THEN EMPTY ELSE b[k]
  BY <1>1, SetIs DEF delete_block
<1> HIDE DEF b1
<1>3. /\ b2 \in Boards
      /\ \A k \in Cells :
            b2[k] = IF k \in Shape(x + dx, y + dy, r, t) THEN M_BLOCK ELSE b1[k]
  BY <1>1, <1>2, SetIs DEF insert_block
<1> HIDE DEF b2
<1>4. /\ b3 \in Boards
      /\ \A k \in Cells : b3[k] = IF k \in BoardWalls THEN WALL ELSE b2[k]
  BY <1>1, <1>3, SetIs, WallCells DEF make_wall
<1>5. move_block(b, blk, dx, dy) = b3
  BY DEF move_block, b1, b2
<1> HIDE DEF b3
<1>6. QED  BY <1>2, <1>3, <1>4, <1>5

(* No settled cell is new.                                                 *)
Fewer(d, b) == \A k \in Cells : d[k] = S_BLOCK => b[k] = S_BLOCK

LEMMA SparseFewer ==
  ASSUME NEW b, NEW d, Fewer(d, b), Sparse(b)
  PROVE  Sparse(d)
<1>1. Window(BOARD_WIDTH \div 2 - 2, 0) \subseteq Cells
  <2>1. /\ BOARD_WIDTH \div 2 - 2 \in 1 .. BOARD_WIDTH - 5
    BY SizeAssumption
  <2>2. ASSUME NEW i \in 0 .. 3, NEW j \in 0 .. 3
        PROVE  At(0 + i, BOARD_WIDTH \div 2 - 2 + j) \in Cells
    <3>1. 0 + i \in 0 .. BOARD_HEIGHT - 1 /\ BOARD_WIDTH \div 2 - 2 + j \in 0 .. BOARD_WIDTH - 1
      BY <2>1, SizeAssumption
    <3>2. QED  BY <3>1, AtCell
  <2>3. QED  BY <2>2 DEF Window
<1>2. \A y \in 1 .. BOARD_HEIGHT - 2, x \in 1 .. BOARD_WIDTH - 2 : At(y, x) \in Cells
  BY InnerCells
<1>3. \A k \in BoardWalls \cup Window(BOARD_WIDTH \div 2 - 2, 0) : d[k] # S_BLOCK
  BY <1>1, WallCells DEF Fewer, Sparse
<1>4. ASSUME NEW y \in 1 .. BOARD_HEIGHT - 2, Full(d, y)
      PROVE  Full(b, y)
  BY <1>2, <1>4 DEF Full, Fewer
<1>5. QED  BY <1>3, <1>4 DEF Sparse

-----------------------------------------------------------------------------
(* What fits is not in the walls.                                          *)
LEMMA FitsWithin ==
  ASSUME NEW b, NEW blk \in BlockType, Walled(b, blk), NEW x \in -1 .. BOARD_WIDTH - 2,
         NEW r \in 0 .. 3, NEW t \in 0 .. 6, check_crash(b, x, blk.by, r, t),
         NEW c \in blocks[t][r]
  PROVE  /\ x + c[2] # 0 /\ x + c[2] # BOARD_WIDTH
         /\ x + c[2] = BOARD_WIDTH - 1 => Loose(blk) /\ c[1] = 2
<1> DEFINE y == blk.by
           w == BOARD_WIDTH
<1>1. y \in 0 .. BOARD_HEIGHT - 5 /\ w \in Nat /\ w >= 6
  BY SizeAssumption DEF BlockType
<1>2. c[1] \in 0 .. 3 /\ c[2] \in 0 .. 3
  <2>1. c \in (0 .. 3) \X (0 .. 3)
    BY ShapesAre
  <2>2. QED  BY <2>1
<1>3. b[At(y + c[1], x + c[2])] # WALL
  BY DEF check_crash, Shape
<1>4. y + c[1] \in 0 .. BOARD_HEIGHT - 1 /\ y + c[1] + 1 \in 0 .. BOARD_HEIGHT - 1
  BY <1>1, <1>2, SizeAssumption
<1>5. ASSUME NEW v \in 0 .. BOARD_HEIGHT - 1, NEW u \in {0, w - 1},
             b[At(v, u)] # WALL
      PROVE  Loose(blk) /\ v = y + 2 /\ u = w - 1
  <2>1. At(v, u) \in BoardWalls
    BY WallCells
  <2>2. Loose(blk) /\ At(v, u) = At(y + 2, w - 1)
    BY <1>5, <2>1 DEF Walled
  <2>3. v \in Int /\ y + 2 \in Int /\ u \in 0 .. w - 1 /\ w - 1 \in 0 .. w - 1
    BY <1>1
  <2>4. QED  BY <2>2, <2>3, AtSame
<1>6. x + c[2] # 0
  <2> SUFFICES ASSUME x + c[2] = 0
               PROVE  FALSE
    OBVIOUS
  <2>1. 0 = w - 1
    BY <1>3, <1>4, <1>5
  <2>2. QED  BY <2>1, <1>1
<1>7. x + c[2] # w
  <2> SUFFICES ASSUME x + c[2] = w
               PROVE  FALSE
    OBVIOUS
  <2>1. y + c[1] \in Int
    BY <1>4
  <2>2. b[At(y + c[1] + 1, 0)] # WALL
    BY <1>3, <2>1, AtEdge
  <2>3. 0 = w - 1
    BY <2>2, <1>4, <1>5
  <2>4. QED  BY <2>3, <1>1
<1>8. x + c[2] = w - 1 => Loose(blk) /\ y + c[1] = y + 2
  BY <1>3, <1>4, <1>5
<1>9. QED  BY <1>1, <1>2, <1>6, <1>7, <1>8

LEMMA LeftWithin ==
  ASSUME NEW b, NEW blk \in BlockType, Inside(blk), Walled(b, blk),
         check_crash(b, blk.bx + -1, blk.by, blk.b_rotation, blk.b_type)
  PROVE  /\ blk.bx + -1 \in 0 .. BOARD_WIDTH - 3
         /\ \A c \in blocks[blk.b_type][blk.b_rotation] :
               blk.bx + -1 + c[2] >= 1 /\ blk.bx + -1 + c[2] <= BOARD_WIDTH - 2
<1> DEFINE x == blk.bx
           B == blocks[blk.b_type][blk.b_rotation]
<1>1. x \in 0 .. BOARD_WIDTH - 3 /\ blk.b_type \in 0 .. 6 /\ blk.b_rotation \in 0 .. 3
  BY DEF BlockType
<1>2. x + -1 \in -1 .. BOARD_WIDTH - 2
  BY <1>1, SizeAssumption
<1>3. B \subseteq (0 .. 3) \X (0 .. 3) /\ <<2, 1>> \in B
  BY <1>1, ShapesAre
<1>4. ASSUME NEW c \in B
      PROVE  x + -1 + c[2] >= 1 /\ x + -1 + c[2] <= BOARD_WIDTH - 2
  <2>1. x + -1 + c[2] # 0
    BY <1>1, <1>2, FitsWithin
  <2>2. c[2] \in 0 .. 3
    BY <1>3
  <2>3. x + c[2] >= 1 /\ x + c[2] <= BOARD_WIDTH - 1
    BY <1>1, <2>2, SizeAssumption DEF Inside
  <2>4. QED  BY <1>1, <2>1, <2>2, <2>3, SizeAssumption
<1>5. x + -1 + 1 >= 1
  BY <1>3, <1>4
<1>6. x + -1 \in 0 .. BOARD_WIDTH - 3
  BY <1>1, <1>5, SizeAssumption
<1>7. QED  BY <1>4, <1>6

LEMMA RightWithin ==
  ASSUME NEW b, NEW blk \in BlockType, Inside(blk), Walled(b, blk),
         check_crash(b, blk.bx + 1, blk.by, blk.b_rotation, blk.b_type)
  PROVE  /\ blk.bx + 1 \in 0 .. BOARD_WIDTH - 3
         /\ \A c \in blocks[blk.b_type][blk.b_rotation] :
               blk.bx + 1 + c[2] >= 1 /\ blk.bx + 1 + c[2] <= BOARD_WIDTH - 2
<1> DEFINE x == blk.bx
           t == blk.b_type
           B == blocks[t][blk.b_rotation]
           w == BOARD_WIDTH
<1>1. x \in 0 .. w - 3 /\ t \in 0 .. 6 /\ blk.b_rotation \in 0 .. 3 /\ w \in Nat /\ w >= 6
  BY SizeAssumption DEF BlockType
<1>2. x + 1 \in -1 .. w - 2
  BY <1>1
<1>3. B \subseteq (0 .. 3) \X (0 .. 3) /\ <<2, 1>> \in B
  BY <1>1, ShapesAre
<1>4. ASSUME NEW c \in B
      PROVE  /\ x + 1 + c[2] # w
             /\ x + 1 + c[2] = w - 1 => Loose(blk) /\ c[1] = 2
  BY <1>1, <1>2, FitsWithin
(* The hole in the wall does not let the block out: other cells of it      *)
(* would be in the wall.                                                   *)
<1>5. ASSUME NEW c \in B
      PROVE  x + 1 + c[2] # w - 1
  <2> SUFFICES ASSUME x + 1 + c[2] = w - 1
               PROVE  FALSE
    OBVIOUS
  <2>1. Loose(blk)
    BY <1>4
  <2>2. c[2] \in 0 .. 3
    BY <1>3
  <2>3. CASE t = 1 /\ x = w - 4
    <3>1. c[2] = 2
      BY <1>1, <2>2, <2>3
    <3>2. <<2, 3>> \in B
      BY <1>1, <2>3, <3>1, ShapesAre
    <3>3. x + 1 + 3 # w
      BY <1>4, <3>2
    <3>4. QED  BY <1>1, <2>3, <3>3
  <2>4. CASE t = 6 /\ x = w - 3
    <3>1. <<1, 1>> \in B \/ <<3, 1>> \in B
      BY <1>1, <2>4, ShapesAre
    <3>2. x + 1 + 1 # w - 1
      BY <1>4, <3>1
    <3>3. QED  BY <1>1, <2>4, <3>2
  <2>5. QED  BY <2>1, <2>3, <2>4 DEF Loose
<1>6. ASSUME NEW c \in B
      PROVE  x + 1 + c[2] >= 1 /\ x + 1 + c[2] <= w - 2
  <2>1. c[2] \in 0 .. 3
    BY <1>3
  <2>2. x + c[2] <= w - 1
    BY <1>1, <2>1 DEF Inside
  <2>3. x + 1 + c[2] # w /\ x + 1 + c[2] # w - 1
    BY <1>4, <1>5
  <2>4. QED  BY <1>1, <2>1, <2>2, <2>3
<1>7. x + 1 + 1 <= w - 2
  BY <1>3, <1>6
<1>8. x + 1 \in 0 .. w - 3
  BY <1>1, <1>7
<1>9. QED  BY <1>6, <1>8

(* The first shape of a type, and what a block at rotation 3 is tested for *)
(* instead.                                                                *)
LEMMA FirstShape ==
  ASSUME NEW t \in 0 .. 6
  PROVE  /\ t # 1 => \A c \in blocks[t][0] : c[2] <= 2
         /\ t = 0 => blocks[t][0] = blocks[t][3]
         /\ t \in 1 .. 5 => /\ \E c \in blocks[t + 1][0] : c[2] = 0
                           /\ \E c \in blocks[t + 1][0] : c[2] = 2
         /\ t = 6 => /\ <<2, 0>> \in blocks[t][3]
                    /\ \A c \in blocks[t][0] : c[2] = 2 => c[1] = 2
<1>1. t = 0 \/ t = 1 \/ t = 2 \/ t = 3 \/ t = 4 \/ t = 5 \/ t = 6
  OBVIOUS
<1>2. /\ <<2, 0>>[2] = 0 /\ <<1, 0>>[2] = 0 /\ <<2, 2>>[2] = 2 /\ <<1, 2>>[2] = 2
  OBVIOUS
<1>3. t # 1 => \A c \in blocks[t][0] : c[2] <= 2
  BY <1>1, Pictures
<1>4. t = 0 => blocks[t][0] = blocks[t][3]
  BY Pictures
<1>5. ASSUME t \in 1 .. 5
      PROVE  (\E c \in blocks[t + 1][0] : c[2] = 0) /\ (\E c \in blocks[t + 1][0] : c[2] = 2)
  <2>1. <<1, 0>> \in blocks[2][0] /\ <<2, 2>> \in blocks[2][0]
    BY Pictures
  <2>2. <<2, 0>> \in blocks[3][0] /\ <<1, 2>> \in blocks[3][0]
    BY Pictures
  <2>3. \A n \in 4 .. 6 : <<2, 0>> \in blocks[n][0] /\ <<2, 2>> \in blocks[n][0]
    <3>1. \A n \in 4 .. 6 : n = 4 \/ n = 5 \/ n = 6
      OBVIOUS
    <3>2. QED  BY <3>1, Pictures
  <2>4. CASE t = 1
    BY <1>2, <2>1, <2>4
  <2>5. CASE t = 2
    BY <1>2, <2>2, <2>5
  <2>6. CASE t \in 3 .. 5
    <3>1. t + 1 \in 4 .. 6
      BY <2>6
    <3>2. QED  BY <1>2, <2>3, <3>1
  <2>7. QED  BY <1>1, <1>5, <2>4, <2>5, <2>6
<1>6. t = 6 => <<2, 0>> \in blocks[t][3] /\ \A c \in blocks[t][0] : c[2] = 2 => c[1] = 2
  BY Pictures
<1>7. QED  BY <1>3, <1>4, <1>5, <1>6

LEMMA RotationTest ==
  ASSUME NEW b, NEW blk, TRUE \in RotationFits(b, blk)
  PROVE  /\ blk.b_rotation < 3 =>
               check_crash(b, blk.bx, blk.by, blk.b_rotation + 1, blk.b_type)
         /\ ~(blk.b_rotation < 3) /\ blk.b_type < 6 =>
               check_crash(b, blk.bx, blk.by, 0, blk.b_type + 1)
<1>1. ASSUME NEW P, TRUE \in {P}
      PROVE  P
  BY <1>1
<1>2. CASE blk.b_rotation < 3
  <2>1. TRUE \in {check_crash(b, blk.bx, blk.by, blk.b_rotation + 1, blk.b_type)}
    BY <1>2, Zenon DEF RotationFits
  <2>2. QED  BY <1>2, <2>1, Zenon
<1>3. CASE ~(blk.b_rotation < 3) /\ blk.b_type < 6
  <2>1. TRUE \in {check_crash(b, blk.bx, blk.by, 0, blk.b_type + 1)}
    BY <1>3, Zenon DEF RotationFits
  <2>2. QED  BY <1>3, <2>1, Zenon
<1>4. QED  BY <1>2, <1>3, Zenon

Turned(blk) == [blk EXCEPT !.b_rotation = (blk.b_rotation + 1) % 4]

LEMMA TurnedWithin ==
  ASSUME NEW b, NEW blk \in BlockType, Inside(blk), Walled(b, blk),
         TRUE \in RotationFits(b, blk)
  PROVE  Turned(blk) \in BlockType /\ Inside(Turned(blk))
<1> DEFINE x == blk.bx
           t == blk.b_type
           r == blk.b_rotation
           w == BOARD_WIDTH
           d == Turned(blk)
<1>1. x \in 0 .. w - 3 /\ t \in 0 .. 6 /\ r \in 0 .. 3 /\ w \in Nat /\ w >= 6
  BY SizeAssumption DEF BlockType
<1>2. (r < 3 => (r + 1) % 4 = r + 1) /\ (r = 3 => (r + 1) % 4 = 0)
  <2>1. r = 0 \/ r = 1 \/ r = 2 \/ r = 3
    BY <1>1
  <2>2. QED  BY <2>1
<1>3. /\ d.b_type = t /\ d.bx = x /\ d.b_rotation = (r + 1) % 4 /\ d \in BlockType
      /\ Loose(d) <=> Loose(blk)
  BY <1>1, <1>2 DEF BlockType, Turned, Loose
<1> HIDE DEF d
<1>4. x \in -1 .. w - 2
  BY <1>1
<1>5. CASE r < 3
  <2>1. d.b_rotation = r + 1
    BY <1>2, <1>3, <1>5
  <2>2. check_crash(b, x, blk.by, r + 1, t)
    BY <1>5, RotationTest, Zenon
  <2>3. r + 1 \in 0 .. 3
    BY <1>1, <1>5
  <2> SUFFICES ASSUME NEW c \in blocks[t][r + 1]
               PROVE  /\ x + c[2] >= 1
                      /\ x + c[2] <= w - 2 \/ (Loose(blk) /\ c[1] = 2 /\ x + c[2] = w - 1)
    BY <1>3, <2>1 DEF Inside, d
  <2>4. x + c[2] # 0 /\ x + c[2] # w /\ (x + c[2] = w - 1 => Loose(blk) /\ c[1] = 2)
    BY <1>1, <1>4, <2>2, <2>3, FitsWithin
  <2>5. c \in (0 .. 3) \X (0 .. 3)
    BY <1>1, <2>3, ShapesAre
  <2>6. c[2] \in 0 .. 3
    BY <2>5
  <2>7. QED  BY <1>1, <2>4, <2>6
<1>6. CASE r = 3
  <2>1. d.b_rotation = 0
    BY <1>2, <1>3, <1>6
  <2> SUFFICES ASSUME NEW c \in blocks[t][0]
               PROVE  /\ x + c[2] >= 1
                      /\ x + c[2] <= w - 2 \/ (Loose(blk) /\ c[1] = 2 /\ x + c[2] = w - 1)
    BY <1>3, <2>1 DEF Inside, d
  <2>2. c \in (0 .. 3) \X (0 .. 3) /\ (c[2] = 3 => c[1] = 2 /\ t = 1)
    BY <1>1, ShapesAre
  <2>3. c[2] \in 0 .. 3
    BY <2>2
  <2>4. CASE t = 0
    BY <1>6, <2>4, FirstShape DEF Inside
  <2>5. CASE t \in 1 .. 5
    <3>1. ~(r < 3) /\ t < 6
      BY <1>6, <2>5
    <3>2. check_crash(b, x, blk.by, 0, t + 1)
      BY <3>1, RotationTest, Zenon
    <3>3. t + 1 \in 0 .. 6 /\ 0 \in 0 .. 3
      BY <2>5
    <3>4. PICK e \in blocks[t + 1][0] : e[2] = 0
      BY <1>1, <2>5, FirstShape
    <3>5. x + e[2] # 0
      BY <1>4, <3>2, <3>3, FitsWithin
    <3>6. PICK f \in blocks[t + 1][0] : f[2] = 2
      BY <1>1, <2>5, FirstShape
    <3>7. x + f[2] = w - 1 => Loose(blk)
      BY <1>4, <3>2, <3>3, FitsWithin
    <3>8. x >= 1 /\ x <= w - 4
      BY <1>1, <2>5, <3>4, <3>5, <3>6, <3>7 DEF Loose
    <3>9. t # 1 => c[2] <= 2
      BY <1>1, FirstShape
    <3>10. CASE c[2] <= 2
      BY <1>1, <2>3, <3>8, <3>10
    <3>11. CASE c[2] = 3
      BY <1>1, <2>2, <3>8, <3>11 DEF Loose
    <3>12. QED  BY <2>3, <3>10, <3>11
  <2>6. CASE t = 6
    <3>1. <<2, 0>> \in blocks[t][r] /\ c[2] <= 2 /\ (c[2] = 2 => c[1] = 2)
      BY <1>1, <1>6, <2>6, FirstShape
    <3>2. x + 0 >= 1
      BY <3>1 DEF Inside
    <3>3. QED  BY <1>1, <2>3, <2>6, <3>1, <3>2 DEF Loose
  <2>7. QED  BY <1>1, <2>4, <2>5, <2>6
<1>7. QED  BY <1>1, <1>5, <1>6

-----------------------------------------------------------------------------
(* The block and the board after a step of the block.                      *)
LEMMA InWall ==
  ASSUME NEW blk \in BlockType, Inside(blk), NEW k \in ShapeOf(blk), k \in BoardWalls
  PROVE  Loose(blk) /\ k = At(blk.by + 2, BOARD_WIDTH - 1)
<1>1. /\ blk.b_type \in 0 .. 6 /\ blk.b_rotation \in 0 .. 3
      /\ blk.bx \in 0 .. BOARD_WIDTH - 3 /\ blk.by \in 0 .. BOARD_HEIGHT - 5
  BY DEF BlockType
<1>2. PICK c \in blocks[blk.b_type][blk.b_rotation] : k = At(blk.by + c[1], blk.bx + c[2])
  BY DEF ShapeOf, Shape
<1>3. c \in (0 .. 3) \X (0 .. 3)
  BY <1>1, ShapesAre
<1>4. c[1] \in 0 .. 3 /\ c[2] \in 0 .. 3
  BY <1>3
<1>5. blk.by + c[1] \in 0 .. BOARD_HEIGHT - 2
  BY <1>1, <1>4, SizeAssumption
<1>6. blk.bx + c[2] \notin 1 .. BOARD_WIDTH - 2
  BY <1>2, <1>5, InnerCells
<1>7. blk.bx + c[2] >= 1 /\ ~(blk.bx + c[2] <= BOARD_WIDTH - 2)
  BY <1>1, <1>4, <1>6, SizeAssumption DEF Inside
<1>8. Loose(blk) /\ c[1] = 2 /\ blk.bx + c[2] = BOARD_WIDTH - 1
  BY <1>7 DEF Inside
<1>9. QED  BY <1>2, <1>8

LEMMA MovedBoard ==
  ASSUME NEW b, NEW blk, InPlay(b, blk), NEW dx, NEW dy,
         Shape(blk.bx + dx, blk.by + dy, blk.b_rotation, blk.b_type) \subseteq Cells
  PROVE  LET d == move_block(b, blk, dx, dy)
         IN  /\ d \in Boards
             /\ \A k \in BoardWalls : d[k] = WALL
             /\ Fewer(d, b) /\ Sparse(d)
             /\ \A k \in Cells : d[k] = M_BLOCK =>
                   k \in Shape(blk.bx + dx, blk.by + dy, blk.b_rotation, blk.b_type)
<1> DEFINE d == move_block(b, blk, dx, dy)
           New == Shape(blk.bx + dx, blk.by + dy, blk.b_rotation, blk.b_type)
<1>1. b \in Boards /\ blk \in BlockType /\ Inside(blk) /\ Sparse(b) /\ OnlyMoves(b, blk)
  BY DEF InPlay
<1>2. blk.by \in 0 .. BOARD_HEIGHT - 4
  BY <1>1, SizeAssumption DEF BlockType
<1>3. ShapeOf(blk) \subseteq Cells
  BY <1>1, <1>2, CellsOfBlock DEF ShapeOf
<1>4. /\ d \in Boards
      /\ \A k \in Cells : d[k] = IF k \in BoardWalls THEN WALL
                               ELSE IF k \in New THEN M_BLOCK
                               ELSE IF k \in ShapeOf(blk) THEN EMPTY ELSE b[k]
  BY <1>1, <1>3, MoveIs DEF ShapeOf
<1> HIDE DEF d, New
<1>5. \A k \in BoardWalls : d[k] = WALL
  BY <1>4, WallCells
<1>6. Fewer(d, b)
  BY <1>4 DEF Fewer, EMPTY, M_BLOCK, S_BLOCK, WALL
<1>7. \A k \in Cells : d[k] = M_BLOCK => k \in New
  BY <1>1, <1>4 DEF OnlyMoves, EMPTY, M_BLOCK, WALL
<1>8. Sparse(d)
  BY <1>1, <1>6, SparseFewer
<1>9. QED  BY <1>4, <1>5, <1>6, <1>7, <1>8 DEF d, New

LEMMA MovedInPlay ==
  ASSUME NEW b, NEW blk, InPlay(b, blk), NEW dx, NEW dy,
         NEW d \in BlockType, Inside(d),
         d.b_type = blk.b_type, d.b_rotation = blk.b_rotation,
         d.bx = blk.bx + dx, d.by = blk.by + dy
  PROVE  InPlay(move_block(b, blk, dx, dy), d)
<1>1. d.by \in 0 .. BOARD_HEIGHT - 4
  BY SizeAssumption DEF BlockType
<1>2. ShapeOf(d) \subseteq Cells
  BY <1>1, CellsOfBlock DEF ShapeOf
<1>3. ShapeOf(d) = Shape(blk.bx + dx, blk.by + dy, blk.b_rotation, blk.b_type)
  BY DEF ShapeOf
<1>4. QED  BY <1>2, <1>3, MovedBoard DEF InPlay, Walled, OnlyMoves

LEMMA TurnedInPlay ==
  ASSUME NEW b, NEW blk, InPlay(b, blk), TRUE \in RotationFits(b, blk)
  PROVE  InPlay(rotate_block(b, blk), Turned(blk))
<1> DEFINE d == Turned(blk)
           b1 == delete_block(b, blk.bx, blk.by, blk.b_rotation, blk.b_type)
           b2 == rotate_block(b, blk)
<1>1. /\ b \in Boards /\ blk \in BlockType /\ Inside(blk) /\ Walled(b, blk)
      /\ Sparse(b) /\ OnlyMoves(b, blk)
  BY DEF InPlay
<1>2. d \in BlockType /\ Inside(d)
  BY <1>1, TurnedWithin
<1>3. /\ d.bx = blk.bx /\ d.by = blk.by /\ d.b_type = blk.b_type
      /\ d.b_rotation = (blk.b_rotation + 1) % 4
  BY <1>1 DEF Turned, BlockType
<1>4. Loose(d) <=> Loose(blk)
  BY <1>3 DEF Loose
<1>5. b2 = insert_block(b1, d.bx, d.by, d.b_rotation, d.b_type)
  BY <1>3 DEF rotate_block
<1> HIDE DEF d
<1>6. blk.by \in 0 .. BOARD_HEIGHT - 4 /\ d.by \in 0 .. BOARD_HEIGHT - 4
  BY <1>1, <1>2, SizeAssumption DEF BlockType
<1>7. ShapeOf(blk) \subseteq Cells /\ ShapeOf(d) \subseteq Cells
  BY <1>1, <1>2, <1>6, CellsOfBlock DEF ShapeOf
<1>8. EMPTY \in EMPTY .. WALL /\ M_BLOCK \in EMPTY .. WALL
  BY DEF EMPTY, M_BLOCK, WALL
<1>9. b1 \in Boards /\ \A k \in Cells : b1[k] = IF k \in ShapeOf(blk) THEN EMPTY ELSE b[k]
  BY <1>1, <1>7, <1>8, SetIs DEF delete_block, ShapeOf
<1> HIDE DEF b1, b2
<1>10. /\ b2 \in Boards
       /\ \A k \in Cells : b2[k] = IF k \in ShapeOf(d) THEN M_BLOCK ELSE b1[k]
  BY <1>5, <1>7, <1>8, <1>9, SetIs DEF insert_block, ShapeOf
<1>11. ASSUME NEW k \in BoardWalls
       PROVE  b2[k] = WALL \/ (Loose(d) /\ k = At(d.by + 2, BOARD_WIDTH - 1))
  <2>1. k \in Cells
    BY WallCells
  <2>2. CASE k \in ShapeOf(d)
    BY <1>2, <2>2, InWall
  <2>3. CASE k \in ShapeOf(blk)
    BY <1>1, <1>3, <1>4, <2>3, InWall
  <2>4. CASE k \notin ShapeOf(d) /\ k \notin ShapeOf(blk)
    BY <1>1, <1>3, <1>4, <1>9, <1>10, <2>1, <2>4 DEF Walled
  <2>5. QED  BY <2>2, <2>3, <2>4
<1>12. Fewer(b2, b)
  BY <1>9, <1>10 DEF Fewer, EMPTY, M_BLOCK, S_BLOCK
<1>13. Sparse(b2)
  BY <1>1, <1>12, SparseFewer
<1>14. OnlyMoves(b2, d)
  BY <1>1, <1>9, <1>10 DEF OnlyMoves, EMPTY, M_BLOCK
<1>15. QED  BY <1>2, <1>10, <1>11, <1>13, <1>14 DEF InPlay, Walled, b2, d

-----------------------------------------------------------------------------
(* check_line.  Its rounds, as a function of how many there have been.     *)
FirstRow(b) == [board |-> b, i |-> BOARD_HEIGHT - 2, lines |-> 0]
Rounds(f, b, m) ==
    f = [n \in 0 .. m |-> IF n = 0 THEN FirstRow(b) ELSE check_row(f[n - 1])]

LEMMA RoundsExist ==
  ASSUME NEW b, NEW m \in Nat
  PROVE  \E f : Rounds(f, b, m)
<1> DEFINE T == {l \in Nat : \E f : Rounds(f, b, l)}
<1>1. 0 \in T
  <2> DEFINE f == [n \in 0 .. 0 |-> FirstRow(b)]
  <2>1. f = [n \in 0 .. 0 |-> IF n = 0 THEN FirstRow(b) ELSE check_row(f[n - 1])]
    OBVIOUS
  <2> HIDE DEF f
  <2>2. Rounds(f, b, 0)
    BY <2>1 DEF Rounds
  <2>3. QED  BY <2>2
<1>2. ASSUME NEW i \in Nat, i \in T
      PROVE  i + 1 \in T
  <2>1. PICK f : Rounds(f, b, i)
    BY <1>2
  <2> DEFINE g == [n \in 0 .. i + 1 |->
                     IF n <= i THEN f[n] ELSE IF n = 0 THEN FirstRow(b) ELSE check_row(f[n - 1])]
  <2>2. ASSUME NEW n \in 0 .. i + 1
        PROVE  g[n] = IF n = 0 THEN FirstRow(b) ELSE check_row(g[n - 1])
    <3>1. n = 0 \/ (n # 0 /\ n - 1 \in 0 .. i + 1 /\ n - 1 <= i)
      OBVIOUS
    <3>2. n # 0 => g[n - 1] = f[n - 1]
      BY <3>1
    <3>3. n <= i => f[n] = IF n = 0 THEN FirstRow(b) ELSE check_row(f[n - 1])
      <4>1. n <= i => n \in 0 .. i
        OBVIOUS
      <4>2. \A j \in 0 .. i : f[j] = IF j = 0 THEN FirstRow(b) ELSE check_row(f[j - 1])
        BY <2>1 DEF Rounds
      <4> HIDE DEF g
      <4>3. QED  BY <4>1, <4>2
    <3>4. g[n] = IF n <= i THEN f[n] ELSE IF n = 0 THEN FirstRow(b) ELSE check_row(f[n - 1])
      OBVIOUS
    <3> HIDE DEF g
    <3>5. QED  BY <3>1, <3>2, <3>3, <3>4
  <2>3. g = [n \in 0 .. i + 1 |-> g[n]]
    OBVIOUS
  <2> HIDE DEF g
  <2>4. Rounds(g, b, i + 1)
    BY <2>2, <2>3 DEF Rounds
  <2>5. QED  BY <2>4
<1>3. Nat \subseteq T
  <2> HIDE DEF T
  <2>1. QED  BY <1>1, <1>2, NatInductionSet
<1>4. QED  BY <1>3

LEMMA CheckLineIs ==
  ASSUME NEW b
  PROVE  \E f : Rounds(f, b, BOARD_HEIGHT) /\ check_line(b) = f[BOARD_HEIGHT]
<1>1. check_line(b) = (CHOOSE f : Rounds(f, b, BOARD_HEIGHT))[BOARD_HEIGHT]
  BY DEF check_line, Rounds, FirstRow
<1>2. \E f : Rounds(f, b, BOARD_HEIGHT)
  BY RoundsExist, SizeAssumption
<1>3. QED  BY <1>1, <1>2

(* Row j of d has its settled cells where row i of b has.                  *)
SameRow(d, j, b, i) ==
    \A x \in 1 .. BOARD_WIDTH - 2 : d[At(j, x)] = S_BLOCK <=> b[At(i, x)] = S_BLOCK

LEMMA SameFull ==
  ASSUME NEW d, NEW j, NEW b, NEW i, SameRow(d, j, b, i)
  PROVE  Full(d, j) <=> Full(b, i)
BY DEF SameRow, Full

LEMMA ShiftIs ==
  ASSUME NEW b \in Boards, NEW i \in 4 .. BOARD_HEIGHT - 2
  PROVE  /\ ShiftDown(b, i) \in Boards
         /\ \A k \in BoardWalls : ShiftDown(b, i)[k] = b[k]
         /\ (\A k \in Cells : b[k] # M_BLOCK) => \A k \in Cells : ShiftDown(b, i)[k] # M_BLOCK
         /\ \A j \in 2 .. i : SameRow(ShiftDown(b, i), j, b, j - 1)
         /\ \A j \in 1 .. BOARD_HEIGHT - 2 : j \notin 2 .. i => SameRow(ShiftDown(b, i), j, b, j)
<1> DEFINE moved == UNION {Inner(y) : y \in 2 .. i}
           d == ShiftDown(b, i)
<1>1. d = [k \in Cells |-> IF k \notin moved THEN b[k]
                          ELSE IF b[k - BOARD_WIDTH] = CEILING THEN EMPTY
                          ELSE b[k - BOARD_WIDTH]]
  BY DEF ShiftDown, Boards
<1>2. ASSUME NEW k \in moved
      PROVE  \E y \in 2 .. i, x \in 1 .. BOARD_WIDTH - 2 : k = At(y, x)
  BY DEF Inner
<1>3. \A y \in 2 .. i, x \in 1 .. BOARD_WIDTH - 2 : At(y, x) \in moved
  BY DEF Inner
<1> HIDE DEF moved, d
<1>4. ASSUME NEW y \in 2 .. i, NEW x \in 1 .. BOARD_WIDTH - 2
      PROVE  /\ At(y, x) \in Cells \ BoardWalls /\ At(y - 1, x) \in Cells
             /\ At(y, x) - BOARD_WIDTH = At(y - 1, x)
  <2>1. /\ y \in 0 .. BOARD_HEIGHT - 2 /\ y - 1 \in 0 .. BOARD_HEIGHT - 2
        /\ y \in Int /\ x \in Int
    BY SizeAssumption
  <2>2. QED  BY <2>1, InnerCells, AtAbove
<1>5. \A k \in moved : k \in Cells \ BoardWalls /\ k - BOARD_WIDTH \in Cells
  BY <1>2, <1>4
<1>6. \A k \in Cells : b[k] \in EMPTY .. WALL
  BY DEF Boards
<1>7. EMPTY \in EMPTY .. WALL
  BY DEF EMPTY, WALL
<1>8. \A k \in Cells : d[k] \in EMPTY .. WALL
  BY <1>1, <1>5, <1>6, <1>7
<1>9. d \in Boards
  BY <1>1, <1>8 DEF Boards
<1>10. \A k \in BoardWalls : d[k] = b[k]
  BY <1>1, <1>5, WallCells
<1>11. (\A k \in Cells : b[k] # M_BLOCK) => \A k \in Cells : d[k] # M_BLOCK
  BY <1>1, <1>5 DEF EMPTY, M_BLOCK
<1>12. ASSUME NEW j \in 2 .. i
       PROVE  SameRow(d, j, b, j - 1)
  <2> SUFFICES ASSUME NEW x \in 1 .. BOARD_WIDTH - 2
               PROVE  d[At(j, x)] = S_BLOCK <=> b[At(j - 1, x)] = S_BLOCK
    BY DEF SameRow
  <2>1. At(j, x) \in moved /\ At(j, x) \in Cells /\ At(j, x) - BOARD_WIDTH = At(j - 1, x)
    BY <1>3, <1>4
  <2>2. d[At(j, x)] = IF b[At(j - 1, x)] = CEILING THEN EMPTY ELSE b[At(j - 1, x)]
    BY <1>1, <2>1
  <2>3. QED  BY <2>2 DEF EMPTY, S_BLOCK, CEILING
<1>13. ASSUME NEW j \in 1 .. BOARD_HEIGHT - 2, j \notin 2 .. i
       PROVE  SameRow(d, j, b, j)
  <2> SUFFICES ASSUME NEW x \in 1 .. BOARD_WIDTH - 2
               PROVE  d[At(j, x)] = b[At(j, x)]
    BY DEF SameRow
  <2>1. At(j, x) \in Cells
    BY InnerCells
  <2>2. ASSUME NEW y \in 2 .. i, NEW u \in 1 .. BOARD_WIDTH - 2, At(j, x) = At(y, u)
        PROVE  FALSE
    <3>1. /\ j \in Int /\ y \in Int
          /\ x \in 0 .. BOARD_WIDTH - 1 /\ u \in 0 .. BOARD_WIDTH - 1
      BY SizeAssumption
    <3>2. j = y
      BY <2>2, <3>1, AtSame
    <3>3. QED  BY <1>13, <3>2
  <2>3. At(j, x) \notin moved
    BY <1>2, <2>2
  <2>4. QED  BY <1>1, <2>1, <2>3
<1>14. QED  BY <1>9, <1>10, <1>11, <1>12, <1>13 DEF d

-----------------------------------------------------------------------------
(* The board when a block at row y has just settled: what has become full  *)
(* is where the block is.                                                  *)
Settling(b, y) ==
    /\ b \in Boards
    /\ \A k \in BoardWalls : b[k] = WALL
    /\ \A k \in Cells : b[k] # M_BLOCK
    /\ \A i \in 1 .. BOARD_HEIGHT - 2 : Full(b, i) => i \in y .. y + 3
    /\ ~Full(b, 1)

(* Where row j was before so many rows were taken out below it.            *)
Source(j, lines) == IF j - lines >= 1 THEN j - lines ELSE 1

(* After n rounds: rows 1 .. i are still those of b, as many rows lower as *)
(* have been taken out; no row below i is full; and the rows taken out     *)
(* are the block's, so that there are never more than four.                *)
LineInv(s, n, b, y) ==
    /\ s = [board |-> s.board, i |-> s.i, lines |-> s.lines]
    /\ s.board \in Boards
    /\ \A k \in BoardWalls : s.board[k] = WALL
    /\ \A k \in Cells : s.board[k] # M_BLOCK
    /\ s.i \in 3 .. BOARD_HEIGHT - 2 /\ s.lines \in 0 .. 4
    /\ s.i = 3 \/ s.i + n = BOARD_HEIGHT - 2 + s.lines
    /\ \A j \in 1 .. s.i : SameRow(s.board, j, b, Source(j, s.lines))
    /\ \A j \in s.i + 1 .. BOARD_HEIGHT - 2 : ~Full(s.board, j)
    /\ s.i - s.lines >= y + 3 => s.lines = 0
    /\ s.i - s.lines >= y - 1 /\ s.i - s.lines < y + 3 => s.lines <= y + 3 - (s.i - s.lines)

LEMMA RoundKeeps ==
  ASSUME NEW b, NEW y \in 1 .. BOARD_HEIGHT - 4, Settling(b, y),
         NEW n \in Nat, NEW s, LineInv(s, n, b, y)
  PROVE  LineInv(check_row(s), n + 1, b, y)
<1> DEFINE d == s.board
           i == s.i
           l == s.lines
           h == BOARD_HEIGHT
           o == i - l
<1>1. h \in Nat /\ h >= 7 /\ i \in 3 .. h - 2 /\ l \in 0 .. 4
  BY SizeAssumption DEF LineInv
<1>2. /\ d \in Boards /\ s = [board |-> d, i |-> i, lines |-> l]
      /\ \A k \in BoardWalls : d[k] = WALL
      /\ \A k \in Cells : d[k] # M_BLOCK
  BY DEF LineInv
<1>3. i = 3 \/ i + n = h - 2 + l
  BY DEF LineInv
<1>4. \A j \in 1 .. i : SameRow(d, j, b, Source(j, l))
  BY DEF LineInv
<1>5. \A j \in i + 1 .. h - 2 : ~Full(d, j)
  BY DEF LineInv
<1>6. (o >= y + 3 => l = 0) /\ (o >= y - 1 /\ o < y + 3 => l <= y + 3 - o)
  BY DEF LineInv
<1>7. CASE i <= 3
  <2>1. check_row(s) = s /\ i = 3
    BY <1>1, <1>7 DEF check_row
  <2>2. QED  BY <2>1 DEF LineInv
<1>8. CASE ~(i <= 3) /\ IsFull(d, i)
  <2> DEFINE e == ShiftDown(d, i)
             r == [board |-> e, i |-> i, lines |-> l + 1]
  <2>1. check_row(s) = r
    BY <1>8 DEF check_row
  <2>2. i \in 4 .. h - 2 /\ i \in 0 .. h - 2 /\ i \in 1 .. i /\ i \in Int /\ l \in Int
    BY <1>1, <1>8
  <2>3. \A k \in BoardWalls : d[k] # S_BLOCK
    BY <1>2 DEF WALL, S_BLOCK
  <2>4. Full(d, i)
    BY <1>8, <2>2, <2>3, FullIs
  <2>5. Full(b, Source(i, l))
    BY <1>4, <2>2, <2>4, SameFull
  <2>6. Source(i, l) \in 1 .. h - 2 /\ Source(i, l) # 1
    <3>1. Source(i, l) # 1
      BY <2>5 DEF Settling
    <3>2. QED  BY <1>1, <3>1 DEF Source
  <2>7. Source(i, l) \in y .. y + 3
    BY <2>5, <2>6 DEF Settling
  <2>8. o \in y .. y + 3 /\ o >= 2
    BY <1>1, <2>6, <2>7 DEF Source
  <2>9. l <= 3 /\ l + 1 <= y + 3 - (i - (l + 1)) /\ ~(i - (l + 1) >= y + 3)
    BY <1>1, <1>6, <2>8
  <2>10. /\ e \in Boards
         /\ \A k \in BoardWalls : e[k] = WALL
         /\ \A k \in Cells : e[k] # M_BLOCK
    BY <1>2, <2>2, ShiftIs
  <2>11. \A j \in 2 .. i : SameRow(e, j, d, j - 1)
    BY <1>2, <2>2, ShiftIs
  <2>12. \A j \in 1 .. h - 2 : j \notin 2 .. i => SameRow(e, j, d, j)
    BY <1>2, <2>2, ShiftIs
  <2> HIDE DEF e
  <2>13. ASSUME NEW j \in 1 .. i
         PROVE  SameRow(e, j, b, Source(j, l + 1))
    <3>1. CASE j = 1
      <4>1. /\ 1 \in 1 .. i /\ 1 \in 1 .. h - 2 /\ 1 \notin 2 .. i
            /\ Source(1, l) = 1 /\ Source(1, l + 1) = 1
        BY <1>1 DEF Source
      <4>2. SameRow(e, 1, d, 1) /\ SameRow(d, 1, b, 1)
        BY <1>4, <2>12, <4>1
      <4>3. QED  BY <3>1, <4>1, <4>2 DEF SameRow
    <3>2. CASE j # 1
      <4>1. j \in 2 .. i /\ j - 1 \in 1 .. i /\ Source(j - 1, l) = Source(j, l + 1)
        BY <1>1, <3>2 DEF Source
      <4>2. SameRow(e, j, d, j - 1) /\ SameRow(d, j - 1, b, Source(j, l + 1))
        BY <1>4, <2>11, <4>1
      <4>3. QED  BY <4>2 DEF SameRow
    <3>3. QED  BY <3>1, <3>2
  <2>14. ASSUME NEW j \in i + 1 .. h - 2
         PROVE  ~Full(e, j)
    <3>1. j \in 1 .. h - 2 /\ j \notin 2 .. i
      BY <1>1
    <3>2. QED  BY <1>5, <2>12, <3>1, SameFull
  <2>15. i + (n + 1) = h - 2 + (l + 1)
    BY <1>1, <1>3, <1>8
  <2>16. l + 1 \in 0 .. 4
    BY <1>1, <2>9
  <2>17. r.board = e /\ r.i = i /\ r.lines = l + 1
    OBVIOUS
  <2> HIDE DEF r
  <2>18. r = [board |-> r.board, i |-> r.i, lines |-> r.lines]
    BY DEF r
  <2>19. LineInv(r, n + 1, b, y)
    BY <1>1, <2>9, <2>10, <2>13, <2>14, <2>15, <2>16, <2>17, <2>18 DEF LineInv
  <2>20. QED  BY <2>1, <2>19
<1>9. CASE ~(i <= 3) /\ ~IsFull(d, i)
  <2> DEFINE r == [board |-> d, i |-> i - 1, lines |-> l]
  <2>1. check_row(s) = r
    BY <1>2, <1>9 DEF check_row
  <2>2. i \in 4 .. h - 2 /\ i \in 0 .. h - 2
    BY <1>1, <1>9
  <2>3. \A k \in BoardWalls : d[k] # S_BLOCK
    BY <1>2 DEF WALL, S_BLOCK
  <2>4. ~Full(d, i)
    BY <1>9, <2>2, <2>3, FullIs
  <2>5. \A j \in (i - 1) + 1 .. h - 2 : ~Full(d, j)
    <3>1. \A j \in (i - 1) + 1 .. h - 2 : j = i \/ j \in i + 1 .. h - 2
      BY <1>1
    <3>2. QED  BY <1>5, <2>4, <3>1
  <2>6. \A j \in 1 .. i - 1 : SameRow(d, j, b, Source(j, l))
    BY <1>1, <1>4
  <2>7. i - 1 \in 3 .. h - 2 /\ (i - 1) + (n + 1) = h - 2 + l
    BY <1>1, <1>3, <2>2
  <2>8. /\ (i - 1) - l >= y + 3 => l = 0
        /\ (i - 1) - l >= y - 1 /\ (i - 1) - l < y + 3 => l <= y + 3 - ((i - 1) - l)
    BY <1>1, <1>6
  <2>9. r.board = d /\ r.i = i - 1 /\ r.lines = l
    OBVIOUS
  <2> HIDE DEF r
  <2>10. r = [board |-> r.board, i |-> r.i, lines |-> r.lines]
    BY DEF r
  <2>11. LineInv(r, n + 1, b, y)
    BY <1>1, <1>2, <2>5, <2>6, <2>7, <2>8, <2>9, <2>10 DEF LineInv
  <2>12. QED  BY <2>1, <2>11
<1>10. QED  BY <1>7, <1>8, <1>9

(* A board on which nothing moves.                                         *)
Still(b) ==
    /\ b \in Boards
    /\ \A k \in BoardWalls : b[k] = WALL
    /\ \A k \in Cells : b[k] # M_BLOCK
    /\ \A i \in 4 .. BOARD_HEIGHT - 2 : ~Full(b, i)

LEMMA CheckLineKeeps ==
  ASSUME NEW b, NEW y \in 1 .. BOARD_HEIGHT - 4, Settling(b, y)
  PROVE  /\ Still(check_line(b).board) /\ check_line(b).lines \in 0 .. 4
         /\ check_line(b).i = 3
<1> DEFINE h == BOARD_HEIGHT
<1>1. PICK f : Rounds(f, b, h) /\ check_line(b) = f[h]
  BY CheckLineIs
<1>2. \A n \in 0 .. h : f[n] = IF n = 0 THEN FirstRow(b) ELSE check_row(f[n - 1])
  BY <1>1 DEF Rounds
<1>3. h \in Nat /\ h >= 7
  BY SizeAssumption
<1> DEFINE T == {n \in Nat : n <= h => LineInv(f[n], n, b, y)}
<1>4. 0 \in T
  <2> DEFINE r == FirstRow(b)
  <2>1. r.board = b /\ r.i = h - 2 /\ r.lines = 0
    BY DEF FirstRow
  <2>2. r = [board |-> r.board, i |-> r.i, lines |-> r.lines]
    BY DEF FirstRow
  <2> HIDE DEF r
  <2>3. \A j \in 1 .. r.i : SameRow(r.board, j, b, Source(j, r.lines))
    BY <2>1 DEF SameRow, Source
  <2>4. LineInv(r, 0, b, y)
    BY <1>3, <2>1, <2>2, <2>3 DEF LineInv, Settling
  <2>5. f[0] = r
    BY <1>2, <1>3 DEF r
  <2>6. QED  BY <2>4, <2>5
<1>5. ASSUME NEW n \in Nat, n \in T
      PROVE  n + 1 \in T
  <2> SUFFICES ASSUME n + 1 <= h
               PROVE  LineInv(f[n + 1], n + 1, b, y)
    OBVIOUS
  <2>1. n + 1 \in 0 .. h /\ n + 1 # 0 /\ (n + 1) - 1 = n /\ n <= h
    BY <1>3
  <2>2. f[n + 1] = check_row(f[n])
    BY <1>2, <2>1
  <2>3. LineInv(f[n], n, b, y)
    BY <1>5, <2>1
  <2>4. QED  BY <2>2, <2>3, RoundKeeps
<1>6. h \in T
  <2> HIDE DEF T
  <2>1. QED  BY <1>3, <1>4, <1>5, NatInductionSet
<1> DEFINE s == f[h]
<1>7. LineInv(s, h, b, y)
  BY <1>3, <1>6
<1> HIDE DEF s
(* More rounds than rows and lines: the last row has been looked at.       *)
<1>8. s.i = 3 /\ s.lines \in 0 .. 4
  BY <1>3, <1>7 DEF LineInv
<1>9. Still(s.board)
  BY <1>7, <1>8 DEF LineInv, Still
<1>10. QED  BY <1>1, <1>8, <1>9 DEF s

(* The columns at which a block appears.                                   *)
LEMMA StartColumns ==
  /\ BOARD_WIDTH \div 2 - 2 \in 1 .. BOARD_WIDTH - 5
  /\ \A j \in 0 .. 3 : BOARD_WIDTH \div 2 - 2 + j \in 1 .. BOARD_WIDTH - 2
<1>1. BOARD_WIDTH \div 2 - 2 \in 1 .. BOARD_WIDTH - 5
  BY SizeAssumption
<1>2. QED  BY <1>1, SizeAssumption

LEMMA SettlingIs ==
  ASSUME NEW b \in Boards, \A k \in BoardWalls : b[k] = WALL, Sparse(b),
         NEW blk \in BlockType, Inside(blk), NEW y \in 1 .. BOARD_HEIGHT - 4,
         \A k \in Cells : b[k] = M_BLOCK =>
            k \in Shape(blk.bx, y, blk.b_rotation, blk.b_type)
  PROVE  Settling(Set(b, {k \in Window(blk.bx, y) \cap Cells : b[k] = M_BLOCK}, S_BLOCK), y)
<1> DEFINE x == blk.bx
           B == blocks[blk.b_type][blk.b_rotation]
           ks == {k \in Window(x, y) \cap Cells : b[k] = M_BLOCK}
           d == Set(b, ks, S_BLOCK)
           w == BOARD_WIDTH
           h == BOARD_HEIGHT
<1>1. /\ blk.b_type \in 0 .. 6 /\ blk.b_rotation \in 0 .. 3
      /\ x \in 0 .. w - 3 /\ w \in Nat /\ w >= 6 /\ h \in Nat /\ h >= 7
  BY SizeAssumption DEF BlockType
<1>2. ASSUME NEW c \in B
      PROVE  /\ c[1] \in 0 .. 3 /\ c[2] \in 0 .. 3
             /\ x + c[2] \in 0 .. w - 1 /\ (c[1] = 0 => c[2] = 1)
  <2>1. c \in (0 .. 3) \X (0 .. 3) /\ (c[1] = 0 => c[2] = 1)
    BY <1>1, ShapesAre
  <2>2. c[1] \in 0 .. 3 /\ c[2] \in 0 .. 3
    BY <2>1
  <2>3. x + c[2] <= w - 1
    BY <1>1, <2>2 DEF Inside
  <2>4. QED  BY <1>1, <2>1, <2>2, <2>3
<1>3. ASSUME NEW k \in Cells, b[k] = M_BLOCK
      PROVE  k \in ks /\ \E c \in B : k = At(y + c[1], x + c[2])
  <2>1. PICK c \in B : k = At(y + c[1], x + c[2])
    BY <1>3 DEF Shape
  <2>2. k \in Window(x, y)
    BY <1>2, <2>1 DEF Window
  <2>3. QED  BY <1>3, <2>1, <2>2
<1>4. ks \subseteq Cells /\ \A k \in ks : b[k] = M_BLOCK
  OBVIOUS
<1> HIDE DEF ks
<1>5. S_BLOCK \in EMPTY .. WALL
  BY DEF EMPTY, S_BLOCK, WALL
<1>6. d \in Boards /\ \A k \in Cells : d[k] = IF k \in ks THEN S_BLOCK ELSE b[k]
  BY <1>4, <1>5, SetIs
<1> HIDE DEF d
<1>7. \A k \in BoardWalls : d[k] = WALL
  BY <1>4, <1>6, WallCells DEF WALL, M_BLOCK
<1>8. \A k \in Cells : d[k] # M_BLOCK
  BY <1>3, <1>6 DEF S_BLOCK, M_BLOCK
(* A new settled cell is one of the block's.                               *)
<1>9. ASSUME NEW i \in 1 .. h - 2, NEW u \in 1 .. w - 2,
             d[At(i, u)] = S_BLOCK, b[At(i, u)] # S_BLOCK
      PROVE  \E c \in B : i = y + c[1] /\ u = x + c[2]
  <2>1. At(i, u) \in Cells
    BY InnerCells
  <2>2. At(i, u) \in ks
    BY <1>6, <1>9, <2>1
  <2>3. PICK c \in B : At(i, u) = At(y + c[1], x + c[2])
    BY <1>3, <1>4, <2>1, <2>2
  <2>4. i \in Int /\ y + c[1] \in Int /\ u \in 0 .. w - 1 /\ x + c[2] \in 0 .. w - 1
    BY <1>1, <1>2
  <2>5. QED  BY <2>3, <2>4, AtSame
<1>10. ASSUME NEW i \in 1 .. h - 2, Full(d, i)
       PROVE  i \in y .. y + 3
  <2>1. PICK u \in 1 .. w - 2 : b[At(i, u)] # S_BLOCK
    BY DEF Sparse, Full
  <2>2. PICK c \in B : i = y + c[1]
    BY <1>9, <1>10, <2>1 DEF Full
  <2>3. c[1] \in 0 .. 3
    BY <1>2
  <2>4. QED  BY <2>2, <2>3
<1>11. ~Full(d, 1)
  <2> SUFFICES ASSUME Full(d, 1)
               PROVE  FALSE
    OBVIOUS
  <2> DEFINE m == w \div 2 - 2
  <2>1. m \in 1 .. w - 5 /\ m + 1 \in 1 .. w - 2 /\ m + 2 \in 1 .. w - 2
    BY <1>1, StartColumns
  <2>2. ASSUME NEW j \in {1, 2}
        PROVE  m + j = x + 1
    <3>1. j \in 0 .. 3 /\ 1 \in 0 .. 3 /\ 0 + 1 = 1 /\ m + j \in 1 .. w - 2 /\ 1 \in 1 .. h - 2
      BY <1>1, <2>1
    <3>2. At(1, m + j) \in Window(m, 0)
      BY <3>1 DEF Window
    <3>3. b[At(1, m + j)] # S_BLOCK
      BY <3>2 DEF Sparse
    <3>4. d[At(1, m + j)] = S_BLOCK
      BY <3>1 DEF Full
    <3>5. PICK c \in B : 1 = y + c[1] /\ m + j = x + c[2]
      BY <1>9, <3>1, <3>3, <3>4
    <3>6. c[1] \in 0 .. 3 /\ (c[1] = 0 => c[2] = 1)
      BY <1>2
    <3>7. QED  BY <3>5, <3>6
  <2>3. m + 1 = x + 1 /\ m + 2 = x + 1
    BY <2>2
  <2> HIDE DEF m
  <2>4. QED  BY <1>1, <2>1, <2>3
<1>12. QED  BY <1>6, <1>7, <1>8, <1>10, <1>11 DEF Settling, d, ks

-----------------------------------------------------------------------------
(* A turn in which the block still moves, and one in which it has settled. *)
Turns == [board : Boards, lines : Int, touch_flag : BOOLEAN,
          block : [b_type : Int, b_rotation : Int, b_next : Int, bx : Int, by : Int]]

Moving(t) ==
    /\ t \in Turns /\ t.lines = 0 /\ t.touch_flag = FALSE
    /\ InPlay(t.board, t.block)

Settled(t) ==
    /\ t \in Turns /\ t.touch_flag = TRUE
    /\ Still(t.board)
    /\ t.lines \in 0 .. 4 /\ t.block.b_next \in 0 .. 6

LEMMA DropBlock ==
  ASSUME NEW t, Moving(t)
  PROVE  LET e == drop_block(t)
         IN  Settled(e) \/ (Moving(e) /\ e.block.by = t.block.by + 1)
<1> DEFINE blk == t.block
           x == blk.bx
           y == blk.by + 1
           r == blk.b_rotation
           type == blk.b_type
           b == move_block(t.board, blk, 0, 1)
           fits == check_crash(b, x, y + 1, r, type)
           moved == [t EXCEPT !.board = b, !.block.by = y]
           ks == {k \in Window(x, y) \cap Cells : b[k] = M_BLOCK}
           done == check_line(Set(b, ks, S_BLOCK))
           landed == [board |-> done.board, block |-> [blk EXCEPT !.by = Garbage],
                      lines |-> t.lines + done.lines, touch_flag |-> TRUE]
           d == [blk EXCEPT !.by = y]
<1>1. t \in Turns /\ t.lines = 0 /\ t.touch_flag = FALSE /\ InPlay(t.board, blk)
  BY DEF Moving
<1>2. drop_block(t) = IF fits THEN moved ELSE landed
  BY DEF drop_block
<1>3. blk \in BlockType /\ Inside(blk)
  BY <1>1 DEF InPlay
<1>4. /\ x \in 0 .. BOARD_WIDTH - 3 /\ y \in 1 .. BOARD_HEIGHT - 4
      /\ type \in 0 .. 6 /\ r \in 0 .. 3 /\ blk.b_next \in 0 .. 6
  BY <1>3, SizeAssumption DEF BlockType
<1>5. y \in 0 .. BOARD_HEIGHT - 4 /\ x + 0 = x
  BY <1>4
<1>6. Shape(x, y, r, type) \subseteq Cells
  BY <1>3, <1>5, CellsOfBlock
<1>7. /\ b \in Boards
      /\ \A k \in BoardWalls : b[k] = WALL
      /\ Sparse(b)
      /\ \A k \in Cells : b[k] = M_BLOCK => k \in Shape(x, y, r, type)
  BY <1>1, <1>5, <1>6, MovedBoard
<1>8. CASE fits
(* Not on the floor: every shape has <<2, 1>>.                             *)
  <2>1. b[At(y + 1 + 2, x + 1)] # WALL
    <3>1. <<2, 1>> \in blocks[type][r] /\ <<2, 1>>[1] = 2 /\ <<2, 1>>[2] = 1
      BY <1>4, ShapesAre
    <3>2. At(y + 1 + 2, x + 1) \in Shape(x, y + 1, r, type)
      BY <3>1 DEF Shape
    <3>3. QED  BY <1>8, <3>2 DEF check_crash
  <2>2. y + 1 + 2 # BOARD_HEIGHT - 1
    <3>1. x + 1 \in 0 .. BOARD_WIDTH - 1
      BY <1>4, SizeAssumption
    <3>2. QED  BY <1>7, <2>1, <3>1, WallCells
  <2>3. y \in 0 .. BOARD_HEIGHT - 5
    BY <1>4, <2>2, SizeAssumption
  <2>4. /\ d \in BlockType /\ d.by = y /\ d.bx = x /\ d.b_type = type /\ d.b_rotation = r
    BY <1>3, <2>3 DEF BlockType
  <2> HIDE DEF d
  <2>5. Inside(d)
    BY <1>3, <2>4 DEF Inside, Loose
  <2>6. InPlay(b, d)
    BY <1>1, <1>5, <2>4, <2>5, MovedInPlay
  <2>7. /\ moved \in Turns /\ moved.board = b /\ moved.block = d
        /\ moved.lines = t.lines /\ moved.touch_flag = t.touch_flag
    <3>1. y \in Int
      BY <1>4
    <3> HIDE DEF b, y
    <3>2. QED  BY <1>1, <1>7, <3>1 DEF d, Turns
  <2> HIDE DEF moved
  <2>8. Moving(moved) /\ moved.block.by = y
    BY <1>1, <2>4, <2>6, <2>7 DEF Moving
  <2>9. QED  BY <1>2, <1>8, <2>8 DEF moved
<1>9. CASE ~fits
  <2>1. Settling(Set(b, ks, S_BLOCK), y)
    BY <1>3, <1>4, <1>7, SettlingIs
  <2>2. Still(done.board) /\ done.lines \in 0 .. 4
    BY <1>4, <2>1, CheckLineKeeps
  <2>3. t.lines = 0
    BY <1>1
  <2>4. /\ landed.board = done.board /\ landed.lines = t.lines + done.lines
        /\ landed.block.b_next = blk.b_next /\ landed.touch_flag = TRUE
    BY <1>3 DEF BlockType
  <2>5. landed \in Turns
    <3> HIDE DEF done
    <3>1. done.board \in Boards /\ done.lines \in Int /\ t.lines + done.lines \in Int
      BY <2>2, <2>3 DEF Still
    <3>2. [blk EXCEPT !.by = Garbage] \in
            [b_type : Int, b_rotation : Int, b_next : Int, bx : Int, by : Int]
      BY <1>1 DEF Turns, Garbage
    <3>3. QED  BY <3>1, <3>2 DEF Turns
  <2> HIDE DEF landed, done
  <2>6. landed.lines \in 0 .. 4
    BY <2>2, <2>3, <2>4
  <2>7. Settled(landed)
    BY <1>4, <2>2, <2>4, <2>5, <2>6 DEF Settled
  <2>8. QED  BY <1>2, <1>9, <2>7 DEF landed
<1>10. QED  BY <1>8, <1>9

-----------------------------------------------------------------------------
(* The hard drop, as a function of how often the block has been dropped.   *)
Drops(f, t, m) ==
    f = [n \in 0 .. m |-> IF n = 0 THEN t ELSE drop_again(f[n - 1])]

LEMMA DropsExist ==
  ASSUME NEW t, NEW m \in Nat
  PROVE  \E f : Drops(f, t, m)
<1> DEFINE T == {l \in Nat : \E f : Drops(f, t, l)}
<1>1. 0 \in T
  <2> DEFINE f == [n \in 0 .. 0 |-> t]
  <2>1. f = [n \in 0 .. 0 |-> IF n = 0 THEN t ELSE drop_again(f[n - 1])]
    OBVIOUS
  <2> HIDE DEF f
  <2>2. Drops(f, t, 0)
    BY <2>1 DEF Drops
  <2>3. QED  BY <2>2
<1>2. ASSUME NEW i \in Nat, i \in T
      PROVE  i + 1 \in T
  <2>1. PICK f : Drops(f, t, i)
    BY <1>2
  <2> DEFINE g == [n \in 0 .. i + 1 |->
                     IF n <= i THEN f[n] ELSE IF n = 0 THEN t ELSE drop_again(f[n - 1])]
  <2>2. ASSUME NEW n \in 0 .. i + 1
        PROVE  g[n] = IF n = 0 THEN t ELSE drop_again(g[n - 1])
    <3>1. n = 0 \/ (n # 0 /\ n - 1 \in 0 .. i + 1 /\ n - 1 <= i)
      OBVIOUS
    <3>2. n # 0 => g[n - 1] = f[n - 1]
      BY <3>1
    <3>3. n <= i => f[n] = IF n = 0 THEN t ELSE drop_again(f[n - 1])
      <4>1. n <= i => n \in 0 .. i
        OBVIOUS
      <4>2. \A j \in 0 .. i : f[j] = IF j = 0 THEN t ELSE drop_again(f[j - 1])
        BY <2>1 DEF Drops
      <4> HIDE DEF g
      <4>3. QED  BY <4>1, <4>2
    <3>4. g[n] = IF n <= i THEN f[n] ELSE IF n = 0 THEN t ELSE drop_again(f[n - 1])
      OBVIOUS
    <3> HIDE DEF g
    <3>5. QED  BY <3>1, <3>2, <3>3, <3>4
  <2>3. g = [n \in 0 .. i + 1 |-> g[n]]
    OBVIOUS
  <2> HIDE DEF g
  <2>4. Drops(g, t, i + 1)
    BY <2>2, <2>3 DEF Drops
  <2>5. QED  BY <2>4
<1>3. Nat \subseteq T
  <2> HIDE DEF T
  <2>1. QED  BY <1>1, <1>2, NatInductionSet
<1>4. QED  BY <1>3

LEMMA HardDrop ==
  ASSUME NEW t, Moving(t)
  PROVE  Settled(hard_drop(t))
<1> DEFINE h == BOARD_HEIGHT
<1>1. h \in Nat /\ h >= 7
  BY SizeAssumption
<1>2. hard_drop(t) = (CHOOSE f : Drops(f, t, h))[h]
  BY DEF hard_drop, Drops
<1>3. \E f : Drops(f, t, h)
  BY <1>1, DropsExist
<1>4. PICK f : Drops(f, t, h) /\ hard_drop(t) = f[h]
  BY <1>2, <1>3
<1>5. \A n \in 0 .. h : f[n] = IF n = 0 THEN t ELSE drop_again(f[n - 1])
  BY <1>4 DEF Drops
<1> DEFINE Ok(e, n) == Settled(e) \/ (Moving(e) /\ e.block.by >= n)
           T == {n \in Nat : n <= h => Ok(f[n], n)}
<1>6. \A e : Moving(e) => e.block.by \in 0 .. h - 5
  BY DEF Moving, InPlay, BlockType
<1>7. 0 \in T
  <2>1. f[0] = t /\ t.block.by >= 0
    BY <1>1, <1>5, <1>6
  <2>2. QED  BY <2>1
<1>8. ASSUME NEW n \in Nat, n \in T
      PROVE  n + 1 \in T
  <2> SUFFICES ASSUME n + 1 <= h
               PROVE  Ok(f[n + 1], n + 1)
    OBVIOUS
  <2>1. n + 1 \in 0 .. h /\ n + 1 # 0 /\ (n + 1) - 1 = n /\ n <= h
    BY <1>1
  <2>2. f[n + 1] = drop_again(f[n])
    BY <1>5, <2>1
  <2>3. CASE Settled(f[n])
    <3>1. drop_again(f[n]) = f[n]
      BY <2>3 DEF drop_again, Settled
    <3>2. QED  BY <2>2, <2>3, <3>1
  <2>4. CASE Moving(f[n]) /\ f[n].block.by >= n
    <3>1. drop_again(f[n]) = drop_block(f[n])
      BY <2>4 DEF drop_again, Moving
    <3> DEFINE e == f[n]
               d == drop_block(e)
    <3>2. Settled(d) \/ (Moving(d) /\ d.block.by = e.block.by + 1)
      BY <2>4, DropBlock
    <3>3. e.block.by \in 0 .. h - 5
      BY <1>6, <2>4
    <3>4. f[n + 1] = d
      BY <2>2, <3>1
    <3> HIDE DEF d, e
    <3>5. e.block.by >= n
      BY <2>4 DEF e
    <3>6. Settled(d) \/ (Moving(d) /\ d.block.by >= n + 1)
      BY <1>1, <3>2, <3>3, <3>5
    <3>7. QED  BY <3>4, <3>6
  <2>5. QED  BY <1>8, <2>1, <2>3, <2>4
<1>9. h \in T
  <2> HIDE DEF T
  <2>1. QED  BY <1>1, <1>7, <1>8, NatInductionSet
<1>10. Ok(f[h], h)
  BY <1>1, <1>9
<1>11. ~(Moving(f[h]) /\ f[h].block.by >= h)
  BY <1>1, <1>6
<1>12. QED  BY <1>4, <1>10, <1>11

-----------------------------------------------------------------------------
(* Level and speed.                                                        *)
LEMMA Quotient ==
  ASSUME NEW m \in Nat \ {0}, NEW s \in Nat
  PROVE  s \div m \in Nat /\ (s \div m) * m <= s /\ s < (s \div m) * m + m
OBVIOUS

LEMMA QuotientStep ==
  ASSUME NEW m \in Nat, m >= 4, NEW s \in Nat, NEW l \in 0 .. 4
  PROVE  (s + l) \div m = s \div m \/ (s + l) \div m = (s \div m) + 1
<1> DEFINE q == s \div m
           p == (s + l) \div m
           a == q * m
           c == p * m
<1>1. m \in Nat \ {0} /\ s + l \in Nat
  OBVIOUS
<1>2. q \in Nat /\ a <= s /\ s < a + m /\ p \in Nat /\ c <= s + l /\ s + l < c + m
  BY <1>1, Quotient
<1> HIDE DEF q, p
<1>3. a \in Int /\ c \in Int
  BY <1>2, Multiples
<1>4. ~(p + 1 <= q)
  <2> SUFFICES ASSUME p + 1 <= q
               PROVE  FALSE
    OBVIOUS
  <2>1. (p + 1) * m <= a /\ (p + 1) * m = c + m
    BY <1>2, Ordered, Multiples
  <2> HIDE DEF a, c
  <2>2. QED  BY <1>2, <1>3, <2>1
<1>5. ~(q + 2 <= p)
  <2> SUFFICES ASSUME q + 2 <= p
               PROVE  FALSE
    OBVIOUS
  <2>1. ((q + 1) + 1) * m <= c /\ (q + 1) * m = a + m /\ ((q + 1) + 1) * m = (q + 1) * m + m
    BY <1>2, Ordered, Multiples
  <2> HIDE DEF a, c
  <2>2. c >= a + m + m
    BY <1>2, <1>3, <2>1
  <2>3. QED  BY <1>2, <1>3, <2>2
<1>6. p = q \/ p = q + 1
  BY <1>2, <1>4, <1>5
<1>7. QED  BY <1>6 DEF p, q

(* The speeds up to a level.                                               *)
Speeds(f, m) ==
    f = [n \in 1 .. m |-> IF n = 1 THEN Speed0 ELSE Halved(f[n - 1])]

LEMMA SpeedsExist ==
  ASSUME NEW m \in Nat
  PROVE  \E f : Speeds(f, m)
<1> DEFINE T == {l \in Nat : \E f : Speeds(f, l)}
<1>1. 0 \in T
  <2> DEFINE f == [n \in 1 .. 0 |-> Speed0]
  <2>1. f = [n \in 1 .. 0 |-> IF n = 1 THEN Speed0 ELSE Halved(f[n - 1])]
    OBVIOUS
  <2> HIDE DEF f
  <2>2. Speeds(f, 0)
    BY <2>1 DEF Speeds
  <2>3. QED  BY <2>2
<1>2. ASSUME NEW i \in Nat, i \in T
      PROVE  i + 1 \in T
  <2>1. PICK f : Speeds(f, i)
    BY <1>2
  <2> DEFINE g == [n \in 1 .. i + 1 |->
                     IF n <= i THEN f[n] ELSE IF n = 1 THEN Speed0 ELSE Halved(f[n - 1])]
  <2>2. ASSUME NEW n \in 1 .. i + 1
        PROVE  g[n] = IF n = 1 THEN Speed0 ELSE Halved(g[n - 1])
    <3>1. n = 1 \/ (n # 1 /\ n - 1 \in 1 .. i + 1 /\ n - 1 <= i)
      OBVIOUS
    <3>2. n # 1 => g[n - 1] = f[n - 1]
      BY <3>1
    <3>3. n <= i => f[n] = IF n = 1 THEN Speed0 ELSE Halved(f[n - 1])
      <4>1. n <= i => n \in 1 .. i
        OBVIOUS
      <4>2. \A j \in 1 .. i : f[j] = IF j = 1 THEN Speed0 ELSE Halved(f[j - 1])
        BY <2>1 DEF Speeds
      <4> HIDE DEF g
      <4>3. QED  BY <4>1, <4>2
    <3>4. g[n] = IF n <= i THEN f[n] ELSE IF n = 1 THEN Speed0 ELSE Halved(f[n - 1])
      OBVIOUS
    <3> HIDE DEF g
    <3>5. QED  BY <3>1, <3>2, <3>3, <3>4
  <2>3. g = [n \in 1 .. i + 1 |-> g[n]]
    OBVIOUS
  <2> HIDE DEF g
  <2>4. Speeds(g, i + 1)
    BY <2>2, <2>3 DEF Speeds
  <2>5. QED  BY <2>4
<1>3. Nat \subseteq T
  <2> HIDE DEF T
  <2>1. QED  BY <1>1, <1>2, NatInductionSet
<1>4. QED  BY <1>3

LEMMA SpeedsAgree ==
  ASSUME NEW n \in Nat, NEW m \in Nat, n <= m, NEW f, Speeds(f, n), NEW g, Speeds(g, m)
  PROVE  \A i \in 1 .. n : f[i] = g[i]
<1> DEFINE T == {i \in Nat : i \in 1 .. n => f[i] = g[i]}
<1>1. 0 \in T
  OBVIOUS
<1>2. ASSUME NEW i \in Nat, i \in T
      PROVE  i + 1 \in T
  <2> SUFFICES ASSUME i + 1 \in 1 .. n
               PROVE  f[i + 1] = g[i + 1]
    OBVIOUS
  <2>1. i + 1 \in 1 .. m
    OBVIOUS
  <2>2. f[i + 1] = IF i + 1 = 1 THEN Speed0 ELSE Halved(f[(i + 1) - 1])
    BY DEF Speeds
  <2>3. g[i + 1] = IF i + 1 = 1 THEN Speed0 ELSE Halved(g[(i + 1) - 1])
    BY <2>1 DEF Speeds
  <2>4. i + 1 # 1 => i \in 1 .. n /\ (i + 1) - 1 = i
    OBVIOUS
  <2>5. i + 1 # 1 => f[i] = g[i]
    BY <1>2, <2>4
  <2>6. QED  BY <2>2, <2>3, <2>4, <2>5
<1>3. Nat \subseteq T
  <2> HIDE DEF T
  <2>1. QED  BY <1>1, <1>2, NatInductionSet
<1>4. QED  BY <1>3

LEMMA SpeedIs ==
  ASSUME NEW l \in Nat
  PROVE  \E f : Speeds(f, l) /\ SpeedAt(l) = f[l]
<1>1. SpeedAt(l) = (CHOOSE f : Speeds(f, l))[l]
  BY DEF SpeedAt, Speeds
<1>2. \E f : Speeds(f, l)
  BY SpeedsExist
<1>3. QED  BY <1>1, <1>2

LEMMA SpeedStep ==
  /\ SpeedAt(1) = Speed0
  /\ \A l \in Nat \ {0} : SpeedAt(l + 1) = Halved(SpeedAt(l))
<1>1. SpeedAt(1) = Speed0
  <2>1. PICK f : Speeds(f, 1) /\ SpeedAt(1) = f[1]
    BY SpeedIs
  <2>2. 1 \in 1 .. 1
    OBVIOUS
  <2>3. QED  BY <2>1, <2>2 DEF Speeds
<1>2. ASSUME NEW l \in Nat \ {0}
      PROVE  SpeedAt(l + 1) = Halved(SpeedAt(l))
  <2>1. PICK f : Speeds(f, l) /\ SpeedAt(l) = f[l]
    BY SpeedIs
  <2>2. l + 1 \in Nat /\ l \in Nat /\ l \in 1 .. l /\ l <= l + 1
        /\ l + 1 \in 1 .. l + 1 /\ l + 1 # 1 /\ (l + 1) - 1 = l
    OBVIOUS
  <2>3. PICK g : Speeds(g, l + 1) /\ SpeedAt(l + 1) = g[l + 1]
    BY <2>2, SpeedIs
  <2>4. f[l] = g[l]
    BY <2>1, <2>2, <2>3, SpeedsAgree
  <2>5. g[l + 1] = Halved(g[l])
    BY <2>2, <2>3 DEF Speeds
  <2>6. QED  BY <2>1, <2>3, <2>4, <2>5
<1>3. QED  BY <1>1, <1>2

LEMMA HalvedType ==
  ASSUME NEW v \in 1 .. Speed0
  PROVE  Halved(v) \in 1 .. Speed0
BY PaceAssumption DEF Halved

-----------------------------------------------------------------------------
(* The ceiling, and the next block.                                        *)
LEMMA InnerTwo ==
  /\ Inner(2) \subseteq Cells
  /\ \A k \in Inner(2) : k \notin BoardWalls
<1>1. 2 \in 0 .. BOARD_HEIGHT - 2
  BY SizeAssumption
<1>2. QED  BY <1>1, InnerCells DEF Inner

LEMMA DrawIs ==
  ASSUME NEW b \in Boards
  PROVE  /\ draw_board(b) \in Boards
         /\ \A k \in Cells : draw_board(b)[k] =
               IF k \in Inner(2) /\ b[k] # M_BLOCK THEN CEILING ELSE b[k]
         /\ \A k \in BoardWalls : draw_board(b)[k] = b[k]
         /\ \A k \in Cells : draw_board(b)[k] = M_BLOCK <=> b[k] = M_BLOCK
         /\ Fewer(draw_board(b), b)
<1> DEFINE ks == {k \in Inner(2) : b[k] # M_BLOCK}
           d == draw_board(b)
<1>1. CEILING \in EMPTY .. WALL /\ ks \subseteq Cells
  BY InnerTwo DEF EMPTY, CEILING, WALL
<1>2. d \in Boards /\ \A k \in Cells : d[k] = IF k \in ks THEN CEILING ELSE b[k]
  BY <1>1, SetIs DEF draw_board
<1>3. \A k \in Cells : d[k] = IF k \in Inner(2) /\ b[k] # M_BLOCK THEN CEILING ELSE b[k]
  BY <1>2
<1> HIDE DEF d, ks
<1>4. \A k \in BoardWalls : d[k] = b[k]
  BY <1>3, InnerTwo, WallCells
<1>5. \A k \in Cells : d[k] = M_BLOCK <=> b[k] = M_BLOCK
  BY <1>3 DEF M_BLOCK, CEILING
<1>6. Fewer(d, b)
  BY <1>3 DEF Fewer, S_BLOCK, CEILING
<1>7. QED  BY <1>2, <1>3, <1>4, <1>5, <1>6 DEF d

LEMMA DrawKeeps ==
  /\ \A b, blk : InPlay(b, blk) => InPlay(draw_board(b), blk)
  /\ \A b : Still(b) => Still(draw_board(b))
<1>1. ASSUME NEW b, NEW blk, InPlay(b, blk)
      PROVE  InPlay(draw_board(b), blk)
  <2>1. b \in Boards /\ Sparse(b)
    BY <1>1 DEF InPlay
  <2>2. draw_board(b) \in Boards /\ Sparse(draw_board(b))
    BY <2>1, DrawIs, SparseFewer
  <2>3. Walled(draw_board(b), blk)
    BY <1>1, <2>1, DrawIs DEF InPlay, Walled
  <2>4. OnlyMoves(draw_board(b), blk)
    BY <1>1, <2>1, DrawIs DEF InPlay, OnlyMoves
  <2>5. QED  BY <1>1, <2>2, <2>3, <2>4 DEF InPlay
<1>2. ASSUME NEW b, Still(b)
      PROVE  Still(draw_board(b))
  <2>1. b \in Boards
    BY <1>2 DEF Still
  <2>2. ASSUME NEW i \in 4 .. BOARD_HEIGHT - 2, Full(draw_board(b), i)
        PROVE  Full(b, i)
    <3>1. \A x \in 1 .. BOARD_WIDTH - 2 : At(i, x) \in Cells
      BY InnerCells
    <3>2. Fewer(draw_board(b), b)
      BY <2>1, DrawIs
    <3>3. QED  BY <2>2, <3>1, <3>2 DEF Full, Fewer
  <2>3. QED  BY <1>2, <2>1, <2>2, DrawIs DEF Still
<1>3. QED  BY <1>1, <1>2

LEMMA NextBlock ==
  ASSUME NEW b, Still(b), NEW type \in 0 .. 6, NEW next \in 0 .. 6
  PROVE  InPlay(PutNew(b, NewBlock(type, next)), NewBlock(type, next))
<1> DEFINE m == BOARD_WIDTH \div 2 - 2
           blk == NewBlock(type, next)
           b1 == Set(b, Window(m, 0), EMPTY)
           d == PutNew(b, blk)
           w == BOARD_WIDTH
           h == BOARD_HEIGHT
<1>1. w \in Nat /\ w >= 6 /\ h \in Nat /\ h >= 7
  BY SizeAssumption
<1>2. m \in 1 .. w - 5 /\ \A j \in 0 .. 3 : m + j \in 1 .. w - 2
  BY StartColumns
<1>3. ASSUME NEW k \in Window(m, 0)
      PROVE  k \in Cells /\ k \notin BoardWalls
  <2>1. PICK i \in 0 .. 3, j \in 0 .. 3 : k = At(0 + i, m + j)
    BY DEF Window
  <2>2. 0 + i \in 0 .. h - 2 /\ m + j \in 1 .. w - 2
    BY <1>1, <1>2
  <2>3. QED  BY <2>1, <2>2, InnerCells
<1>4. /\ blk.b_type = type /\ blk.b_rotation = 0 /\ blk.bx = m /\ blk.by = 0
      /\ blk = [b_type |-> type, b_rotation |-> 0, b_next |-> next, bx |-> m, by |-> 0]
  BY DEF NewBlock
<1>5. d = Set(b1, ShapeOf(blk), M_BLOCK)
  BY <1>4 DEF PutNew
<1> HIDE DEF m, blk, d
<1>6. blk \in BlockType
  <2>1. m \in 0 .. w - 3 /\ 0 \in 0 .. h - 5 /\ 0 \in 0 .. 3
    BY <1>1, <1>2
  <2>2. QED  BY <1>4, <2>1 DEF BlockType
<1>7. ASSUME NEW c \in blocks[type][0]
      PROVE  c[1] \in 0 .. 3 /\ c[2] \in 0 .. 3
  <2>1. c \in (0 .. 3) \X (0 .. 3)
    BY ShapesAre
  <2>2. QED  BY <2>1
<1>8. Inside(blk)
  BY <1>1, <1>2, <1>4, <1>7 DEF Inside
<1>9. ShapeOf(blk) \subseteq Window(m, 0)
  BY <1>4, <1>7 DEF ShapeOf, Shape, Window
<1>10. /\ b \in Boards /\ \A k \in BoardWalls : b[k] = WALL
       /\ \A k \in Cells : b[k] # M_BLOCK
       /\ \A i \in 4 .. h - 2 : ~Full(b, i)
  BY DEF Still
<1>11. EMPTY \in EMPTY .. WALL /\ M_BLOCK \in EMPTY .. WALL
  BY DEF EMPTY, M_BLOCK, WALL
<1>12. b1 \in Boards /\ \A k \in Cells : b1[k] = IF k \in Window(m, 0) THEN EMPTY ELSE b[k]
  <2>1. Window(m, 0) \subseteq Cells
    BY <1>3
  <2>2. QED  BY <1>10, <1>11, <2>1, SetIs
<1> HIDE DEF b1
<1>13. d \in Boards /\ \A k \in Cells : d[k] = IF k \in ShapeOf(blk) THEN M_BLOCK ELSE b1[k]
  BY <1>3, <1>5, <1>9, <1>11, <1>12, SetIs
<1>14. Walled(d, blk)
  BY <1>3, <1>9, <1>10, <1>12, <1>13, WallCells DEF Walled
<1>15. Fewer(d, b) /\ \A k \in Window(m, 0) : d[k] # S_BLOCK
  BY <1>3, <1>12, <1>13 DEF Fewer, EMPTY, M_BLOCK, S_BLOCK
<1>16. \A k \in BoardWalls : d[k] # S_BLOCK
  BY <1>10, <1>15, WallCells DEF Fewer, WALL, S_BLOCK
<1>17. ASSUME NEW y \in 1 .. h - 2
       PROVE  ~Full(d, y)
  <2>1. CASE y <= 3
    <3>1. y \in 0 .. 3 /\ 0 \in 0 .. 3 /\ 0 + y = y /\ m + 0 \in 1 .. w - 2
      BY <1>1, <1>2, <2>1
    <3>2. At(y, m + 0) \in Window(m, 0)
      BY <3>1 DEF Window
    <3>3. QED  BY <1>15, <3>1, <3>2 DEF Full
  <2>2. CASE y \in 4 .. h - 2
    <3>1. \A x \in 1 .. w - 2 : At(y, x) \in Cells
      BY InnerCells
    <3>2. QED  BY <1>10, <1>15, <2>2, <3>1 DEF Full, Fewer
  <2>3. QED  BY <1>1, <2>1, <2>2
<1>18. Sparse(d)
  BY <1>15, <1>16, <1>17 DEF Sparse, m
<1>19. OnlyMoves(d, blk)
  BY <1>10, <1>12, <1>13 DEF OnlyMoves, EMPTY, M_BLOCK
<1>20. QED  BY <1>6, <1>8, <1>13, <1>14, <1>18, <1>19 DEF InPlay, d, blk

-----------------------------------------------------------------------------
(* A key.                                                                  *)
LEMMA TurnIs ==
  ASSUME InPlay(board, block)
  PROVE  Moving(Turn) /\ Turn.board = board /\ Turn.block = block
<1>1. /\ Turn.board = board /\ Turn.block = block /\ Turn.lines = 0 /\ Turn.touch_flag = FALSE
  BY DEF Turn
<1>2. board \in Boards /\ block \in BlockType
  BY DEF InPlay
<1>3. Turn \in Turns
  BY <1>2, SizeAssumption DEF Turn, Turns, BlockType
<1>4. QED  BY <1>1, <1>3 DEF Moving

LEMMA SideMoves ==
  ASSUME NEW dx \in {-1, 1}, InPlay(board, block),
         check_crash(board, block.bx + dx, block.by, block.b_rotation, block.b_type)
  PROVE  Moving([Turn EXCEPT !.board = move_block(board, block, dx, 0),
                             !.block.bx = block.bx + dx])
<1> DEFINE x == block.bx + dx
           d == [block EXCEPT !.bx = x]
           b == move_block(board, block, dx, 0)
           e == [Turn EXCEPT !.board = b, !.block.bx = x]
<1>1. block \in BlockType /\ Inside(block) /\ Walled(board, block)
  BY DEF InPlay
<1>2. /\ x \in 0 .. BOARD_WIDTH - 3
      /\ \A c \in blocks[block.b_type][block.b_rotation] :
            x + c[2] >= 1 /\ x + c[2] <= BOARD_WIDTH - 2
  <2>1. CASE dx = -1
    BY <1>1, <2>1, LeftWithin
  <2>2. CASE dx = 1
    BY <1>1, <2>2, RightWithin
  <2>3. QED  BY <2>1, <2>2
<1>3. /\ d \in BlockType /\ d.bx = x /\ d.by = block.by
      /\ d.b_type = block.b_type /\ d.b_rotation = block.b_rotation
  BY <1>1, <1>2 DEF BlockType
<1>4. block.by = block.by + 0
  BY <1>1 DEF BlockType
<1>5. x \in Int
  BY <1>2
<1> HIDE DEF d
<1>6. Inside(d)
  BY <1>2, <1>3 DEF Inside
<1>7. InPlay(b, d)
  BY <1>3, <1>4, <1>6, MovedInPlay
<1>8. b \in Boards
  BY <1>7 DEF InPlay
<1>9. Turn \in Turns /\ Turn.lines = 0 /\ Turn.touch_flag = FALSE /\ Turn.block = block
  BY TurnIs DEF Moving
<1>10. /\ e \in Turns /\ e.board = b /\ e.block = d
       /\ e.lines = Turn.lines /\ e.touch_flag = Turn.touch_flag
  <2> HIDE DEF b, x
  <2>1. QED  BY <1>5, <1>8, <1>9 DEF d, Turns
<1> HIDE DEF e
<1>11. Moving(e)
  BY <1>7, <1>9, <1>10 DEF Moving
<1>12. QED  BY <1>11 DEF e

LEMMA RotationMoves ==
  ASSUME InPlay(board, block), TRUE \in RotationFits(board, block)
  PROVE  Moving([Turn EXCEPT !.board = rotate_block(board, block),
                             !.block.b_rotation = (block.b_rotation + 1) % 4])
<1> DEFINE r == (block.b_rotation + 1) % 4
           b == rotate_block(board, block)
           e == [Turn EXCEPT !.board = b, !.block.b_rotation = r]
<1>1. InPlay(b, Turned(block))
  BY TurnedInPlay
<1>2. b \in Boards /\ Turned(block) \in BlockType /\ block \in BlockType
  BY <1>1 DEF InPlay
<1>3. r \in Int
  BY <1>2 DEF BlockType
<1>4. Turn \in Turns /\ Turn.lines = 0 /\ Turn.touch_flag = FALSE /\ Turn.block = block
  BY TurnIs DEF Moving
<1>5. Turned(block) = [block EXCEPT !.b_rotation = r]
  BY DEF Turned
<1>6. /\ e \in Turns /\ e.board = b /\ e.block = Turned(block)
      /\ e.lines = Turn.lines /\ e.touch_flag = Turn.touch_flag
  <2> HIDE DEF b, r
  <2>1. QED  BY <1>2, <1>3, <1>4, <1>5 DEF Turns
<1> HIDE DEF e
<1>7. Moving(e)
  BY <1>1, <1>4, <1>6 DEF Moving
<1>8. QED  BY <1>7 DEF e

LEMMA KeyTurn ==
  ASSUME InPlay(board, block), NEW key \in Keys, NEW t \in check_input(key)
  PROVE  Moving(t) \/ Settled(t)
<1>1. Moving(Turn)
  BY TurnIs
<1>2. CASE key = "none"
  BY <1>1, <1>2 DEF check_input
<1>3. CASE key = "left"
  BY <1>1, <1>3, SideMoves DEF check_input
<1>4. CASE key = "right"
  BY <1>1, <1>4, SideMoves DEF check_input
<1>5. CASE key = "up"
  BY <1>1, <1>5, RotationMoves DEF check_input
<1>6. CASE key = "down"
  <2>1. t = drop_block(Turn)
    BY <1>6 DEF check_input
  <2>2. QED  BY <1>1, <2>1, DropBlock
<1>7. CASE key = "space"
  <2>1. t = hard_drop(Turn)
    BY <1>7 DEF check_input
  <2>2. QED  BY <1>1, <2>1, HardDrop
<1>8. QED  BY <1>2, <1>3, <1>4, <1>5, <1>6, <1>7 DEF Keys

-----------------------------------------------------------------------------
(* The invariant holds at first and after every step.                      *)
LEMMA InitOK == Init => IInv
<1> SUFFICES ASSUME Init
             PROVE  IInv
  OBVIOUS
<1>1. board \in [Cells -> EMPTY .. WALL]
  BY DEF Init, EMPTY, WALL
<1>2. block \in [b_type : 0 .. 6, b_rotation : 0 .. 3, b_next : 0 .. 6,
                bx : 0 .. BOARD_WIDTH - 3, by : 0 .. BOARD_HEIGHT - 4]
  BY SizeAssumption DEF Init
<1>3. clock \in [time_cont : 0 .. MaxClock, speed : 1 .. Speed0]
  BY PaceAssumption, BoundAssumption DEF Init
<1>4. tally \in [score : Nat, score_up : {0, 1}, level : Nat \ {0}]
  BY DEF Init
<1>5. screen = "title" /\ menu = 0 /\ pieces \in 0 .. MaxPieces + 1
  BY BoundAssumption DEF Init
<1>6. TypeOK
  BY <1>1, <1>2, <1>3, <1>4, <1>5 DEF TypeOK
<1>7. LevelFollowsScore
  <2>1. tally.level = 1 /\ tally.score = 0 /\ clock.speed = Speed0
    BY DEF Init
  <2>2. 0 \div LinesPerLevel = 0
    BY PaceAssumption
  <2>3. QED  BY <2>1, <2>2, SpeedStep DEF LevelFollowsScore
<1>8. QED  BY <1>5, <1>6, <1>7 DEF IInv

(* What TypeOK says of block, from the invariant of a game.                *)
LEMMA InPlayType ==
  ASSUME NEW b, NEW blk, InPlay(b, blk)
  PROVE  /\ b \in [Cells -> EMPTY .. WALL]
         /\ blk \in [b_type : 0 .. 6, b_rotation : 0 .. 3, b_next : 0 .. 6,
                    bx : 0 .. BOARD_WIDTH - 3, by : 0 .. BOARD_HEIGHT - 4]
BY SizeAssumption DEF InPlay, Boards, BlockType

LEMMA TitleStep ==
  ASSUME IInv, TitleMove \/ TitleQuit
  PROVE  IInv'
<1>1. UNCHANGED <<board, block, clock, tally, pieces>>
  BY DEF TitleMove, TitleQuit
<1>2. menu' \in {0, 1} /\ screen' \in {"title", "exit"}
  BY DEF IInv, TypeOK, TitleMove, TitleQuit
<1>3. TypeOK'
  BY <1>1, <1>2 DEF IInv, TypeOK
<1>4. LevelFollowsScore'
  BY <1>1 DEF IInv, LevelFollowsScore
<1>5. screen' # "play"
  BY <1>2
<1>6. QED  BY <1>3, <1>4, <1>5 DEF IInv

LEMMA ResetIs == Still(reset_board)
<1> DEFINE b0 == [k \in Cells |-> EMPTY]
           b1 == make_wall(b0)
<1>1. EMPTY \in EMPTY .. WALL /\ WALL \in EMPTY .. WALL
  BY DEF EMPTY, WALL
<1>2. b0 \in Boards /\ \A k \in Cells : b0[k] = EMPTY
  BY <1>1 DEF Boards
<1> HIDE DEF b0
<1>3. b1 \in Boards /\ \A k \in Cells : b1[k] = IF k \in BoardWalls THEN WALL ELSE b0[k]
  BY <1>1, <1>2, SetIs, WallCells DEF make_wall
<1> HIDE DEF b1
<1>4. \A k \in BoardWalls : b1[k] = WALL
  BY <1>3, WallCells
<1>5. \A k \in Cells : b1[k] # M_BLOCK /\ b1[k] # S_BLOCK
  BY <1>2, <1>3 DEF EMPTY, M_BLOCK, S_BLOCK, WALL
<1>6. ASSUME NEW i \in 4 .. BOARD_HEIGHT - 2
      PROVE  ~Full(b1, i)
  <2>1. 1 \in 1 .. BOARD_WIDTH - 2 /\ i \in 0 .. BOARD_HEIGHT - 2
    BY SizeAssumption
  <2>2. At(i, 1) \in Cells
    BY <2>1, InnerCells
  <2>3. QED  BY <1>5, <2>1, <2>2 DEF Full
<1>7. Still(b1)
  BY <1>3, <1>4, <1>5, <1>6 DEF Still
<1>8. QED  BY <1>7, DrawKeeps DEF reset_board, b0, b1

LEMMA StartStep ==
  ASSUME IInv, TitleStart
  PROVE  IInv'
<1>1. PICK type \in RandomTypes, next \in RandomTypes :
        block' = NewBlock(type, next) /\ board' = PutNew(reset_board, NewBlock(type, next))
  BY DEF TitleStart
<1>2. type \in 0 .. 6 /\ next \in 0 .. 6
  BY BoundAssumption
<1>3. InPlay(PutNew(reset_board, NewBlock(type, next)), NewBlock(type, next))
  BY <1>2, ResetIs, NextBlock
<1>4. InPlay(board, block)'
  BY <1>1, <1>3
<1>5. /\ screen' = "play" /\ menu' = menu /\ pieces' = pieces + 1 /\ pieces < MaxPieces
      /\ clock' = [time_cont |-> 0, speed |-> Speed0]
      /\ tally' = [score |-> 0, score_up |-> 1, level |-> 1]
  BY DEF TitleStart
<1>6. TypeOK'
  <2>1. /\ board' \in [Cells -> EMPTY .. WALL]
        /\ block' \in [b_type : 0 .. 6, b_rotation : 0 .. 3, b_next : 0 .. 6,
                       bx : 0 .. BOARD_WIDTH - 3, by : 0 .. BOARD_HEIGHT - 4]
    BY <1>1, <1>3, InPlayType
  <2>2. clock' \in [time_cont : 0 .. MaxClock, speed : 1 .. Speed0]
    BY <1>5, PaceAssumption, BoundAssumption
  <2>3. tally' \in [score : Nat, score_up : {0, 1}, level : Nat \ {0}]
    BY <1>5
  <2>4. pieces' \in 0 .. MaxPieces + 1 /\ menu' \in {0, 1}
    BY <1>5, BoundAssumption DEF IInv, TypeOK
  <2>5. QED  BY <1>5, <2>1, <2>2, <2>3, <2>4 DEF TypeOK
<1>7. LevelFollowsScore'
  <2>1. tally'.level = 1 /\ tally'.score = 0 /\ clock'.speed = Speed0
    BY <1>5
  <2>2. 0 \div LinesPerLevel = 0
    BY PaceAssumption
  <2>3. QED  BY <2>1, <2>2, SpeedStep DEF LevelFollowsScore
<1>8. QED  BY <1>4, <1>6, <1>7 DEF IInv

LEMMA LevelStep ==
  ASSUME IInv, NEW t, t.lines \in 0 .. 4, NEW time \in 0 .. MaxClock, EndOfTurn(t, time)
  PROVE  /\ clock' \in [time_cont : 0 .. MaxClock, speed : 1 .. Speed0]
         /\ tally' \in [score : Nat, score_up : {0, 1}, level : Nat \ {0}]
         /\ LevelFollowsScore'
<1> DEFINE s == Scored(t)
           up == LevelUp(s)
           m == LinesPerLevel
           q == tally.score \div m
           l == t.lines
<1>1. /\ tally \in [score : Nat, score_up : {0, 1}, level : Nat \ {0}]
      /\ clock \in [time_cont : 0 .. MaxClock, speed : 1 .. Speed0]
  BY DEF IInv, TypeOK
<1>2. tally.level = 1 + q /\ clock.speed = SpeedAt(tally.level)
  BY DEF IInv, LevelFollowsScore
<1>3. /\ tally' = [score |-> s.score,
                  score_up |-> IF up THEN 1 ELSE s.score_up,
                  level |-> IF up THEN tally.level + 1 ELSE tally.level]
      /\ clock' = [time_cont |-> time,
                  speed |-> IF up THEN Halved(clock.speed) ELSE clock.speed]
  BY DEF EndOfTurn
<1>4. /\ s.score = tally.score + l
      /\ s.score_up = IF l > 0 THEN 0 ELSE tally.score_up
  BY DEF Scored
<1>5. up <=> s.score \div m = tally.level /\ s.score_up = 0
  BY DEF LevelUp
<1> HIDE DEF up, s
<1>6. /\ tally.score \in Nat /\ tally.level \in Nat \ {0} /\ tally.score_up \in {0, 1}
      /\ clock.speed \in 1 .. Speed0
  BY <1>1
<1>7. s.score \in Nat /\ s.score_up \in {0, 1}
  BY <1>4, <1>6
<1>8. q \in Nat /\ (s.score \div m = q \/ s.score \div m = q + 1)
  BY <1>4, <1>6, PaceAssumption, Quotient, QuotientStep
<1>9. l = 0 => s.score \div m = q
  BY <1>4, <1>6
<1>10. l # 0 => s.score_up = 0
  BY <1>4
<1> HIDE DEF q
<1>11. 1 + s.score \div m = IF up THEN tally.level + 1 ELSE tally.level
  BY <1>2, <1>5, <1>8, <1>9, <1>10
<1>12. tally' \in [score : Nat, score_up : {0, 1}, level : Nat \ {0}]
  BY <1>3, <1>6, <1>7
<1>13. clock' \in [time_cont : 0 .. MaxClock, speed : 1 .. Speed0]
  BY <1>3, <1>6, HalvedType
<1>14. LevelFollowsScore'
  <2>1. /\ tally'.score = s.score /\ tally'.level = IF up THEN tally.level + 1 ELSE tally.level
        /\ clock'.speed = IF up THEN Halved(clock.speed) ELSE clock.speed
    BY <1>3
  <2>2. tally'.level = 1 + tally'.score \div m
    BY <1>11, <2>1
  <2>3. clock'.speed = SpeedAt(tally'.level)
    BY <1>2, <1>6, <2>1, SpeedStep
  <2>4. QED  BY <2>2, <2>3 DEF LevelFollowsScore
<1>15. QED  BY <1>12, <1>13, <1>14

LEMMA TurnStep ==
  ASSUME IInv, Playing, NEW t, Moving(t) \/ Settled(t),
         NEW time \in 0 .. MaxClock, EndOfTurn(t, time)
  PROVE  IInv'
<1>1. t.lines \in 0 .. 4
  BY DEF Moving, Settled
<1>2. PICK next, b : /\ next = IF t.touch_flag THEN new_block(t.block) ELSE t.block
                     /\ b = IF t.touch_flag THEN PutNew(t.board, next) ELSE t.board
  OBVIOUS
<1>3. block' = next /\ board' = b
  BY <1>2 DEF EndOfTurn
<1>4. InPlay(b, next)
  <2>1. CASE Moving(t)
    BY <1>2, <2>1 DEF Moving
  <2>2. CASE Settled(t)
    <3>1. Still(t.board) /\ t.block.b_next \in 0 .. 6 /\ 1 \in 0 .. 6 /\ t.touch_flag = TRUE
      BY <2>2 DEF Settled
    <3>2. next = NewBlock(t.block.b_next, 1) /\ b = PutNew(t.board, next)
      BY <1>2, <3>1 DEF new_block
    <3>3. QED  BY <3>1, <3>2, NextBlock
  <2>3. QED  BY <2>1, <2>2
<1>5. /\ clock' \in [time_cont : 0 .. MaxClock, speed : 1 .. Speed0]
      /\ tally' \in [score : Nat, score_up : {0, 1}, level : Nat \ {0}]
      /\ LevelFollowsScore'
  BY <1>1, LevelStep
<1>6. screen' \in {"title", "play"} /\ menu' = 0
  BY DEF EndOfTurn
<1>7. pieces' \in 0 .. MaxPieces + 1
  <2>1. pieces' = pieces \/ pieces' = pieces + 1
    BY DEF EndOfTurn
  <2>2. pieces \in 0 .. MaxPieces + 1 /\ pieces <= MaxPieces
    BY DEF IInv, TypeOK, Playing
  <2>3. QED  BY <2>1, <2>2, BoundAssumption
<1>8. /\ board' \in [Cells -> EMPTY .. WALL]
      /\ block' \in [b_type : 0 .. 6, b_rotation : 0 .. 3, b_next : 0 .. 6,
                     bx : 0 .. BOARD_WIDTH - 3, by : 0 .. BOARD_HEIGHT - 4]
  BY <1>3, <1>4, InPlayType
<1>9. TypeOK'
  BY <1>5, <1>6, <1>7, <1>8 DEF TypeOK
<1>10. InPlay(board, block)'
  BY <1>3, <1>4
<1>11. QED  BY <1>5, <1>9, <1>10 DEF IInv

LEMMA PollStep ==
  ASSUME IInv, NEW key \in Keys, Poll(key)
  PROVE  IInv'
<1>1. Playing /\ InPlay(board, block)
  BY DEF Poll, Playing, IInv
<1>2. PICK time : time = IF clock.time_cont < MaxClock THEN clock.time_cont + 1 ELSE MaxClock
  OBVIOUS
<1>3. PICK t \in check_input(key) :
        EndOfTurn([t EXCEPT !.board = draw_board(t.board)], time)
  BY <1>2 DEF Poll
<1>4. PICK e : e = [t EXCEPT !.board = draw_board(t.board)]
  OBVIOUS
<1>5. EndOfTurn(e, time)
  BY <1>3, <1>4
<1>6. Moving(t) \/ Settled(t)
  BY <1>1, KeyTurn
<1>7. t \in Turns /\ draw_board(t.board) \in Boards
  <2>1. t \in Turns
    BY <1>6 DEF Moving, Settled
  <2>2. QED  BY <2>1, DrawIs DEF Turns
<1>8. /\ e \in Turns /\ e.board = draw_board(t.board) /\ e.block = t.block
      /\ e.lines = t.lines /\ e.touch_flag = t.touch_flag
  BY <1>4, <1>7 DEF Turns
<1>9. Moving(e) \/ Settled(e)
  <2>1. CASE Moving(t)
    <3>1. InPlay(e.board, e.block)
      BY <1>8, <2>1, DrawKeeps DEF Moving
    <3>2. QED  BY <1>8, <2>1, <3>1 DEF Moving
  <2>2. CASE Settled(t)
    <3>1. Still(e.board)
      BY <1>8, <2>2, DrawKeeps DEF Settled
    <3>2. QED  BY <1>8, <2>2, <3>1 DEF Settled
  <2>3. QED  BY <1>6, <2>1, <2>2
<1>10. time \in 0 .. MaxClock
  <2>1. clock.time_cont \in 0 .. MaxClock
    BY DEF IInv, TypeOK
  <2>2. QED  BY <1>2, <2>1, BoundAssumption
<1>11. QED  BY <1>1, <1>5, <1>9, <1>10, TurnStep

LEMMA FallStep ==
  ASSUME IInv, Fall
  PROVE  IInv'
<1>1. Playing /\ InPlay(board, block)
  BY DEF Fall, Playing, IInv
<1>2. PICK t : t = drop_block(Turn)
  OBVIOUS
<1>3. EndOfTurn(t, 0)
  BY <1>2 DEF Fall
<1>4. Moving(t) \/ Settled(t)
  BY <1>1, <1>2, TurnIs, DropBlock
<1>5. 0 \in 0 .. MaxClock
  BY BoundAssumption
<1>6. QED  BY <1>1, <1>3, <1>4, <1>5, TurnStep

LEMMA Step == IInv /\ [Next]_vars => IInv'
<1> SUFFICES ASSUME IInv, [Next]_vars
             PROVE  IInv'
  OBVIOUS
<1>1. CASE TitleMove \/ TitleQuit
  BY <1>1, TitleStep
<1>2. CASE TitleStart
  BY <1>2, StartStep
<1>3. CASE Fall
  BY <1>3, FallStep
<1>4. ASSUME NEW key \in Keys, Poll(key)
      PROVE  IInv'
  BY <1>4, PollStep
<1>5. CASE UNCHANGED vars
  <2>1. UNCHANGED <<screen, menu, board, block, clock, tally, pieces>>
    BY <1>5 DEF vars
  <2>2. TypeOK'
    BY <2>1 DEF IInv, TypeOK
  <2>3. LevelFollowsScore'
    BY <2>1 DEF IInv, LevelFollowsScore
  <2>4. (screen = "play" => InPlay(board, block))'
    BY <2>1 DEF IInv
  <2>5. QED  BY <2>2, <2>3, <2>4 DEF IInv
<1>6. QED  BY <1>1, <1>2, <1>3, <1>4, <1>5 DEF Next, Play

LEMMA Invariance == Spec => []IInv
<1>1. QED  BY InitOK, Step, PTL DEF Spec

-----------------------------------------------------------------------------
(* In every turn the block is inside its limits: new_block has replaced    *)
(* the garbage drop_block returns, and no sequence of keys takes the block *)
(* through a wall.  (play, check_input, drop_block, new_block)             *)
THEOREM TypeCorrect == Spec => []TypeOK
<1>1. IInv => TypeOK
  BY DEF IInv
<1>2. QED  BY Invariance, <1>1, PTL

(* Whatever is still M_BLOCK on the board is a cell of the block; the walls*)
(* are whole but for the cell a turn tested with another shape has taken,  *)
(* and nothing has settled in them.                                        *)
(* (check_input, move_block, rotate_block, drop_block, new_block)          *)
THEOREM MovesCorrect == Spec => []MovesLeaveNoTrace
<1>1. IInv => OnlyTheBlockMoves
  BY DEF IInv, InPlay, OnlyMoves, OnlyTheBlockMoves
<1>2. IInv => WallsStand
  <2> SUFFICES ASSUME IInv, screen = "play", NEW k \in BoardWalls, board[k] # WALL
               PROVE  /\ k = At(block.by + 2, BOARD_WIDTH - 1)
                      /\ block.b_type \in {1, 6}
                      /\ board[k] # S_BLOCK
    BY DEF WallsStand
  <2>1. Walled(board, block) /\ Sparse(board)
    BY DEF IInv, InPlay
  <2>2. Loose(block) /\ k = At(block.by + 2, BOARD_WIDTH - 1)
    BY <2>1 DEF Walled
  <2>3. QED  BY <2>1, <2>2 DEF Loose, Sparse
<1>3. IInv => MovesLeaveNoTrace
  BY <1>1, <1>2 DEF MovesLeaveNoTrace
<1>4. QED  BY Invariance, <1>3, PTL

(* check_line leaves no full row below the line that ends the game.        *)
THEOREM FullRowsCorrect == Spec => []NoFullRowStays
<1>1. IInv => NoFullRowStays
  <2> SUFFICES ASSUME IInv, screen = "play", NEW i \in 4 .. BOARD_HEIGHT - 2
               PROVE  ~IsFull(board, i)
    BY DEF NoFullRowStays
  <2>1. Sparse(board)
    BY DEF IInv, InPlay
  <2>2. i \in 0 .. BOARD_HEIGHT - 2 /\ i \in 1 .. BOARD_HEIGHT - 2
    OBVIOUS
  <2>3. ~Full(board, i) /\ \A k \in BoardWalls : board[k] # S_BLOCK
    BY <2>1, <2>2 DEF Sparse
  <2>4. QED  BY <2>2, <2>3, FullIs
<1>2. QED  BY Invariance, <1>1, PTL

(* A hard drop ends: in whatever turn space is pressed, the block has      *)
(* settled before it has passed every row.                                 *)
(* (play's loop on touch_flag, drop_block)                                 *)
THEOREM HardDropEnds == Spec => [](screen = "play" => hard_drop(Turn).touch_flag)
<1>1. IInv => (screen = "play" => hard_drop(Turn).touch_flag)
  <2> SUFFICES ASSUME IInv, screen = "play"
               PROVE  hard_drop(Turn).touch_flag
    OBVIOUS
  <2>1. Moving(Turn)
    BY TurnIs DEF IInv
  <2>2. Settled(hard_drop(Turn))
    BY <2>1, HardDrop
  <2>3. QED  BY <2>2 DEF Settled
<1>2. QED  BY Invariance, <1>1, PTL

(* The level is 1 + score \div LinesPerLevel and the speed has been halved *)
(* once for each level.  (check_line, play)                                *)
THEOREM LevelCorrect == Spec => []LevelFollowsScore
<1>1. IInv => LevelFollowsScore
  BY DEF IInv
<1>2. QED  BY Invariance, <1>1, PTL
=============================================================================
