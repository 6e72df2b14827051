-------------------------- MODULE TicTacToeProofs ----------------------------
(****************************************************************************)
(* The runner and its strategies, whatever another library answers.         *)
(*                                                                          *)
(* Whatever PlayerStrategy computes, the boards that the strategies keep by *)
(* themselves are the runner's, and the exit code says how the game ended.  *)
(* And by what it computes it never loses: every value of the table is      *)
(* right relative to the boards after it, which is an induction over the    *)
(* number of free cells, so that a board that is not lost has a move to     *)
(* such a board, BestMove is one, and no answer leads away.                 *)
(****************************************************************************)
EXTENDS TicTacToe, FiniteSetTheorems, WellFoundedInduction, TLAPS

Marks == {NEUTRAL, X, O}
BoardSet == [Cells -> Marks]

GameTypeOK ==
    /\ ours \subseteq Players /\ curr_player \in Players
    /\ board \in BoardSet /\ boards \in [ours -> BoardSet]
    /\ pc \in {"move", "place", "tell", "judge", "exited"}

(* Where the boards differ: the player who moves is ahead of the runner by  *)
(* its own move, and the other one is behind until it is told.              *)
Ahead(p) == boards[p] = Put(board, move, p)
Behind(p) == move \in Free(boards[p]) /\ board = Put(boards[p], move, curr_player)

Agreement ==
    /\ BoardsAgree
    /\ pc = "place" =>
         \A p \in ours : IF p = curr_player THEN Ahead(p) ELSE boards[p] = board
    /\ pc = "tell" =>
         /\ move \in Cells
         /\ \A p \in ours : IF p = other THEN Behind(p) ELSE boards[p] = board

GameInv == GameTypeOK /\ Agreement

USE DEF Players, X, O, NEUTRAL

LEMMA GameInit == Init => GameInv
BY DEF Init, GameInv, GameTypeOK, Agreement, BoardsAgree, Empty, BoardSet, Marks

(* Only the one cell changes, and not even that outside the board.          *)
LEMMA PutFacts ==
  ASSUME NEW b \in BoardSet, NEW c, NEW p \in Players
  PROVE  /\ Put(b, c, p) \in BoardSet
         /\ \A d \in Cells \ {c} : Put(b, c, p)[d] = b[d]
         /\ c \in Cells => Put(b, c, p)[c] = p
BY DEF Put, BoardSet, Marks

LEMMA GameNext == GameInv /\ [Next]_vars => GameInv'
<1> SUFFICES ASSUME GameInv, [Next]_vars PROVE GameInv'
  OBVIOUS
<1> USE DEF GameInv, GameTypeOK
<1>1. other \in Players /\ other # curr_player /\ other = 1 - curr_player
  BY DEF other
<1>2. CASE UNCHANGED vars
  BY <1>2 DEF vars, Agreement, BoardsAgree, Ahead, Behind, other
<1>3. ASSUME NEW p, Fail(p) PROVE GameInv'
  BY <1>3 DEF Fail, Return, Agreement, BoardsAgree
<1>4. CASE MakeMove
  <2>1. /\ pc = "move" /\ curr_player \in ours /\ pc' = "place"
        /\ UNCHANGED <<ours, board, curr_player>>
        /\ boards' = [boards EXCEPT ![curr_player][move'] = curr_player]
    BY <1>4 DEF MakeMove
  <2>2. \A p \in ours : boards[p] = board /\ boards[p] \in BoardSet
    BY <2>1 DEF Agreement, BoardsAgree
  <2>3. /\ boards'[curr_player] = Put(board, move', curr_player)
        /\ \A p \in ours \ {curr_player} : boards'[p] = board
    BY <2>1, <2>2 DEF Put
  <2>4. boards' \in [ours -> BoardSet]
    <3>1. Put(board, move', curr_player) \in BoardSet
      BY PutFacts
    <3>2. boards' = [p \in ours |-> boards'[p]]
      BY <2>1
    <3> QED
      BY <2>2, <2>3, <3>1, <3>2
  <2> QED
    BY <2>1, <2>3, <2>4 DEF Agreement, BoardsAgree, Ahead
<1>5. CASE ForeignMakeMove
  BY <1>5 DEF ForeignMakeMove, Agreement, BoardsAgree
<1>6. CASE Place
  <2>1. CASE move \in Free(board)
    <3>1. /\ pc = "place" /\ pc' = "tell" /\ UNCHANGED <<ours, curr_player, move, boards>>
          /\ board' = Put(board, move, curr_player) /\ move \in Cells
      BY <1>6, <2>1 DEF Place, Free
    <3>2. board' \in BoardSet /\ other' = other
      BY <3>1, PutFacts DEF other
    <3>3. ASSUME NEW p \in ours'
          PROVE  IF p = other' THEN Behind(p)' ELSE boards'[p] = board'
      <4>1. p \in ours /\ p \in Players
        BY <3>1
      <4>2. CASE p = curr_player
        BY <1>1, <3>1, <3>2, <4>1, <4>2 DEF Agreement, Ahead
      <4>3. CASE p # curr_player
        <5>1. p = other /\ boards[p] = board
          BY <1>1, <3>1, <4>1, <4>3 DEF Agreement
        <5> QED
          BY <2>1, <3>1, <3>2, <5>1 DEF Behind, Free
      <4> QED
        BY <4>2, <4>3
    <3> QED
      BY <3>1, <3>2, <3>3 DEF Agreement, BoardsAgree
  <2>2. CASE move \notin Free(board)
    BY <1>3, <1>6, <2>2 DEF Place
  <2> QED
    BY <2>1, <2>2
<1>7. CASE OpponentMove
  <2>1. /\ pc = "tell" /\ other \in ours /\ Behind(other)
        /\ \A p \in ours \ {other} : boards[p] = board
    BY <1>7 DEF OpponentMove, Agreement
  <2>2. /\ pc' = "judge" /\ UNCHANGED <<ours, board, curr_player>>
        /\ boards' = [boards EXCEPT ![other][move] = curr_player]
    BY <1>7, <2>1 DEF OpponentMove, Behind
  <2>3. boards'[other] = board /\ \A p \in ours \ {other} : boards'[p] = board
    BY <2>1, <2>2 DEF Behind, Put
  <2>4. boards' \in [ours -> BoardSet]
    <3>1. boards' = [p \in ours |-> boards'[p]]
      BY <2>2
    <3> QED
      BY <2>3, <3>1
  <2> QED
    BY <2>2, <2>3, <2>4 DEF Agreement, BoardsAgree
<1>8. CASE ForeignOpponentMove
  BY <1>8 DEF ForeignOpponentMove, Agreement, BoardsAgree
<1>9. CASE Judge
  BY <1>1, <1>9 DEF Judge, Return, Agreement, BoardsAgree
<1> QED
  BY <1>2, <1>3, <1>4, <1>5, <1>6, <1>7, <1>8, <1>9 DEF Next, ForeignThrows

LEMMA GameInductive == Spec => []GameInv
BY GameInit, GameNext, PTL DEF Spec

(* Every board that a PlayerStrategy keeps is the runner's board whenever   *)
(* the runner judges or asks, whatever BestMove answers and whatever the    *)
(* other library does.                                                      *)
THEOREM BoardsStayEqual == Spec => []BoardsAgree
<1>1. GameInv => BoardsAgree
  BY DEF GameInv, Agreement
<1> QED
  BY <1>1, GameInductive, PTL

-----------------------------------------------------------------------------
(* The result                                                               *)

Winners == {p \in Players : Wins(board, p)}

Judged ==
    /\ pc \in {"move", "place"} => Winners = {}
    /\ pc \in {"tell", "judge"} => Winners \subseteq {curr_player}
    /\ pc = "exited" =>
          \/ result \in Players /\ Winners = {result}
          \/ result = DRAW /\ Winners = {} /\ Free(board) = {}
          \/ result = -1 /\ blamed \in Players

LEMMA LinesInside == \A line \in Lines : line \subseteq Cells
BY DEF Lines, Cells

(* A mark gives a line to nobody but the player whose mark it is.           *)
LEMMA OnlyMoverWins ==
  ASSUME NEW b \in BoardSet, NEW c \in Cells, NEW p \in Players, NEW q \in Players \ {p},
         Wins(Put(b, c, p), q)
  PROVE  Wins(b, q)
<1>1. PICK line \in Lines : \A d \in line : Put(b, c, p)[d] = q
  BY DEF Wins
<1>2. ASSUME NEW d \in line PROVE b[d] = q
  <2>1. d \in Cells /\ Put(b, c, p)[d] = q /\ q # p
    BY <1>1, LinesInside
  <2>2. d # c
    BY <2>1, PutFacts
  <2>3. d \in Cells \ {c}
    BY <2>1, <2>2
  <2>4. Put(b, c, p)[d] = b[d]
    BY <2>3 DEF Put, BoardSet
  <2> QED
    BY <2>1, <2>4
<1> QED
  BY <1>1, <1>2 DEF Wins

LEMMA CheckWin ==
  ASSUME NEW p \in Players, Winners \subseteq {p}
  PROVE  check_win(board) = IF Winners = {} THEN NEUTRAL ELSE p
<1>1. CASE Winners = {}
  BY <1>1 DEF check_win, Winners
<1>2. CASE Winners = {p}
  <2>1. Min({p}) = p
    BY DEF Min
  <2> QED
    BY <1>2, <2>1 DEF check_win, Winners
<1> QED
  BY <1>1, <1>2

LEMMA JudgedNext == GameInv /\ Judged /\ [Next]_vars => Judged'
<1> SUFFICES ASSUME GameInv, Judged, [Next]_vars PROVE Judged'
  OBVIOUS
<1>1. /\ other \in Players /\ other = 1 - curr_player /\ curr_player \in Players
      /\ board \in BoardSet
  BY DEF GameInv, GameTypeOK, other
<1>2. CASE UNCHANGED vars
  BY <1>2 DEF vars, Judged, Winners
<1>3. ASSUME NEW p \in Players, Fail(p) PROVE Judged'
  BY <1>3 DEF Fail, Return, Judged
<1>4. CASE MakeMove \/ ForeignMakeMove
  BY <1>4 DEF MakeMove, ForeignMakeMove, Judged, Winners
<1>5. CASE Place
  <2>1. CASE move \in Free(board)
    <3>1. /\ pc = "place" /\ pc' = "tell" /\ curr_player' = curr_player /\ move \in Cells
          /\ board' = Put(board, move, curr_player) /\ Winners = {}
      BY <1>5, <2>1 DEF Place, Free, Judged
    <3>2. \A q \in Players \ {curr_player} : ~Wins(board', q)
      BY <1>1, <3>1, OnlyMoverWins DEF Winners
    <3> QED
      BY <3>1, <3>2 DEF Judged, Winners
  <2>2. CASE move \notin Free(board)
    BY <1>1, <1>3, <1>5, <2>2 DEF Place
  <2> QED
    BY <2>1, <2>2
<1>6. CASE OpponentMove \/ ForeignOpponentMove
  BY <1>1, <1>3, <1>6 DEF OpponentMove, ForeignOpponentMove, Judged, Winners
<1>7. CASE Judge
  <2>1. pc = "judge" /\ Winners \subseteq {curr_player} /\ board' = board
    BY <1>7 DEF Judge, Judged
  <2>2. check_win(board) = IF Winners = {} THEN NEUTRAL ELSE curr_player
    BY <1>1, <2>1, CheckWin
  <2>3. Winners' = Winners /\ Free(board') = Free(board)
    BY <2>1 DEF Winners
  <2>4. CASE Winners = {}
    BY <1>7, <2>2, <2>3, <2>4 DEF Judge, Return, Judged
  <2>5. CASE Winners = {curr_player}
    BY <1>1, <1>7, <2>2, <2>3, <2>5 DEF Judge, Return, Judged
  <2> QED
    BY <2>1, <2>4, <2>5
<1> QED
  BY <1>1, <1>2, <1>3, <1>4, <1>5, <1>6, <1>7 DEF Next, ForeignThrows

LEMMA JudgedInit == Init => Judged
<1>1. ASSUME NEW line \in Lines PROVE line # {}
  BY DEF Lines
<1> QED
  BY <1>1, LinesInside DEF Init, Judged, Winners, Wins, Empty

(* The exit code says how the game ended, and nobody plays on when somebody *)
(* has a line.                                                              *)
THEOREM ResultRight == Spec => []ResultIsRight
<1>1. Init => Judged
  BY JudgedInit
<1>2. Judged => ResultIsRight
  BY DEF Judged, Winners, ResultIsRight
<1> QED
  BY <1>1, <1>2, JudgedNext, GameInductive, PTL DEF Spec

-----------------------------------------------------------------------------
(* Induction over the natural numbers, as a fact about sets.                *)
LEMMA NatSetInduction ==
  ASSUME NEW Held, 0 \in Held, \A n \in Nat : n \in Held => n + 1 \in Held
  PROVE  Nat \subseteq Held
<1> DEFINE T == Nat \ Held
           R == {ss \in Nat \X Nat : ss[1] < ss[2]}
<1>1. SUFFICES ASSUME T # {} PROVE FALSE
  OBVIOUS
<1>2. IsWellFoundedOn(R, Nat)
  <2>1. OpToRel(<, Nat) = R
    BY DEF OpToRel
  <2> QED
    BY <2>1, NatLessThanWellFounded, Zenon
<1>3. PICK x \in T : \A y \in T : ~(<<y, x>> \in R)
  <2> HIDE DEF R
  <2> T \subseteq Nat
    OBVIOUS
  <2> HIDE DEF T
  <2> QED
    BY <1>1, <1>2, WFMin, Zenon
<1>4. x \in Nat /\ x \notin Held
  OBVIOUS
<1>5. x # 0 /\ x - 1 \in Nat
  BY <1>4
<1>6. <<x - 1, x>> \in R
  BY <1>4, <1>5
<1>7. x - 1 \in Held
  <2> HIDE DEF R
  <2> QED
    BY <1>3, <1>5, <1>6
<1> QED
  BY <1>4, <1>5, <1>7

(* The folds.  What a fold has after the places t of l is a recursion on    *)
(* the greatest place; what is folded is told apart by z, so that one       *)
(* induction serves both.                                                   *)
Greatest(t) == CHOOSE m \in t : \A y \in t : m >= y

Start(z) == IF z = DRAW THEN <<{Empty}>> ELSE <<>>
Fold(z, s, k) ==
    IF z = DRAW THEN Append(s, UNION {After(b) : b \in s[k]})
    ELSE [b \in Boards[k] \union DOMAIN s |-> IF b \in Boards[k] THEN Score(b, z, s) ELSE s[b]]

IsFold(w, z, l, T) ==
    w = [t \in SUBSET T |-> IF t = {} THEN Start(z)
                            ELSE Fold(z, w[t \ {Greatest(t)}], l[Greatest(t)])]

LEMMA GreatestIs ==
  ASSUME NEW k \in Nat, NEW t \in SUBSET (1 .. k + 1), k + 1 \in t
  PROVE  Greatest(t) = k + 1
<1>1. \A m \in t : (\A y \in t : m >= y) => m = k + 1
  OBVIOUS
<1>2. \E m \in t : \A y \in t : m >= y
  OBVIOUS
<1> QED
  BY <1>1, <1>2, Zenon DEF Greatest

LEMMA FoldExists ==
  ASSUME NEW z, NEW l
  PROVE  \A m \in Nat : \E w : IsFold(w, z, l, 1 .. m)
<1> DEFINE held == {m \in Nat : \E w : IsFold(w, z, l, 1 .. m)}
<1>1. 0 \in held
  <2> DEFINE w == [t \in SUBSET (1 .. 0) |-> Start(z)]
  <2>1. \A t \in SUBSET (1 .. 0) : t = {}
    OBVIOUS
  <2>2. IsFold(w, z, l, 1 .. 0)
    BY <2>1 DEF IsFold
  <2> QED
    BY <2>2
<1>2. ASSUME NEW k \in Nat, k \in held PROVE k + 1 \in held
  <2>1. PICK w : IsFold(w, z, l, 1 .. k)
    BY <1>2
  <2> DEFINE f(g, t) == IF t = {} THEN Start(z) ELSE Fold(z, g[t \ {Greatest(t)}], l[Greatest(t)])
             u == [t \in SUBSET (1 .. k + 1) |->
                     IF t \subseteq 1 .. k THEN w[t] ELSE Fold(z, w[t \ {k + 1}], l[k + 1])]
  <2>2. ASSUME NEW t \in SUBSET (1 .. k + 1) PROVE u[t] = f(u, t)
    <3>1. CASE t \subseteq 1 .. k
      <4>1. u[t] = w[t] /\ w[t] = f(w, t)
        BY <2>1, <3>1, Zenon DEF IsFold
      <4>2. t \ {Greatest(t)} \subseteq 1 .. k /\ t \ {Greatest(t)} \in SUBSET (1 .. k + 1)
        BY <3>1, Zenon
      <4>3. u[t \ {Greatest(t)}] = w[t \ {Greatest(t)}]
        BY <4>2
      <4> HIDE DEF u
      <4> QED
        BY <4>1, <4>3
    <3>2. CASE ~(t \subseteq 1 .. k)
      <4>1. k + 1 \in t /\ t # {}
        BY <3>2
      <4>2. Greatest(t) = k + 1
        BY <4>1, GreatestIs
      <4>3. t \ {k + 1} \subseteq 1 .. k /\ t \ {k + 1} \in SUBSET (1 .. k + 1)
        OBVIOUS
      <4>4. u[t \ {k + 1}] = w[t \ {k + 1}] /\ u[t] = Fold(z, w[t \ {k + 1}], l[k + 1])
        BY <3>2, <4>3
      <4> HIDE DEF u
      <4> QED
        BY <4>1, <4>2, <4>4
    <3> QED
      BY <3>1, <3>2
  <2>3. u = [t \in SUBSET (1 .. k + 1) |-> u[t]]
    OBVIOUS
  <2> HIDE DEF u
  <2>4. u = [t \in SUBSET (1 .. k + 1) |-> f(u, t)]
    BY <2>2, <2>3, Zenon
  <2> QED
    <3>1. IsFold(u, z, l, 1 .. k + 1)
      BY <2>4, Zenon DEF IsFold
    <3> QED
      BY <3>1
<1>3. Nat \subseteq held
  <2> HIDE DEF held
  <2> QED
    BY <1>1, <1>2, NatSetInduction
<1> QED
  BY <1>3

UpTo(n) == [k \in 1 .. n |-> k]

LEMMA BoardsAre ==
  ASSUME NEW T, T = 1 .. 9
  PROVE  \E w : IsFold(w, DRAW, UpTo(9), T) /\ Boards = w[T]
<1> DEFINE l == [k \in 1 .. 9 |-> k]
           Is(w) == w = [t \in SUBSET DOMAIN l |->
                           IF t = {} THEN <<{Empty}>>
                           ELSE Append(w[t \ {Greatest(t)}], UNION {After(b) : b \in w[t \ {Greatest(t)}][l[Greatest(t)]]})]
<1>1. DOMAIN l = T
  OBVIOUS
<1>2. Boards = (CHOOSE w : Is(w))[DOMAIN l]
  BY DEF Boards, FoldLeft, MapThenFoldSet, Max, Greatest
<1>3. \A w : Is(w) <=> IsFold(w, DRAW, UpTo(9), T)
  BY <1>1, Zenon DEF IsFold, Start, Fold, UpTo
<1> HIDE DEF Is, l
<1>4. Is(CHOOSE w : Is(w))
  BY <1>3, FoldExists
<1> QED
  BY <1>1, <1>2, <1>3, <1>4, Zenon

LEMMA ScoresAre ==
  ASSUME NEW T, T = 1 .. 10, NEW p \in Players
  PROVE  \E w : IsFold(w, p, FromTheEnd, T) /\ Scores(p) = w[T]
<1> DEFINE l == FromTheEnd
           Is(w) == w = [t \in SUBSET DOMAIN l |->
                           IF t = {} THEN <<>>
                           ELSE [b \in Boards[l[Greatest(t)]] \union DOMAIN w[t \ {Greatest(t)}] |->
                                   IF b \in Boards[l[Greatest(t)]] THEN Score(b, p, w[t \ {Greatest(t)}])
                                   ELSE w[t \ {Greatest(t)}][b]]]
<1>1. DOMAIN l = T
  BY DEF FromTheEnd
<1>2. Scores(p) = (CHOOSE w : Is(w))[DOMAIN l]
  BY DEF Scores, FoldLeft, MapThenFoldSet, Max, Greatest
<1>3. \A w : Is(w) <=> IsFold(w, p, FromTheEnd, T)
  <2>1. p # DRAW
    BY DEF DRAW, Players, X, O
  <2> QED
    BY <1>1, <2>1, Zenon DEF IsFold, Start, Fold
<1> HIDE DEF Is, l
<1>4. Is(CHOOSE w : Is(w))
  BY <1>3, FoldExists
<1> QED
  BY <1>1, <1>2, <1>3, <1>4, Zenon
(* What the folds have, place after place.                                  *)
IsRun(r, z, l, n, w) ==
    /\ r[0] = Start(z) /\ r[n] = w[1 .. n]
    /\ \A k \in 0 .. n - 1 : r[k + 1] = Fold(z, r[k], l[k + 1])

LEMMA OneByOne ==
  ASSUME NEW z, NEW l, NEW n \in Nat, NEW w, IsFold(w, z, l, 1 .. n)
  PROVE  \E r : IsRun(r, z, l, n, w)
<1> DEFINE r == [k \in 0 .. n |-> w[1 .. k]]
<1>4. r[0] = Start(z)
  <2>1. 1 .. 0 = {} /\ {} \in SUBSET (1 .. n) /\ 0 \in 0 .. n
    <3>1. \A j : j \notin 1 .. 0
      OBVIOUS
    <3>2. 1 .. 0 = {}
      BY <3>1
    <3>3. {} \in SUBSET (1 .. n)
      OBVIOUS
    <3>4. 0 \in 0 .. n
      OBVIOUS
    <3> QED
      BY <3>2, <3>3, <3>4
  <2>2. w[{}] = Start(z)
    BY <2>1 DEF IsFold
  <2> QED
    BY <2>1, <2>2
<1>5. ASSUME NEW k \in 0 .. n - 1 PROVE r[k + 1] = Fold(z, r[k], l[k + 1])
  <2>1. /\ k \in Nat /\ k \in 0 .. n /\ k + 1 \in 0 .. n /\ 1 .. k + 1 \in SUBSET (1 .. n)
        /\ 1 .. k + 1 # {} /\ (1 .. k + 1) \ {k + 1} = 1 .. k
    <3>1. k \in Nat /\ k \in 0 .. n /\ k + 1 \in 0 .. n
      OBVIOUS
    <3>2. \A j \in 1 .. k + 1 : j \in 1 .. n
      BY <3>1
    <3>3. k + 1 \in 1 .. k + 1 /\ \A j : j \in (1 .. k + 1) \ {k + 1} <=> j \in 1 .. k
      BY <3>1
    <3> QED
      BY <3>1, <3>2, <3>3, Zenon
  <2>2. Greatest(1 .. k + 1) = k + 1
    BY <2>1, GreatestIs
  <2>3. w[1 .. k + 1] = Fold(z, w[1 .. k], l[k + 1])
    BY <2>1, <2>2, Zenon DEF IsFold
  <2> QED
    BY <2>1, <2>3
<1>6. r[n] = w[1 .. n]
  OBVIOUS
<1> HIDE DEF r
<1>7. IsRun(r, z, l, n, w)
  BY <1>4, <1>5, <1>6 DEF IsRun
<1> QED
  BY <1>7

-----------------------------------------------------------------------------
(* The boards of a game, by the number of cells that are not free.          *)
Layer(k) == {b \in BoardSet : Cardinality(Free(b)) = 10 - k}

LEMMA FreeFinite ==
  ASSUME NEW b
  PROVE  /\ IsFiniteSet(Free(b)) /\ Cardinality(Free(b)) \in Nat
         /\ Cardinality(Free(b)) = 0 <=> Free(b) = {}
         /\ Turn(b) \in Players
<1>1. IsFiniteSet(Cells)
  <2>1. 0 \in Int /\ 8 \in Int
    OBVIOUS
  <2>2. IsFiniteSet(0 .. 8)
    BY <2>1, FS_Interval, Zenon
  <2> QED
    BY <2>2 DEF Cells
<1>2. Free(b) \in SUBSET Cells
  BY DEF Free
<1>3. IsFiniteSet(Free(b))
  BY <1>1, <1>2, FS_Subset
<1> QED
  BY <1>3, FS_CardinalityType, FS_EmptySet DEF Turn, Players, X, O

LEMMA PutFrees ==
  ASSUME NEW k \in 1 .. 10, NEW b \in Layer(k), NEW c \in Free(b), NEW p \in Players
  PROVE  /\ k \in 1 .. 9 /\ Put(b, c, p) \in Layer(k + 1)
         /\ Turn(Put(b, c, p)) = 1 - Turn(b)
<1> DEFINE a == Put(b, c, p)
<1>1. b \in BoardSet /\ c \in Cells /\ Cardinality(Free(b)) = 10 - k
  BY DEF Layer, Free
<1>2. a \in BoardSet /\ (\A d \in Cells \ {c} : a[d] = b[d]) /\ a[c] = p
  <2> HIDE DEF Players, X, O, NEUTRAL
  <2> QED
    BY <1>1, PutFacts
<1>3. p # NEUTRAL
  BY DEF Players, X, O, NEUTRAL
<1> HIDE DEF a
<1>4. Free(a) = Free(b) \ {c}
  BY <1>2, <1>3, Zenon DEF Free
<1>5. Cardinality(Free(a)) = Cardinality(Free(b)) - 1 /\ Cardinality(Free(a)) \in Nat
  BY <1>4, FreeFinite, FS_RemoveElement
<1>6. k \in 1 .. 9 /\ a \in Layer(k + 1)
  BY <1>1, <1>2, <1>5 DEF Layer
<1>7. Turn(a) = 1 - Turn(b)
  BY <1>1, <1>5 DEF Turn, X, O
<1> QED
  BY <1>6, <1>7 DEF a

LEMMA AfterIs ==
  ASSUME NEW k \in 1 .. 10, NEW b \in Layer(k), NEW a \in After(b)
  PROVE  k \in 1 .. 9 /\ a \in Layer(k + 1) /\ \E c \in Free(b) : a = Put(b, c, Turn(b))
<1>1. PICK c \in Free(b) : a = Put(b, c, Turn(b))
  BY DEF After
<1> QED
  BY <1>1, PutFrees, FreeFinite

(* Boards[1] is the empty board alone, and each of the others is what the   *)
(* boards before it lead to.                                                *)
LEMMA BoardsFollow ==
  /\ Boards[1] = {Empty}
  /\ \A k \in 1 .. 9 : Boards[k + 1] = UNION {After(b) : b \in Boards[k]}
  /\ \A k \in 1 .. 10 : Boards[k] \subseteq Layer(k)
<1> DEFINE U == SUBSET BoardSet
<1>1. PICK w : IsFold(w, DRAW, UpTo(9), 1 .. 9) /\ Boards = w[1 .. 9]
  BY BoardsAre
<1>2. PICK r : IsRun(r, DRAW, UpTo(9), 9, w)
  BY <1>1, OneByOne
<1>3. r[0] = <<{Empty}>>
  BY <1>2 DEF Start, IsRun
<1>4. \A k \in 0 .. 8 : r[k + 1] = Append(r[k], UNION {After(b) : b \in r[k][k + 1]})
  <2>1. \A k \in 0 .. 8 : UpTo(9)[k + 1] = k + 1
    BY DEF UpTo
  <2>2. \A s, k : Fold(DRAW, s, k) = Append(s, UNION {After(b) : b \in s[k]})
    BY Zenon DEF Fold
  <2> QED
    <3>1. ASSUME NEW k \in 0 .. 8 PROVE r[k + 1] = Fold(DRAW, r[k], UpTo(9)[k + 1])
      <4>1. k \in 0 .. 9 - 1
        OBVIOUS
      <4> QED
        BY <1>2, <4>1 DEF IsRun
    <3> QED
      BY <2>1, <2>2, <3>1, Zenon
<1>5. Empty \in Layer(1)
  <2>1. Empty \in BoardSet /\ Free(Empty) = 0 .. 8
    BY DEF Empty, BoardSet, Marks, Free, Cells
  <2>2. Cardinality(0 .. 8) = 9
    <3> DEFINE n == 8
    <3>1. 0 \in Int /\ n \in Int /\ ~(0 > n) /\ n - 0 + 1 = 9
      OBVIOUS
    <3> HIDE DEF n
    <3>2. Cardinality(0 .. n) = n - 0 + 1
      BY <3>1, FS_Interval
    <3> QED
      BY <3>1, <3>2 DEF n
  <2> QED
    BY <2>1, <2>2 DEF Layer
<1> DEFINE Good(k) == /\ r[k] \in Seq(U) /\ Len(r[k]) = k + 1
                      /\ r[k][1] = {Empty}
                      /\ \A j \in 1 .. k + 1 : r[k][j] \subseteq Layer(j)
                      /\ \A j \in 1 .. k : r[k][j + 1] = UNION {After(b) : b \in r[k][j]}
           held == {k \in Nat : k <= 9 => Good(k)}
<1>6. 0 \in held
  <2>1. {Empty} \in U /\ {Empty} \subseteq Layer(1)
    BY <1>5 DEF Layer
  <2>2. Good(0)
    BY <1>3, <2>1
  <2> QED
    BY <2>2
<1>7. ASSUME NEW k \in Nat, k \in held PROVE k + 1 \in held
  <2> SUFFICES ASSUME k + 1 <= 9 PROVE Good(k + 1)
    OBVIOUS
  <2>1. Good(k) /\ k \in 0 .. 8 /\ k + 1 \in 1 .. 10
    BY <1>7
  <2> DEFINE s == r[k]
             x == UNION {After(b) : b \in s[k + 1]}
  <2>2. x \subseteq Layer(k + 2)
    <3>1. ASSUME NEW b \in s[k + 1], NEW a \in After(b) PROVE a \in Layer(k + 2)
      <4>1. b \in Layer(k + 1)
        BY <2>1
      <4>2. a \in Layer(k + 1 + 1)
        BY <2>1, <4>1, AfterIs, Zenon
      <4> QED
        BY <4>2
    <3> QED
      BY <3>1
  <2>3. x \in U
    BY <2>2 DEF Layer
  <2>4. r[k + 1] = Append(s, x) /\ s \in Seq(U) /\ Len(s) = k + 1
    BY <1>4, <2>1
  <2> HIDE DEF U, s, x
  <2>5. /\ r[k + 1] \in Seq(U) /\ Len(r[k + 1]) = k + 2 /\ r[k + 1][k + 2] = x
        /\ \A j \in 1 .. k + 1 : r[k + 1][j] = s[j]
    BY <2>3, <2>4
  <2>6. r[k + 1][1] = {Empty}
    BY <2>1, <2>5 DEF s
  <2>7. \A j \in 1 .. k + 1 + 1 : r[k + 1][j] \subseteq Layer(j)
    BY <2>1, <2>2, <2>5 DEF s
  <2>8. \A j \in 1 .. k + 1 : r[k + 1][j + 1] = UNION {After(b) : b \in r[k + 1][j]}
    <3>1. ASSUME NEW j \in 1 .. k PROVE r[k + 1][j + 1] = UNION {After(b) : b \in r[k + 1][j]}
      <4>1. j \in 1 .. k + 1 /\ j + 1 \in 1 .. k + 1
        BY <2>1
      <4> QED
        BY <2>1, <2>5, <4>1 DEF s
    <3>2. r[k + 1][k + 1 + 1] = UNION {After(b) : b \in r[k + 1][k + 1]}
      <4>1. r[k + 1][k + 1] = s[k + 1] /\ k + 1 + 1 = k + 2
        BY <2>1, <2>5
      <4> QED
        BY <2>5, <4>1 DEF x
    <3> QED
      BY <3>1, <3>2, <2>1
  <2> QED
    BY <2>5, <2>6, <2>7, <2>8 DEF U
<1>8. Good(9)
  <2> HIDE DEF Good
  <2>1. Nat \subseteq held
    <3> HIDE DEF held
    <3> QED
      BY <1>6, <1>7, NatSetInduction
  <2> QED
    BY <2>1
<1>9. Boards = r[9]
  BY <1>1, <1>2 DEF IsRun
<1>10. \A k \in 1 .. 10 : k \in 1 .. 9 + 1
  OBVIOUS
<1> QED
  BY <1>8, <1>9, <1>10

-----------------------------------------------------------------------------
(* The values that the search gives to the boards.                         *)

(* A function on a finite set has a greatest value.                         *)
LEMMA Attained ==
  ASSUME NEW S, IsFiniteSet(S), S # {}, NEW f \in [S -> Int]
  PROVE  \E x \in S : \A y \in S : f[y] <= f[x]
<1> DEFINE Has(T) == \E x \in T : \A y \in T : f[y] <= f[x]
           held == {n \in Nat : \A T \in SUBSET S : Cardinality(T) = n + 1 => Has(T)}
<1>1. ASSUME NEW T \in SUBSET S, NEW x \in T
      PROVE  /\ IsFiniteSet(T) /\ Cardinality(T) \in Nat
             /\ Cardinality(T \ {x}) = Cardinality(T) - 1
             /\ Cardinality(T) # 0
  <2>1. IsFiniteSet(T)
    BY FS_Subset
  <2> QED
    BY <2>1, FS_RemoveElement, FS_CardinalityType, FS_EmptySet
<1>2. 0 \in held
  <2>1. ASSUME NEW T \in SUBSET S, Cardinality(T) = 1 PROVE Has(T)
    <3>1. T # {}
      BY <2>1, FS_EmptySet
    <3>2. PICK x \in T : TRUE
      BY <3>1
    <3>3. IsFiniteSet(T \ {x}) /\ Cardinality(T \ {x}) = 0
      BY <1>1, <2>1, FS_Subset
    <3>4. T = {x}
      BY <3>2, <3>3, FS_EmptySet
    <3>5. f[x] \in Int
      OBVIOUS
    <3> QED
      BY <3>4, <3>5
  <2> HIDE DEF Has
  <2> QED
    BY <2>1
<1>3. ASSUME NEW n \in Nat, n \in held PROVE n + 1 \in held
  <2>1. ASSUME NEW T \in SUBSET S, Cardinality(T) = n + 1 + 1 PROVE Has(T)
    <3>1. T # {}
      BY <2>1, FS_EmptySet
    <3>2. PICK x \in T : TRUE
      BY <3>1
    <3>3. Cardinality(T \ {x}) = n + 1
      BY <1>1, <2>1
    <3>4. PICK z \in T \ {x} : \A y \in T \ {x} : f[y] <= f[z]
      BY <1>3, <3>3
    <3>5. f[x] \in Int /\ f[z] \in Int /\ \A y \in T : f[y] \in Int
      OBVIOUS
    <3> QED
      BY <3>4, <3>5
  <2> HIDE DEF Has
  <2> QED
    BY <2>1
<1>4. Nat \subseteq held
  <2> HIDE DEF held
  <2> QED
    BY <1>2, <1>3, NatSetInduction
<1>5. Cardinality(S) - 1 \in Nat /\ S \in SUBSET S
  BY <1>1, FS_CardinalityType, FS_EmptySet
<1>6. Has(S)
  <2> HIDE DEF Has
  <2> QED
    <3>1. Cardinality(S) = Cardinality(S) - 1 + 1 /\ Cardinality(S) - 1 \in held
      BY <1>4, <1>5, FS_CardinalityType
    <3> QED
      BY <1>5, <3>1
<1> QED
  BY <1>6

LEMMA Extremes ==
  ASSUME NEW S, IsFiniteSet(S), S # {}, NEW f \in [S -> Int], NEW V, V = {f[x] : x \in S}
  PROVE  /\ Max(V) \in V /\ \A x \in S : f[x] <= Max(V)
         /\ Min(V) \in V /\ \A x \in S : Min(V) <= f[x]
<1> DEFINE g == [x \in S |-> -f[x]]
<1>1. g \in [S -> Int]
  OBVIOUS
<1>2. PICK x \in S : \A y \in S : f[y] <= f[x]
  BY Attained
<1>3. PICK z \in S : \A y \in S : g[y] <= g[z]
  <2> HIDE DEF g
  <2> QED
    BY <1>1, Attained
<1>4. \A y \in S : f[z] <= f[y]
  BY <1>3
<1>5. f[x] \in V /\ \A y \in V : f[x] >= y
  BY <1>2
<1>6. f[z] \in V /\ \A y \in V : f[z] <= y
  BY <1>4
<1>7. Max(V) \in V /\ \A y \in V : Max(V) >= y
  BY <1>5 DEF Max
<1>8. Min(V) \in V /\ \A y \in V : Min(V) <= y
  BY <1>6 DEF Min
<1>9. \A y \in S : f[y] \in V
  OBVIOUS
<1>10. V \subseteq Int
  OBVIOUS
<1> QED
  BY <1>7, <1>8, <1>9, <1>10

LEMMA ScoreLocal ==
  ASSUME NEW b, NEW p, NEW t, NEW u, \A a \in After(b) : t[a] = u[a]
  PROVE  Score(b, p, t) = Score(b, p, u)
<1>1. {Deeper(t[a]) : a \in After(b)} = {Deeper(u[a]) : a \in After(b)}
  OBVIOUS
<1> QED
  BY <1>1, Zenon DEF Score

(* The values after b are those of its moves, and the score is one of them. *)
LEMMA ScoreIs ==
  ASSUME NEW b, NEW p \in Players, NEW t, \A a \in After(b) : t[a] \in Int,
         Evaluate(b, p) = 0, Free(b) # {}
  PROVE  /\ Score(b, p, t) \in Int
         /\ Turn(b) = p => \E a \in After(b) : Score(b, p, t) = Deeper(t[a])
         /\ Turn(b) # p => \A a \in After(b) : Score(b, p, t) <= Deeper(t[a])
<1> DEFINE f == [c \in Free(b) |-> Deeper(t[Put(b, c, Turn(b))])]
           V == {Deeper(t[a]) : a \in After(b)}
<1>1. \A c \in Free(b) : Put(b, c, Turn(b)) \in After(b)
  BY DEF After
<1>2. \A a \in After(b) : Deeper(t[a]) \in Int
  BY DEF Deeper
<1>3. f \in [Free(b) -> Int]
  BY <1>1, <1>2
<1>4. V = {f[c] : c \in Free(b)}
  BY DEF After
<1> HIDE DEF f
<1>5. /\ Max(V) \in V
      /\ Min(V) \in V /\ \A c \in Free(b) : Min(V) <= f[c]
  <2> HIDE DEF V
  <2> QED
    BY <1>3, <1>4, FreeFinite, Extremes, Zenon
<1>6. Score(b, p, t) = IF Turn(b) = p THEN Max(V) ELSE Min(V)
  BY Zenon DEF Score
<1>7. \A y \in V : \E c \in Free(b) : y = f[c]
  BY <1>4
<1>8. ASSUME NEW a \in After(b) PROVE Min(V) <= Deeper(t[a])
  <2>1. Deeper(t[a]) \in V
    OBVIOUS
  <2> HIDE DEF V
  <2> QED
    BY <1>5, <1>7, <2>1
<1>9. V \subseteq Int
  BY <1>2
<1> QED
  BY <1>5, <1>6, <1>8, <1>9

LEMMA ScoreInt ==
  ASSUME NEW b, NEW p \in Players, NEW t, \A a \in After(b) : t[a] \in Int
  PROVE  Score(b, p, t) \in Int
<1>1. CASE Evaluate(b, p) # 0
  <2>1. Score(b, p, t) = Evaluate(b, p)
    BY <1>1, Zenon DEF Score
  <2> QED
    BY <2>1 DEF Evaluate
<1>2. CASE Evaluate(b, p) = 0 /\ Free(b) = {}
  <2>1. Score(b, p, t) = 0
    BY <1>2, Zenon DEF Score
  <2> QED
    BY <2>1
<1>3. CASE Evaluate(b, p) = 0 /\ Free(b) # {}
  BY <1>3, ScoreIs
<1> QED
  BY <1>1, <1>2, <1>3

(* The table that Scores builds from the full boards to the empty one has   *)
(* the value of every board, computed from those of the boards after it.    *)
Right(p, t, k) == \A b \in Boards[k] : b \in DOMAIN t /\ t[b] \in Int /\ t[b] = Score(b, p, t)

LEMMA ScoresRight == ASSUME NEW p \in Players PROVE \A k \in 1 .. 10 : Right(p, Scores(p), k)
<1>1. PICK w : IsFold(w, p, FromTheEnd, 1 .. 10) /\ Scores(p) = w[1 .. 10]
  BY ScoresAre
<1>2. PICK r : IsRun(r, p, FromTheEnd, 10, w)
  BY <1>1, OneByOne
<1>3. \A k \in 0 .. 9 : r[k + 1] = Fold(p, r[k], 10 - k)
  <2>1. ASSUME NEW k \in 0 .. 9 PROVE r[k + 1] = Fold(p, r[k], FromTheEnd[k + 1])
    <3>1. k \in 0 .. 10 - 1
      OBVIOUS
    <3> QED
      BY <1>2, <3>1 DEF IsRun
  <2>2. \A k \in 0 .. 9 : FromTheEnd[k + 1] = 10 - k
    BY DEF FromTheEnd
  <2> QED
    BY <2>1, <2>2, Zenon
<1> DEFINE Good(k) == \A j \in 11 - k .. 10 : Right(p, r[k], j)
           held == {k \in Nat : k <= 10 => Good(k)}
<1>4. 0 \in held
  OBVIOUS
<1>5. ASSUME NEW k \in Nat, k \in held PROVE k + 1 \in held
  <2> SUFFICES ASSUME k + 1 <= 10, NEW j \in 10 - k .. 10 PROVE Right(p, r[k + 1], j)
    <3>1. 11 - (k + 1) = 10 - k
      OBVIOUS
    <3> QED
      BY <3>1
  <2> DEFINE m == 10 - k
             s == r[k]
             u == r[k + 1]
  <2>1. m \in 1 .. 10 /\ k \in 0 .. 9
    OBVIOUS
  <2>2. u = [b \in Boards[m] \union DOMAIN s |-> IF b \in Boards[m] THEN Score(b, p, s) ELSE s[b]]
    <3>1. p # DRAW
      BY DEF Players, X, O, DRAW
    <3>2. u = Fold(p, s, m)
      BY <1>3, <2>1
    <3> QED
      BY <3>1, <3>2, Zenon DEF Fold
  <2>3. ASSUME NEW i \in m + 1 .. 10 PROVE Right(p, s, i)
    <3>1. i \in 11 - k .. 10
      OBVIOUS
    <3> QED
      BY <1>5, <3>1
  <2> HIDE DEF u, s
  <2>4. ASSUME NEW i \in m + 1 .. 10, NEW b \in Boards[i] PROVE b \in DOMAIN u /\ u[b] = s[b]
    <3>1. b \notin Boards[m]
      <4>1. i \in 1 .. 10 /\ i # m
        BY <2>1
      <4>2. b \in Layer(i)
        BY <4>1, BoardsFollow
      <4>3. b \notin Layer(m)
        BY <2>1, <4>1, <4>2 DEF Layer
      <4> QED
        BY <2>1, <4>3, BoardsFollow
    <3>2. b \in DOMAIN s
      BY <2>3, <2>4 DEF Right
    <3> HIDE DEF m
    <3> QED
      BY <2>2, <3>1, <3>2
  <2>5. ASSUME NEW b \in Boards[m] PROVE b \in DOMAIN u /\ u[b] = Score(b, p, s)
    BY <2>2, <2>5
  <2>6. ASSUME NEW i \in m .. 10, NEW b \in Boards[i], NEW a \in After(b)
        PROVE  u[a] = s[a] /\ s[a] \in Int
    <3>1. i \in 1 .. 10
      BY <2>1
    <3>2. b \in Layer(i)
      BY <3>1, BoardsFollow
    <3>3. i \in 1 .. 9
      BY <3>1, <3>2, AfterIs
    <3>4. a \in Boards[i + 1] /\ i + 1 \in m + 1 .. 10
      BY <2>1, <3>3, BoardsFollow
    <3> QED
      BY <2>3, <2>4, <3>4 DEF Right
  <2>7. ASSUME NEW i \in m .. 10, NEW b \in Boards[i]
        PROVE  Score(b, p, u) = Score(b, p, s) /\ Score(b, p, s) \in Int
    <3>1. \A a \in After(b) : u[a] = s[a] /\ s[a] \in Int
      BY <2>6, <2>7
    <3> QED
      BY <3>1, ScoreLocal, ScoreInt
  <2>8. ASSUME NEW b \in Boards[j] PROVE b \in DOMAIN u /\ u[b] \in Int /\ u[b] = Score(b, p, u)
    <3>1. CASE j = m
      BY <2>5, <2>7, <2>8, <3>1
    <3>2. CASE j # m
      <4>1. j \in m + 1 .. 10 /\ j \in m .. 10
        BY <3>2
      <4> QED
        BY <2>3, <2>4, <2>7, <2>8, <4>1 DEF Right
    <3> QED
      BY <3>1, <3>2
  <2> QED
    BY <2>8 DEF Right, u
<1>6. Good(10)
  <2> HIDE DEF Good
  <2>1. Nat \subseteq held
    <3> HIDE DEF held
    <3> QED
      BY <1>4, <1>5, NatSetInduction
  <2> QED
    BY <2>1
<1>7. r[10] = Scores(p)
  BY <1>1, <1>2 DEF IsRun
<1>8. \A k \in 1 .. 10 : k \in 11 - 10 .. 10
  OBVIOUS
<1> QED
  BY <1>6, <1>7, <1>8

Game == UNION {Boards[k] : k \in 1 .. 10}

LEMMA GameGoesOn ==
  /\ Empty \in Game
  /\ \A b \in Game : /\ b \in BoardSet /\ After(b) \subseteq Game
                     /\ \A a \in After(b) : Turn(a) = 1 - Turn(b)
<1>1. Empty \in Game
  <2>1. 1 \in 1 .. 10 /\ Empty \in Boards[1]
    BY BoardsFollow
  <2> QED
    BY <2>1 DEF Game
<1>2. ASSUME NEW k \in 1 .. 10, NEW b \in Boards[k], NEW a \in After(b)
      PROVE  a \in Game /\ Turn(a) = 1 - Turn(b)
  <2>1. b \in Layer(k)
    BY BoardsFollow
  <2>2. k \in 1 .. 9 /\ \E c \in Free(b) : a = Put(b, c, Turn(b))
    BY <2>1, AfterIs
  <2>3. a \in Boards[k + 1] /\ k + 1 \in 1 .. 10
    BY <2>2, BoardsFollow
  <2>4. Turn(a) = 1 - Turn(b)
    BY <2>1, <2>2, PutFrees, FreeFinite
  <2> QED
    BY <2>3, <2>4 DEF Game
<1>3. \A k \in 1 .. 10 : Boards[k] \subseteq BoardSet
  BY BoardsFollow DEF Layer
<1> QED
  BY <1>1, <1>2, <1>3 DEF Game

(* What a value of 0 or more says of a board, and what it does not.         *)
LEMMA MinimaxIs ==
  ASSUME NEW p \in Players, NEW b \in Game
  PROVE  /\ Minimax(b, p) \in Int
         /\ Wins(b, 1 - p) /\ ~Wins(b, p) => Minimax(b, p) < 0
         /\ ~Wins(b, 1 - p) /\ ~Wins(b, p) /\ Free(b) # {} /\ Minimax(b, p) >= 0 =>
              IF Turn(b) = p THEN \E a \in After(b) : Minimax(a, p) >= 0
              ELSE \A a \in After(b) : Minimax(a, p) >= 0
<1> DEFINE t == Scores(p)
<1>1. \A a : Minimax(a, p) = t[a]
  BY DEF Minimax, ScoresOfX, ScoresOfO, Players, X, O
<1>2. \A a \in Game : t[a] \in Int /\ t[a] = Score(a, p, t)
  BY ScoresRight DEF Right, Game
<1> HIDE DEF t
<1>3. ASSUME Wins(b, 1 - p), ~Wins(b, p) PROVE t[b] < 0
  <2>1. Evaluate(b, p) = -10
    BY <1>3 DEF Evaluate
  <2>2. Score(b, p, t) = Evaluate(b, p)
    BY <2>1, SMT DEF Score
  <2> QED
    BY <1>2, <2>1, <2>2
<1>4. ASSUME ~Wins(b, 1 - p), ~Wins(b, p), Free(b) # {}, t[b] >= 0
      PROVE  IF Turn(b) = p THEN \E a \in After(b) : t[a] >= 0
             ELSE \A a \in After(b) : t[a] >= 0
  <2>1. Evaluate(b, p) = 0
    BY <1>4 DEF Evaluate
  <2>2. \A a \in After(b) : t[a] \in Int
    BY <1>2, GameGoesOn
  <2>3. /\ Turn(b) = p => \E a \in After(b) : t[b] = Deeper(t[a])
        /\ Turn(b) # p => \A a \in After(b) : t[b] <= Deeper(t[a])
    BY <1>2, <1>4, <2>1, <2>2, ScoreIs
  <2>4. \A v \in Int : Deeper(v) >= 0 => v >= 0
    BY DEF Deeper
  <2>5. \A v \in Int : Deeper(v) \in Int
    BY DEF Deeper
  <2> QED
    BY <1>2, <1>4, <2>2, <2>3, <2>4, <2>5
<1> QED
  BY <1>1, <1>2, <1>3, <1>4

(* Of moves one of which does not lose, BestMove is one that does not lose. *)
LEMMA BestMoveIs ==
  ASSUME NEW p \in Players, NEW b \in Game, Turn(b) = p,
         \E a \in After(b) : Minimax(a, p) >= 0
  PROVE  BestMove(b, p) \in Free(b) /\ Minimax(Put(b, BestMove(b, p), p), p) >= 0
<1> DEFINE value == [c \in Free(b) |-> Minimax(Put(b, c, p), p)]
           best == {c \in Free(b) : \A d \in Free(b) : value[d] <= value[c]}
<1>1. After(b) = {Put(b, c, p) : c \in Free(b)}
  BY DEF After
<1>2. value \in [Free(b) -> Int]
  BY <1>1, GameGoesOn, MinimaxIs
<1>3. PICK d \in Free(b) : value[d] >= 0
  BY <1>1
<1>4. BestMove(b, p) = Min(best)
  BY DEF BestMove
<1>5. \A c \in Free(b) : value[c] = Minimax(Put(b, c, p), p)
  OBVIOUS
<1> HIDE DEF value
<1>6. best # {}
  BY <1>2, <1>3, FreeFinite, Attained
<1>7. Min(best) \in best
  <2> DEFINE f == [c \in best |-> c]
  <2>1. IsFiniteSet(best)
    BY FreeFinite, FS_Subset
  <2>2. best \subseteq Int
    BY DEF Free, Cells
  <2>3. f \in [best -> Int] /\ best = {f[c] : c \in best}
    BY <2>2
  <2> HIDE DEF best, f
  <2> QED
    BY <1>6, <2>1, <2>3, Extremes
<1>8. Min(best) \in Free(b) /\ value[d] <= value[Min(best)]
  BY <1>7
<1>9. value[Min(best)] \in Int /\ value[d] \in Int
  BY <1>2, <1>8
<1>10. value[Min(best)] >= 0
  BY <1>3, <1>8, <1>9
<1> HIDE DEF best
<1> QED
  BY <1>4, <1>5, <1>8, <1>10

-----------------------------------------------------------------------------
(* The games.                                                               *)

(* No PlayerStrategy is on a board that its own search finds lost; the move *)
(* that it is about to make leads to none, and nobody has been blamed.      *)
Safe(b, p) == b \in Game /\ Minimax(b, p) >= 0

Unbeaten ==
    /\ pc # "exited" =>
         /\ board \in Game /\ blamed = NEUTRAL
         /\ \A p \in ours : Safe(board, p)
    /\ pc \in {"move", "place"} => curr_player = Turn(board) /\ Free(board) # {}
    /\ pc \in {"tell", "judge"} => other = Turn(board)
    /\ pc = "place" /\ curr_player \in ours =>
         move \in Free(board) /\ Safe(Put(board, move, curr_player), curr_player)
    /\ pc = "exited" => \A p \in ours : result # 1 - p /\ blamed # p

LEMMA UnbeatenInit == Init => Unbeaten
<1> SUFFICES ASSUME Init PROVE Unbeaten
  OBVIOUS
<1>1. Empty \in Game /\ \A p \in Players : Safe(Empty, p)
  BY GameGoesOn, EmptyIsNotLost DEF Safe
<1>2. Free(Empty) = Cells /\ Free(Empty) # {}
  BY DEF Free, Empty, Cells
<1>3. Turn(Empty) = X
  <2>1. Cardinality(Free(Empty)) = 9
    <3> DEFINE n == 8
    <3>1. 0 \in Int /\ n \in Int /\ ~(0 > n) /\ n - 0 + 1 = 9
      OBVIOUS
    <3> HIDE DEF n
    <3>2. Cardinality(0 .. n) = n - 0 + 1
      BY <3>1, FS_Interval
    <3> QED
      BY <1>2, <3>1, <3>2 DEF n, Cells
  <2> QED
    BY <2>1 DEF Turn
<1> QED
  BY <1>1, <1>2, <1>3 DEF Init, Unbeaten

LEMMA UnbeatenNext == GameInv /\ Judged /\ Unbeaten /\ [Next]_vars => Unbeaten'
<1> SUFFICES ASSUME GameInv, Judged, Unbeaten, [Next]_vars PROVE Unbeaten'
  OBVIOUS
<1>1. /\ ours \subseteq Players /\ curr_player \in Players /\ board \in BoardSet
      /\ other \in Players /\ other = 1 - curr_player /\ other # curr_player
  BY DEF GameInv, GameTypeOK, other
<1>2. CASE UNCHANGED vars
  BY <1>2 DEF vars, Unbeaten, other
<1>3. ASSUME NEW p \in Players \ ours, Fail(p) PROVE Unbeaten'
  BY <1>1, <1>3 DEF Fail, Return, Unbeaten
<1>4. CASE MakeMove
  <2> DEFINE p == curr_player
             m == BestMove(board, p)
  <2>1. /\ pc = "move" /\ pc' = "place" /\ p \in ours /\ move' = BestMove(boards[p], p)
        /\ UNCHANGED <<ours, board, curr_player, blamed>>
    BY <1>4 DEF MakeMove
  <2>2. move' = m
    BY <2>1 DEF GameInv, Agreement, BoardsAgree
  <2>3. /\ p \in Players /\ Safe(board, p) /\ Turn(board) = p /\ Free(board) # {}
        /\ ~Wins(board, p) /\ ~Wins(board, 1 - p)
    BY <1>1, <2>1 DEF Unbeaten, Judged, Winners
  <2>4. \E a \in After(board) : Minimax(a, p) >= 0
    BY <2>3, MinimaxIs DEF Safe
  <2>5. m \in Free(board) /\ Minimax(Put(board, m, p), p) >= 0
    BY <2>3, <2>4, BestMoveIs DEF Safe
  <2> HIDE DEF m
  <2>6. Put(board, m, p) \in Game
    BY <2>3, <2>5, GameGoesOn DEF Safe, After
  <2> QED
    BY <2>1, <2>2, <2>5, <2>6 DEF Unbeaten, Safe
<1>5. CASE ForeignMakeMove
  BY <1>5 DEF ForeignMakeMove, Unbeaten
<1>6. CASE Place
  <2>1. CASE move \in Free(board)
    <3> DEFINE a == Put(board, move, curr_player)
    <3>1. /\ pc = "place" /\ pc' = "tell" /\ board' = a
          /\ UNCHANGED <<ours, curr_player, move, blamed>>
      BY <1>6, <2>1 DEF Place
    <3>2. /\ Turn(board) = curr_player /\ Free(board) # {} /\ blamed = NEUTRAL
          /\ \A p \in ours : Safe(board, p)
          /\ board \in Game
          /\ \A p \in Players : ~Wins(board, p)
      BY <3>1 DEF Unbeaten, Judged, Winners
    <3>3. a \in After(board)
      BY <2>1, <3>2 DEF After
    <3>4. a \in Game /\ Turn(a) = other
      BY <1>1, <3>2, <3>3, GameGoesOn
    <3>5. ASSUME NEW p \in ours PROVE Safe(a, p)
      <4>1. CASE p = curr_player
        BY <3>1, <3>5, <4>1 DEF Unbeaten
      <4>2. CASE p # curr_player
        <5>1. p \in Players /\ 1 - p \in Players
          BY <1>1
        <5>2. \A x \in After(board) : Minimax(x, p) >= 0
          BY <3>2, <4>2, <5>1, MinimaxIs DEF Safe
        <5> QED
          BY <3>3, <3>4, <5>2 DEF Safe
      <4> QED
        BY <4>1, <4>2
    <3> HIDE DEF a
    <3> QED
      BY <3>1, <3>2, <3>4, <3>5 DEF Unbeaten, other
  <2>2. CASE move \notin Free(board)
    <3>1. Fail(curr_player) /\ pc = "place"
      BY <1>6, <2>2 DEF Place
    <3>2. curr_player \notin ours
      BY <2>2, <3>1 DEF Unbeaten
    <3> QED
      BY <1>1, <1>3, <3>1, <3>2
  <2> QED
    BY <2>1, <2>2
<1>7. CASE OpponentMove
  <2>1. pc = "tell" /\ other \in ours
    BY <1>7 DEF OpponentMove
  <2>2. move \in Free(boards[other])
    BY <2>1 DEF GameInv, Agreement, Behind
  <2> QED
    BY <1>7, <2>1, <2>2 DEF OpponentMove, Unbeaten, other
<1>8. CASE ForeignOpponentMove
  BY <1>8 DEF ForeignOpponentMove, Unbeaten, other
<1>9. CASE Judge
  <2>1. /\ pc = "judge" /\ UNCHANGED <<ours, board, blamed>>
        /\ board \in Game /\ blamed = NEUTRAL /\ other = Turn(board)
        /\ \A p \in ours : Safe(board, p)
        /\ Winners \subseteq {curr_player}
    BY <1>9 DEF Judge, Unbeaten, Judged
  <2>2. check_win(board) = IF Winners = {} THEN NEUTRAL ELSE curr_player
    BY <1>1, <2>1, CheckWin
  <2>3. CASE Winners = {}
    BY <1>1, <1>9, <2>1, <2>2, <2>3 DEF Judge, Return, Unbeaten, DRAW
  <2>4. CASE Winners = {curr_player}
    <3>1. pc' = "exited" /\ result' = curr_player
      BY <1>1, <1>9, <2>2, <2>4 DEF Judge, Return
    <3>2. Wins(board, curr_player) /\ ~Wins(board, other)
      BY <1>1, <2>4 DEF Winners
    <3>3. other \notin ours
      <4>1. Minimax(board, other) \in Int /\ Minimax(board, other) < 0
        <5>1. 1 - other = curr_player
          BY <1>1
        <5> QED
          BY <1>1, <2>1, <3>2, <5>1, MinimaxIs
      <4> QED
        BY <2>1, <4>1 DEF Safe
    <3> QED
      BY <1>1, <2>1, <3>1, <3>3 DEF Unbeaten
  <2> QED
    BY <2>1, <2>3, <2>4
<1> QED
  BY <1>1, <1>2, <1>3, <1>4, <1>5, <1>6, <1>7, <1>8, <1>9 DEF Next, ForeignThrows

(* PlayerStrategy loses to no library, legal or not, and is never the       *)
(* reason for -1, and two of them draw: BestMove and Minimax                *)
(* (PlayerStrategy.cpp 63-118) keep away from lost boards move after move.  *)
(* The empty board is not lost, which TLC computes (EmptyIsNotLost).        *)
THEOREM NeverBeaten == Spec => []NeverLoses
<1>1. Unbeaten /\ Judged /\ GameInv => NeverLoses
  BY DEF Unbeaten, Judged, GameInv, GameTypeOK, NeverLoses, DRAW
<1>2. Spec => []Judged
  BY JudgedInit, JudgedNext, GameInductive, PTL DEF Spec
<1> QED
  BY <1>1, <1>2, UnbeatenInit, UnbeatenNext, GameInductive, PTL DEF Spec
=============================================================================
