------------------------------ MODULE TicTacToe ------------------------------
(****************************************************************************)
(* src/tasks/tic-tac-toe: the runner (utility/runner.cpp), which lets two   *)
(* strategies play and keeps the board, and PlayerStrategy, which keeps a   *)
(* board of its own and plays by minimax.  A strategy that is not           *)
(* PlayerStrategy (another library) may answer with any cell, with one      *)
(* outside of the board, or throw.                                          *)
(*                                                                          *)
(* Cell (r, c) is 3 * r + c, so that the loops of the code run in the order *)
(* of the cells.  An operator named X_Y is a slip Y in X.                   *)
(****************************************************************************)
EXTENDS Integers, SequencesExt

X == 0
O == 1
NEUTRAL == -1
DRAW == 2
Players == {X, O}

Cells == 0 .. 8
Outside == 9        \* any place that is not on the board

Empty == [c \in Cells |-> NEUTRAL]
Put(b, c, p) == [b EXCEPT ![c] = p]
Free(b) == {c \in Cells : b[c] = NEUTRAL}

Lines ==
    {{3 * r + c : c \in 0 .. 2} : r \in 0 .. 2}
        \union {{3 * r + c : r \in 0 .. 2} : c \in 0 .. 2}
        \union {{0, 4, 8}, {2, 4, 6}}

Wins(b, p) == \E line \in Lines : \A c \in line : b[c] = p

(* Whose turn it is on a board of a game: X begins.                         *)
Turn(b) == IF Cardinality(Free(b)) % 2 = 1 THEN X ELSE O

After(b) == {Put(b, c, Turn(b)) : c \in Free(b)}

(* Boards[k]: the boards with 10 - k free cells.  A function on all boards  *)
(* is made from the full ones to the empty one.                             *)
Boards ==
    FoldLeft(LAMBDA s, k : Append(s, UNION {After(b) : b \in s[k]}),
             <<{Empty}>>, [k \in 1 .. 9 |-> k])

FromTheEnd == [k \in 1 .. 10 |-> 11 - k]

-----------------------------------------------------------------------------
(* PlayerStrategy                                                           *)

Evaluate_OwnLines(b, p) == IF Wins(b, p) THEN 10 ELSE 0

Evaluate(b, p) ==
    IF Wins(b, p) THEN 10 ELSE IF Wins(b, 1 - p) THEN -10 ELSE 0

Deeper_TenTimes(v) == IF v = 0 THEN 0 ELSE v - 10

(* Minimax(depth + 1) on a board is Deeper of Minimax(depth): score - depth *)
(* at a win, 0 at a draw, and Deeper keeps the order of these values.       *)
Deeper(v) == IF v = 0 THEN 0 ELSE v - 1

(* Minimax(0, is_maximizing) of player p on b, where t has the values of    *)
(* the boards after b.  The two take turns, so p maximizes when p moves.    *)
Score(b, p, t) ==
    LET deeper == {Deeper(t[a]) : a \in After(b)} IN
    IF Evaluate(b, p) # 0 THEN Evaluate(b, p)
    ELSE IF Free(b) = {} THEN 0
    ELSE IF Turn(b) = p THEN Max(deeper) ELSE Min(deeper)

Scores(p) ==
    FoldLeft(LAMBDA t, k : [b \in Boards[k] \union DOMAIN t |->
                              IF b \in Boards[k] THEN Score(b, p, t) ELSE t[b]],
             <<>>, FromTheEnd)

ScoresOfX == Scores(X)
ScoresOfO == Scores(O)
Minimax(b, p) == IF p = X THEN ScoresOfX[b] ELSE ScoresOfO[b]

(* The search finds the empty board lost for neither player.                *)
ASSUME EmptyIsNotLost == \A p \in Players : Minimax(Empty, p) >= 0

(* The first of the moves with the greatest value.                          *)
BestMove(b, p) ==
    LET value == [c \in Free(b) |-> Minimax(Put(b, c, p), p)]
    IN  Min({c \in Free(b) : \A d \in Free(b) : value[d] <= value[c]})

-----------------------------------------------------------------------------
(* The game                                                                 *)

VARIABLES
    ours,           \* the players whose library is PlayerStrategy
    board,          \* the runner's board
    curr_player,
    pc,             \* where the runner's loop is
    move,
    boards,         \* board_ of each player in ours
    result,         \* main's result, -1 until pc = "exited"
    blamed          \* the player for whom the runner returned -1

vars == <<ours, board, curr_player, pc, move, boards, result, blamed>>

other == 1 - curr_player

Init ==
    /\ ours \in SUBSET Players
    /\ board = Empty
    /\ curr_player = X
    /\ pc = "move"
    /\ move = Outside
    /\ boards = [p \in ours |-> Empty]
    /\ result = -1
    /\ blamed = NEUTRAL

Return(r) == pc' = "exited" /\ result' = r

(* return -1, for which p is the reason.                                    *)
Fail(p) ==
    /\ Return(-1)
    /\ blamed' = p
    /\ UNCHANGED <<ours, board, curr_player, move, boards>>

MakeMove ==
    /\ pc = "move" /\ curr_player \in ours
    /\ move' = BestMove(boards[curr_player], curr_player)
    /\ boards' = [boards EXCEPT ![curr_player][move'] = curr_player]
    /\ pc' = "place"
    /\ UNCHANGED <<ours, board, curr_player, result, blamed>>

ForeignMakeMove ==
    /\ pc = "move" /\ curr_player \notin ours
    /\ move' \in Cells \union {Outside}
    /\ pc' = "place"
    /\ UNCHANGED <<ours, board, curr_player, boards, result, blamed>>

(* MakeMove or OpponentMove of another library throws.                      *)
ForeignThrows ==
    \/ pc = "move" /\ curr_player \notin ours /\ Fail(curr_player)
    \/ pc = "tell" /\ other \notin ours /\ Fail(other)

Place ==
    /\ pc = "place"
    /\ IF move \in Free(board)
       THEN /\ board' = Put(board, move, curr_player)
            /\ pc' = "tell"
            /\ UNCHANGED <<ours, curr_player, move, boards, result, blamed>>
       ELSE Fail(curr_player)

OpponentMove_OwnMark ==
    /\ pc = "tell" /\ other \in ours
    /\ boards' = [boards EXCEPT ![other][move] = other]
    /\ pc' = "judge"
    /\ UNCHANGED <<ours, board, curr_player, move, result, blamed>>

OpponentMove ==
    /\ pc = "tell" /\ other \in ours
    /\ IF move \in Free(boards[other])
       THEN /\ boards' = [boards EXCEPT ![other][move] = curr_player]
            /\ pc' = "judge"
            /\ UNCHANGED <<ours, board, curr_player, move, result, blamed>>
       ELSE Fail(other)

ForeignOpponentMove ==
    /\ pc = "tell" /\ other \notin ours
    /\ pc' = "judge"
    /\ UNCHANGED <<ours, board, curr_player, move, boards, result, blamed>>

check_win_OneDiagonal(b) ==
    LET won == {p \in Players :
                  \E line \in Lines \ {{2, 4, 6}} : \A c \in line : b[c] = p}
    IN  IF won = {} THEN NEUTRAL ELSE Min(won)

(* On a board of a game at most one player has a line.                      *)
check_win(b) ==
    LET won == {p \in Players : Wins(b, p)}
    IN  IF won = {} THEN NEUTRAL ELSE Min(won)

(* The rest of the loop's body; each pass fills a cell, so the loop has run *)
(* nine times when the board is full.                                       *)
Judge ==
    /\ pc = "judge"
    /\ \/ /\ check_win(board) # NEUTRAL
          /\ Return(check_win(board))
          /\ UNCHANGED curr_player
       \/ /\ check_win(board) = NEUTRAL
          /\ curr_player' = other
          /\ IF Free(board) = {} THEN Return(DRAW)
             ELSE pc' = "move" /\ UNCHANGED result
    /\ UNCHANGED <<ours, board, move, boards, blamed>>

Next ==
    \/ MakeMove \/ ForeignMakeMove \/ ForeignThrows
    \/ Place
    \/ OpponentMove \/ ForeignOpponentMove
    \/ Judge

(* The runner is one thread; the calls of a library return or throw.        *)
Spec == Init /\ [][Next]_vars /\ WF_vars(Next)

-----------------------------------------------------------------------------
(* Properties                                                               *)

(* Between two calls of the strategies, every board that a PlayerStrategy   *)
(* keeps by itself, from its own moves and those it was told, is the        *)
(* runner's board (runner.cpp 104-134, PlayerStrategy.cpp 120-139).         *)
BoardsAgree == pc \in {"move", "judge"} => \A p \in ours : boards[p] = board

(* PlayerStrategy never loses and is never the reason for -1, whatever the  *)
(* other library does, and against itself it draws (BestMove).              *)
NeverLoses ==
    pc = "exited" =>
        /\ \A p \in ours : result # 1 - p /\ blamed # p
        /\ ours = Players => result = DRAW

(* The exit code says how the game ended, and the game goes on only while   *)
(* nobody has a line, whatever both libraries do (runner.cpp 128-139).      *)
ResultIsRight ==
    LET winners == {p \in Players : Wins(board, p)} IN
    /\ pc \in {"move", "place"} => winners = {}
    /\ pc = "exited" =>
          \/ result \in Players /\ winners = {result}
          \/ result = DRAW /\ winners = {} /\ Free(board) = {}
          \/ result = -1 /\ blamed \in Players

(* The boards from which p wins against every answer, by the rules alone.   *)
ForcedWins(p) ==
    FoldLeft(LAMBDA w, k :
                 w \union {b \in Boards[k] :
                    \/ Wins(b, p)
                    \/ /\ ~Wins(b, 1 - p)
                       /\ IF Turn(b) = p THEN \E a \in After(b) : a \in w
                          ELSE Free(b) # {} /\ \A a \in After(b) : a \in w},
             {}, FromTheEnd)

ForcedWinsOfX == ForcedWins(X)
ForcedWinsOfO == ForcedWins(O)

(* Once PlayerStrategy is to move on a board from which it can force a win, *)
(* it wins, or the other library breaks the rules (Minimax, BestMove).      *)
ForcedWinIsTaken ==
    \A p \in Players :
        (/\ pc = "move" /\ curr_player = p /\ p \in ours
         /\ board \in IF p = X THEN ForcedWinsOfX ELSE ForcedWinsOfO)
            ~> (pc = "exited" /\ result \in {p, -1})

=============================================================================
