----------------------------- MODULE BlocksGame -----------------------------
(* The falling-blocks game of the side panel (lib/blocks-game.ts and
   components/blocks-game.tsx): a reducer over the board, the falling piece
   and the bag it is drawn from, driven by a timer, by keys and by the page
   being left.  The board is the set of its filled squares; what is scored
   is left out. *)
EXTENDS Integers, FiniteSets, Sequences

CONSTANTS
  Width, Height,   \* blocksBoardWidth, blocksBoardHeight
  Types,           \* the pieces of a bag
  Shapes,          \* shapes: per piece and rotation, its squares
  Kicks,           \* jlstzKicks and iKicks: per piece, rotation and direction, where to try
  GameBounds       \* bound: pieces played, and how often the page is left

VARIABLES
  board, piece, next, bag,   \* the game: what is filled, what falls, what comes
  lines, gameStatus,
  active,                    \* the panel is shown
  played,                    \* pieces locked in this game
  gameSpent

gameVars == <<board, piece, next, bag, lines, gameStatus, active, played, gameSpent>>

SpendGame(kind) == gameSpent[kind] < GameBounds[kind] /\ gameSpent' = [gameSpent EXCEPT ![kind] = @ + 1]

Spawn(type) == [type |-> type, rotation |-> 0, x |-> 3, y |-> -1]

(* pieceCells, canPlace *)
Cells(p) == {<<p.x + c[1], p.y + c[2]>> : c \in Shapes[p.type][p.rotation]}
CanPlace(b, p) ==
  \A c \in Cells(p) : c[1] \in 0 .. Width - 1 /\ c[2] < Height /\ (c[2] >= 0 => c \notin b)

(* The pieces of the source: four squares each, in every rotation, that come in on
   an empty board; with a list of kicks for every turn. *)
ASSUME GameAssumption ==
  /\ Width \in Nat \ {0} /\ Height \in Nat
  /\ \A t \in Types : CanPlace({}, Spawn(t))
  /\ \A t \in Types, r \in 0 .. 3 :
       /\ Shapes[t][r] \subseteq Int \X Nat
       /\ IsFiniteSet(Shapes[t][r]) /\ Cardinality(Shapes[t][r]) = 4
       /\ \A turn \in {-1, 1} : Kicks[t][<<r, (r + turn) % 4>>] \in Seq(Int \X Int)

Lower(p, n) == [p EXCEPT !.y = @ + n]

(* ghostPiece: where the piece would come to lie. *)
Fall(b, p) == CHOOSE n \in 0 .. Height - p.y :
  CanPlace(b, Lower(p, n)) /\ ~CanPlace(b, Lower(p, n + 1))
  /\ \A m \in 0 .. n : CanPlace(b, Lower(p, m))

(* fillQueue: the bag is drawn empty before the next one is opened. *)
Drawn(left) == IF left = {} THEN Types ELSE left

Row(b, y) == {c \in b : c[2] = y}
FullRows(b) == {y \in 0 .. Height - 1 : Cardinality(Row(b, y)) = Width}

(* Mutant: the rows below a cleared one come down, not those above. *)
RowsBelowFall(b) ==
  {<<c[1], c[2] + Cardinality({y \in FullRows(b) : y < c[2]})>> :
     c \in {d \in b : d[2] \notin FullRows(b)}}

(* The rows that are not full, moved down over those that are. *)
WithoutFullRows(b) ==
  {<<c[1], c[2] + Cardinality({y \in FullRows(b) : y > c[2]})>> :
     c \in {d \in b : d[2] \notin FullRows(b)}}

(* lockPiece *)
Lock(p) ==
  IF \E c \in Cells(p) : c[2] < 0
  THEN gameStatus' = "game-over" /\ piece' = p
       /\ UNCHANGED <<board, next, bag, lines, played>>
  ELSE LET filled == board \cup Cells(p)
       IN  /\ board' = WithoutFullRows(filled) /\ lines' = lines + Cardinality(FullRows(filled))
           /\ piece' = Spawn(next) /\ played' = played + 1
           /\ next' \in Drawn(bag) /\ bag' = Drawn(bag) \ {next'}
           /\ gameStatus' = IF CanPlace(board', piece') THEN "playing" ELSE "game-over"

Rest == UNCHANGED <<active, gameSpent>>

Fresh ==
  \E first \in Types : \E second \in Types \ {first} :
    piece' = Spawn(first) /\ next' = second /\ bag' = Types \ {first, second}

GameInit ==
  /\ \E first \in Types : \E second \in Types \ {first} :
       piece = Spawn(first) /\ next = second /\ bag = Types \ {first, second}
  /\ board = {} /\ lines = 0 /\ gameStatus = "playing" /\ played = 0
  /\ active = TRUE /\ gameSpent = [kind \in DOMAIN GameBounds |-> 0]

-----------------------------------------------------------------------------
(* tick and soft-drop: down by one, or the piece is locked. *)
Descend ==
  /\ active /\ gameStatus = "playing" /\ played < GameBounds.pieces
  /\ IF CanPlace(board, Lower(piece, 1))
     THEN piece' = Lower(piece, 1)
          /\ UNCHANGED <<board, next, bag, lines, gameStatus, played>>
     ELSE Lock(piece)
  /\ Rest

HardDrop ==
  LET n == Fall(board, piece)
  IN  /\ active /\ gameStatus = "playing" /\ played < GameBounds.pieces
      /\ Lock(Lower(piece, n)) /\ Rest

Placed(p) == /\ active /\ gameStatus = "playing" /\ CanPlace(board, p) /\ piece' = p
             /\ UNCHANGED <<board, next, bag, lines, gameStatus, active, played, gameSpent>>
MoveSideways(dx) == Placed([piece EXCEPT !.x = @ + dx])

(* rotateActive: the first kick that fits. *)
Rotate(direction) ==
  LET to == (piece.rotation + direction) % 4
      kicks == Kicks[piece.type][<<piece.rotation, to>>]
      At(k) == [piece EXCEPT !.rotation = to, !.x = @ + k[1], !.y = @ + k[2]]
  IN  \E i \in DOMAIN kicks :
        /\ \A earlier \in 1 .. i - 1 : ~CanPlace(board, At(kicks[earlier]))
        /\ Placed(At(kicks[i]))

SetStatus(from, to) ==
  /\ gameStatus = from /\ gameStatus' = to
  /\ UNCHANGED <<board, piece, next, bag, lines, played>>
TogglePause == /\ active /\ SpendGame("pause") /\ UNCHANGED active
               /\ (SetStatus("playing", "paused") \/ SetStatus("paused", "playing"))
(* The page is hidden or loses its focus; the panel is left and shown again. *)
PageLeft == SpendGame("pause") /\ SetStatus("playing", "paused") /\ UNCHANGED active
PanelLeft == /\ active /\ active' = FALSE /\ SpendGame("pause")
             /\ (SetStatus("playing", "paused") \/ (gameStatus # "playing"
                  /\ UNCHANGED <<board, piece, next, bag, lines, gameStatus, played>>))
PanelShown == /\ ~active /\ active' = TRUE
              /\ UNCHANGED <<board, piece, next, bag, lines, gameStatus, played, gameSpent>>

Restart ==
  /\ active /\ SpendGame("restart") /\ Fresh
  /\ board' = {} /\ lines' = 0 /\ gameStatus' = "playing" /\ played' = 0
  /\ UNCHANGED active

GameNext ==
  \/ Descend \/ HardDrop \/ \E dx \in {-1, 1} : MoveSideways(dx) \/ Rotate(dx)
  \/ TogglePause \/ PageLeft \/ PanelLeft \/ PanelShown \/ Restart
GameSpec == GameInit /\ [][GameNext]_gameVars

-----------------------------------------------------------------------------
(* While the game is played the piece lies free on the board; every square a
   piece brought is on the board or in a cleared row, and a row that lies on
   the board is never full: clearing loses and invents no square. *)
SquaresAddUp ==
  /\ gameStatus # "game-over" => CanPlace(board, piece)
  /\ Cardinality(board) + Width * lines = 4 * played
  /\ \A c \in board : c[1] \in 0 .. Width - 1 /\ c[2] \in 0 .. Height - 1
  /\ \A y \in 0 .. Height - 1 : Cardinality(Row(board, y)) < Width
=============================================================================
