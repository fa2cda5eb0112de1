-------------------------------- MODULE Pong --------------------------------
(***************************************************************************)
(* The game of Pong (sp2Module's PongGame.cpp), a frame at a time, along   *)
(* the field: the ball moves left or right by BALL_SPEED a frame and is    *)
(* turned by the paddle it meets.  Heights are left out: whether the ball  *)
(* is as high as a paddle is any outcome.                                  *)
(***************************************************************************)
EXTENDS Integers

CONSTANTS
  SCREEN_W,    \* 1280
  GAME_X,      \* 200, where the field begins
  GAME_W,      \* 880, its width
  PLAYER_OFF,  \* 50, how far a paddle is from the edge
  PLAYER_W,    \* 8, how thick it is
  BALL_SPEED,  \* 8
  BALL_SIZE,   \* 6
  MaxScore     \* bound: no player gets further

(* The lines of the paddles, and the middle of the screen. *)
Left == GAME_X + PLAYER_OFF
Right == GAME_X + GAME_W - PLAYER_OFF
Middle == SCREEN_W \div 2

(* A paddle is no thicker than the ball is fast, and the game begins       *)
(* between them.                                                           *)
PongAssumption ==
  /\ SCREEN_W \in Nat /\ GAME_X \in Nat /\ GAME_W \in Nat /\ PLAYER_OFF \in Nat
  /\ PLAYER_W \in Nat /\ BALL_SPEED \in Nat /\ BALL_SIZE \in Nat /\ MaxScore \in Nat
  /\ PLAYER_W <= BALL_SPEED
  /\ Left + PLAYER_W < Middle /\ Middle < Right

VARIABLES
  x, direction,  \* of the ball, 1 to the right and -1 to the left
  score,         \* mScore of both players
  hit            \* the paddle that the ball met in this frame

vars == <<x, direction, score, hit>>

Paddles == {"left", "right"}
Directions == {-1, 1}

Init ==
  /\ x = Middle /\ direction = 1
  /\ score = [p \in Paddles |-> 0]
  /\ hit = "none"

-----------------------------------------------------------------------------
BadAtLeftPaddle(place) == place <= Left + PLAYER_W

AtLeftPaddle(place) == place > Left /\ place <= Left + PLAYER_W
AtRightPaddle(place) == place >= Right /\ place < Right + PLAYER_W

(* PongGame::Logic, from where the ball is and goes after the key B.  Past *)
(* an edge it goes back to the middle and the other player has a point.    *)
Move(from, to, points) ==
  LET place == from + to * BALL_SPEED
      outRight == place >= GAME_X + GAME_W - BALL_SIZE
      outLeft == ~outRight /\ place <= GAME_X
      newX == IF outRight \/ outLeft THEN Middle ELSE place
      ballTo == IF outRight THEN -1 ELSE IF outLeft THEN 1 ELSE to
  IN  /\ x' = newX
      /\ score' = [points EXCEPT !["left"] = IF outRight THEN @ + 1 ELSE @,
                                 !["right"] = IF outLeft THEN @ + 1 ELSE @]
      /\ \/ hit' = "none" /\ direction' = ballTo
         \/ AtLeftPaddle(newX) /\ hit' = "left" /\ direction' = -ballTo
         \/ AtRightPaddle(newX) /\ hit' = "right" /\ direction' = -ballTo

Frame == (\A p \in Paddles : score[p] < MaxScore) /\ Move(x, direction, score)

(* Both scores and the ball are reset before they move on. *)
KeyB == MaxScore > 0 /\ Move(Middle, 1, [p \in Paddles |-> 0])

Next == Frame \/ KeyB

Spec == Init /\ [][Next]_vars

-----------------------------------------------------------------------------
TypeOK ==
  /\ x \in Int /\ direction \in Directions
  /\ score \in [Paddles -> 0..MaxScore] /\ hit \in Paddles \cup {"none"}

(* A ball that a paddle meets goes back into the field: it is not caught   *)
(* in the paddle and turned again, nor driven out of the field by it.      *)
Returned ==
  /\ hit = "left" => direction = 1
  /\ hit = "right" => direction = -1

(* Behind a paddle the ball only moves on to the edge. *)
OutOfReach ==
  /\ x <= Left => direction = -1
  /\ x >= Right + PLAYER_W => direction = 1

IInv == TypeOK /\ Returned /\ OutOfReach
=============================================================================
