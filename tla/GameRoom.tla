------------------------------ MODULE GameRoom ------------------------------
(***************************************************************************)
(* GameRoom: one game between two player sessions, and what its end does   *)
(* to them: ratings, statistics, the saved game, the room pointers.  The   *)
(* operators are the methods of the class; each runs inside one handler of *)
(* ChessServer, on the server's only thread, so each is atomic.            *)
(*                                                                         *)
(* The chess position is reduced to the side to move.  What a legal move   *)
(* does to the game (goes on, checkmate, one of the three automatic draws) *)
(* is chosen freely.                                                       *)
(***************************************************************************)
EXTENDS Integers, FiniteSets, Elo

CONSTANTS
  Sessions,   \* the IPlayer objects the server ever creates
  Accounts,   \* rows of the users table
  RoomIds,    \* the GameRoom objects it ever creates: a bound, rooms are kept
  NoPlayer, NoUser, NoRoom   \* the null pointer, user id -1, the empty weak_ptr

VARIABLES
  rooms,      \* the fields of each GameRoom; white is NoPlayer before it exists
  room,       \* IPlayer::_room
  user,       \* IPlayer::_user_id; NoUser until set_authorized(true)
  rating,     \* IPlayer::_rating, the session's copy
  db,         \* rating, games_played and games_won of the users table
  told,       \* the last message about a game (or "left") sent to the session
  saved,      \* rows each room has written to the games table
  settled     \* times each room has run update_rating (history)

roomVars == <<rooms, room, user, rating, db, told, saved, settled>>

NoGame == [white |-> NoPlayer, black |-> NoPlayer, offers |-> {}, toMove |-> "white"]

NewGame(white, black) ==
  [white |-> white, black |-> black, offers |-> {}, toMove |-> "white"]

\* rooms with new offers and a new side to move in room r.
PlayOn(r, offers, toMove) ==
  [rooms EXCEPT ![r] = [white |-> rooms[r].white, black |-> rooms[r].black,
                        offers |-> offers, toMove |-> toMove]]

Created(r) == rooms[r].white # NoPlayer
Players(r) == {rooms[r].white, rooms[r].black}

\* mutant of Other: black is followed by PieceColor::None.
OtherOrNone(color) == IF color = "white" THEN "black" ELSE "none"

Other(color) == IF color = "white" THEN "black" ELSE "white"
ColorOf(r, p) == IF p = rooms[r].white THEN "white" ELSE "black"

opponent_of(r, p) ==
  IF p = rooms[r].white THEN rooms[r].black
  ELSE IF p = rooms[r].black THEN rooms[r].white ELSE NoPlayer

-----------------------------------------------------------------------------
\* start: both players get match_found.
start(r, white, black) ==
  /\ rooms' = [rooms EXCEPT ![r] = NewGame(white, black)]
  /\ room' = [room EXCEPT ![white] = r, ![black] = r]
  /\ told' = [told EXCEPT ![white] = "match_found", ![black] = "match_found"]
  /\ UNCHANGED <<rating, db, saved, settled>>

\* mutant of db_update_rating: an UPDATE without its WHERE.
db_update_rating_all(table, id, new_rating) ==
  [a \in Accounts |-> [table[a] EXCEPT !.rating = new_rating]]

\* Database::update_rating and update_stats: one UPDATE of the users table each.
\* No caller passes draw = true, so games_drawn is left out.
db_update_rating(table, id, new_rating) == [table EXCEPT ![id].rating = new_rating]


db_update_stats(table, id, won) ==
  [table EXCEPT ![id] = [rating |-> @.rating,
                         played |-> @.played + 1,
                         won |-> @.won + (IF won THEN 1 ELSE 0)]]

\* mutant of update_rating: the loser's loss is computed from the winner's new
\* rating.
update_rating_after_winner(r, winner, loser) ==
  LET newW == rating[winner] + Gain(rating[winner] - rating[loser])
      newL == rating[loser] - Loss(newW - rating[loser])
  IN  /\ rating' = [rating EXCEPT ![winner] = newW, ![loser] = newL]
      /\ db' = db_update_rating(db_update_rating(db, user[winner], newW), user[loser], newL)
      /\ settled' = [settled EXCEPT ![r] = @ + 1]

(***************************************************************************)
(* update_rating: Elo on the sessions' copies, then four statements on the *)
(* users table, in this order: the winner's rating, the loser's rating,    *)
(* the winner's statistics, the loser's.  Two sessions may be logged in    *)
(* to one account, in which case the later write wins.                     *)
(***************************************************************************)
update_rating(r, winner, loser) ==
  LET newW == rating[winner] + Gain(rating[winner] - rating[loser])
      newL == rating[loser] - Loss(rating[winner] - rating[loser])
  IN  /\ rating' = [rating EXCEPT ![winner] = newW, ![loser] = newL]
      /\ LET rated == db_update_rating(db_update_rating(db, user[winner], newW),
                                       user[loser], newL)
         IN  db' = db_update_stats(db_update_stats(rated, user[winner], TRUE),
                                   user[loser], FALSE)
      /\ settled' = [settled EXCEPT ![r] = @ + 1]

\* mutant of vacate: only the white player's pointer is reset.
vacate_white(r) == room' = [room EXCEPT ![rooms[r].white] = NoRoom]

\* set_room({}) on both players, wherever they point.
vacate(r) == room' = [p \in Sessions |-> IF p \in Players(r) THEN NoRoom ELSE room[p]]

\* mutant of end_game: game_over goes to the white player only.
end_game_quiet(r, winner) ==
  /\ IF winner # NoPlayer
       THEN update_rating(r, winner, opponent_of(r, winner))
       ELSE UNCHANGED <<rating, db, settled>>
  /\ saved' = [saved EXCEPT ![r] = @ + 1]
  /\ told' = [told EXCEPT ![rooms[r].white] = "game_over"]
  /\ vacate(r)

\* end_game: winner is NoPlayer for a draw of any kind.
end_game(r, winner) ==
  /\ IF winner # NoPlayer
       THEN update_rating(r, winner, opponent_of(r, winner))
       ELSE UNCHANGED <<rating, db, settled>>
  /\ saved' = [saved EXCEPT ![r] = @ + 1]
  /\ told' = [p \in Sessions |-> IF p \in Players(r) THEN "game_over" ELSE told[p]]
  /\ vacate(r)

(***************************************************************************)
(* on_move, for a move that is the player's turn and legal; every other    *)
(* one is answered with an error and changes nothing.  The player to move  *)
(* after a mate is the loser.                                              *)
(***************************************************************************)
on_move(r, from) ==
  /\ rooms[r].toMove = ColorOf(r, from)
  /\ rooms' = PlayOn(r, rooms[r].offers, Other(rooms[r].toMove))
  /\ \/ UNCHANGED <<room, rating, db, told, saved, settled>>
     \/ end_game(r, IF Other(rooms[r].toMove) = "white" THEN rooms[r].black ELSE rooms[r].white)
     \/ end_game(r, NoPlayer)

\* on_draw_request: no move clears an offer, and it may be repeated.
on_draw_request(r, from) ==
  /\ rooms' = PlayOn(r, rooms[r].offers \union {ColorOf(r, from)}, rooms[r].toMove)
  /\ UNCHANGED <<room, rating, db, told, saved, settled>>

on_draw_accept(r, from) ==
  /\ Other(ColorOf(r, from)) \in rooms[r].offers
  /\ end_game(r, NoPlayer)
  /\ UNCHANGED rooms

on_draw_decline(r, from) ==
  /\ Other(ColorOf(r, from)) \in rooms[r].offers
  /\ rooms' = PlayOn(r, rooms[r].offers \ {Other(ColorOf(r, from))}, rooms[r].toMove)
  /\ UNCHANGED <<room, rating, db, told, saved, settled>>

\* mutant of RoomOnDisconnect: the pointers survive the settlement.
RoomOnDisconnect_again(r, who) ==
  /\ update_rating(r, opponent_of(r, who), who)
  /\ UNCHANGED <<rooms, room, saved>>

\* GameRoom::on_disconnect: whoever goes has lost; no row is saved.  Only the
\* other player is told; who leaves on its own hears "left" from handle_leave.
RoomOnDisconnect(r, who) ==
  LET other == opponent_of(r, who) IN
  /\ IF other # NoPlayer
       THEN update_rating(r, other, who)
       ELSE UNCHANGED <<rating, db, settled>>
  /\ vacate(r)
  /\ UNCHANGED <<rooms, saved>>
=============================================================================
