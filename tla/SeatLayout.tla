----------------------------- MODULE SeatLayout -----------------------------
(***************************************************************************)
(* web/src/seat_layout.rs: the seats of an auditorium in row-major order,  *)
(* from the numbers of rows and of seats per row in table movies.  The     *)
(* column types are INTEGER without CHECK: any number may be there.        *)
(***************************************************************************)
EXTENDS Integers

NonNegative(n) == IF n < 0 THEN 0 ELSE n

\* max is the largest usize.
saturating_mul(a, b, max) == IF a * b > max THEN max ELSE a * b

\* Row and column, counted from 0.
from_flat_idx(idx, seats_per_row) ==
  IF seats_per_row = 0 THEN <<0, 0>> ELSE <<idx \div seats_per_row, idx % seats_per_row>>

flat_idx(row_index, col_index, seats_per_row) == row_index * seats_per_row + col_index

\* seat is the number in the seat's public name, s1 to sN.
LayoutSeat(idx, seats_per_row) ==
  LET cell == from_flat_idx(idx, seats_per_row)
  IN [flat_idx |-> idx, seat |-> idx + 1, row |-> cell[1] + 1, col |-> cell[2] + 1]

iter_layout_seats(row_count, seats_per_row, max) ==
  LET rows == NonNegative(row_count)
      m == NonNegative(seats_per_row)
  IN [k \in 1..saturating_mul(rows, m, max) |-> LayoutSeat(k - 1, m)]

-----------------------------------------------------------------------------
(***************************************************************************)
(* No two seats of an auditorium have the same place, or the same name,    *)
(* and each has one within it: for any number of rows and seats, also none *)
(* or less, and also where their product saturates.                        *)
(***************************************************************************)
SeatsHavePlaces(row_count, seats_per_row, max) ==
  LET seats == iter_layout_seats(row_count, seats_per_row, max)
  IN /\ \A k \in DOMAIN seats :
          seats[k].row \in 1..row_count /\ seats[k].col \in 1..seats_per_row
     /\ \A k, l \in DOMAIN seats :
          \/ seats[k].row = seats[l].row /\ seats[k].col = seats[l].col
          \/ seats[k].seat = seats[l].seat
          => k = l

(***************************************************************************)
(* Every place has a seat, unless the product saturates.                   *)
(***************************************************************************)
PlacesHaveSeats(row_count, seats_per_row, max) ==
  LET seats == iter_layout_seats(row_count, seats_per_row, max)
  IN row_count * seats_per_row <= max =>
       \A row \in 1..row_count, col \in 1..seats_per_row :
         \E k \in DOMAIN seats : seats[k].row = row /\ seats[k].col = col
=============================================================================
