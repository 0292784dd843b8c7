-------------------------- MODULE MCSeatHoldStore ---------------------------
(***************************************************************************)
(* Two movies, so that a key that forgets its movie shows; three seats, so *)
(* that a user's holds can form a chain while another user races for each. *)
(***************************************************************************)
EXTENDS SeatHoldStore
=============================================================================
