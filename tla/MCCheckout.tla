----------------------------- MODULE MCCheckout -----------------------------
EXTENDS Checkout, TLC

\* Everything but the clock is interchangeable.
Symmetry == Permutations(Movies) \cup Permutations(Seats) \cup
            Permutations(Users) \cup Permutations(Requests) \cup
            Permutations(SessionIds) \cup Permutations(BookingIds)
=============================================================================
