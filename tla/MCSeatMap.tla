------------------------------ MODULE MCSeatMap ------------------------------
\* The seats the map shows are those of the layout, which is checked here for
\* auditoriums of up to four rows by four seats, none or less, and for a largest
\* number the product reaches, stays below and saturates at.
EXTENDS SeatMap, SeatLayout, TLC

ASSUME LayoutHolds ==
  \A row_count, seats_per_row \in -1..4, max \in {4, 9, 16} :
    /\ SeatsHavePlaces(row_count, seats_per_row, max)
    /\ PlacesHaveSeats(row_count, seats_per_row, max)

Symmetry == Permutations(Seats) \cup Permutations(Requests) \cup
            Permutations(SessionIds) \cup Permutations(BookingIds)
=============================================================================
