----------------------------- MODULE MCSeatPage -----------------------------
\* A page with two films and two requests under way.
EXTENDS SeatPage
=============================================================================
