----------------------------- MODULE MCCalendar -----------------------------
(***************************************************************************)
(* A small instance of the promise: every calendar of two bookings of one  *)
(* resource over three unit intervals is an initial state.                 *)
(***************************************************************************)
EXTENDS Calendar
CONSTANTS i1, i2, room
=============================================================================
