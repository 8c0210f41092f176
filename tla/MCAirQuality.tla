--------------------------- MODULE MCAirQuality ---------------------------
(* Model-checking instance of AirQuality.                                   *)
EXTENDS AirQuality

\* Both sides and the middle of every ramp, values outside the engine's domain and
\* values that are not accepted.
MCTemps == {-41, -5, 10, 15, 25, 38, 45, 50, 60}
MCHums  == {0, 30, 50, 75, 90, 100}

\* Every breakpoint with its neighbours in tenths, the landmarks of the score,
\* the middle of its ramps, and values beyond the tables.
MCPm25s == {-10, 100, 120, 121, 354, 355, 500, 554, 555, 700, 1000, 1504, 1505,
            2000, 2504, 2505, 3000, 3504, 3505, 5000, 5004, 6000}
MCPm10s == {0, 540, 545, 550, 1540, 1545, 2545, 3545, 4240, 4245, 5040, 5045,
            5050, 6040, 20000}
=============================================================================
