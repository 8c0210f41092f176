----------------------------- MODULE MCForecast -----------------------------
(* Model-checking instance of Forecast.                                     *)
EXTENDS Forecast
=============================================================================
