---------------------------- MODULE MCWeatherReport ----------------------------
(* Instance of WeatherReport for TLC; WeatherReport.cfg gives the constants. *)
EXTENDS WeatherReport
==============================================================================
