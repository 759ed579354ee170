-------------------------- MODULE MCHeaterManager --------------------------
(* HeaterManager for TLC in half degrees: a broken sensor (-50 degrees), a  *)
(* cold bed, one at exactly PID_EFFECT_RANGE below the target of 30 degrees, *)
(* one just above it and one past the upper limit.                          *)
EXTENDS HeaterManager

MCTemps == {-100, 40, 61, 720}
MCLower == -80
MCTargets == {0, 60}
MCIntegralTerms == {0, 30}
=============================================================================
