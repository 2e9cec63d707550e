--------------------------- MODULE MCSyringePump ---------------------------
(* The pump with volumes of a few units, for TLC.                          *)
EXTENDS SyringePump

\* "1\n", "+\n", "-\n", "x\n", "\n", "1" without its newline
MCLines == {<<49, 10>>, <<43, 10>>, <<45, 10>>, <<120, 10>>, <<10>>, <<49>>}
MCSteps == <<1, 2>>
=============================================================================
