--------------------------- MODULE MCWasiHttpClient ---------------------------
(* Values for model-checking WasiHttpClient.                                 *)
EXTENDS WasiHttpClient

\* One success and one error status, on either side of the 400 boundary.
MCStatuses == {399, 400}
\* A host whose error.to-debug-string always says something...
MCSpeaking == {"reset"}
\* ... and one that may have nothing to say.
MCSilent == {"empty", "reset"}
==============================================================================
