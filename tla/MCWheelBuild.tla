----------------------------- MODULE MCWheelBuild -----------------------------
(* Settings of WheelBuild for TLC.                                          *)
EXTENDS WheelBuild

Setting(component, downgrades, tarMayFail, packMayFail) ==
  [component |-> component, downgrades |-> downgrades,
   tarMayFail |-> tarMayFail, packMayFail |-> packMayFail]

\* regex with makes that are stopped but never a tar or a pack that fails, and
\* on a disk that may be full; cffi where tar may fail; and pydantic-core,
\* going forth and back between versions, and with a retagging that may fail.
MCSettings ==
  {Setting("regex",    FALSE, FALSE, FALSE), Setting("regex", FALSE, TRUE, TRUE),
   Setting("cffi",     FALSE, TRUE,  FALSE),
   Setting("pydantic", TRUE,  TRUE,  FALSE), Setting("pydantic", FALSE, TRUE, TRUE)}
==============================================================================
