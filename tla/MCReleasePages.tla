---------------------------- MODULE MCReleasePages ----------------------------
(* Constants of ReleasePages for TLC: every tag brings numpy anew and keeps  *)
(* the wheel of cffi, whose name is then that of another build.              *)
EXTENDS ReleasePages

MCFiles(t) == {"cffi-2.0", <<"numpy-1", "numpy-2", "numpy-3">>[t]}
==============================================================================
