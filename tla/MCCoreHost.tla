------------------------------ MODULE MCCoreHost ------------------------------
(* Small instances of CoreHost for TLC: Electron connects first, and what it  *)
(* sends may come from another of its connections too.                        *)
EXTENDS CoreHost, TLC

FirstAndLast == {0, MaxClients - 1}
FirstOnly == {0}
=============================================================================
