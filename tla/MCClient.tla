------------------------------ MODULE MCClient ------------------------------
(***************************************************************************)
(* Client with statuses that mean success, a failure, and one that eight   *)
(* bits would turn into a success; and a program that calls session.Run    *)
(* without a terminal, as the tests of the package do.                     *)
(***************************************************************************)
EXTENDS Client

MCCodeOf == [c \in Codes |-> CASE c = "ok" -> 0 [] c = "wraps" -> 256 [] OTHER -> 1]

Headless ==
  /\ Init /\ ~term /\ BootInit
  /\ phase = "run" /\ defers = <<>> /\ onbreak = FALSE /\ conn = "none"
  /\ err = "none" /\ modeErr = FALSE /\ status = -1

MCSpec ==
  (ClientInit \/ Headless) /\ [][ClientNext]_clientVars /\ ConnectRuns /\ BootRuns /\ RunRuns
=============================================================================
