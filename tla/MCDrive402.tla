----------------------------- MODULE MCDrive402 ------------------------------
(***************************************************************************)
(* Drive402 with two velocities and a drive found booting, enabled and     *)
(* moving as a killed program left it, quick-stopped, or with a fault      *)
(* whose last reset is still in its control word.                          *)
(***************************************************************************)
EXTENDS Drive402

Running == {"SWITCH_ON", "ENABLE_VOLTAGE", "QUICK_STOP", "ENABLE_OPERATION"}

MCInitDrives == { <<"NRDY", {}, "OTHER", 0>>,
                  <<"SW_ON_DISABLE", {"HALT"}, "OTHER", 1>>,
                  <<"OP_EN", Running \union {"RFG"}, "VELOCITY", 1>>,
                  <<"QUICK_STOP", Running \ {"QUICK_STOP"}, "VELOCITY", 0>>,
                  <<"RDY", (Running \ {"SWITCH_ON"}) \union {"HALT"}, "OTHER", 0>>,
                  <<"FAULT", {"RESET_FAULT", "HALT"}, "OTHER", 1>> }
=============================================================================
