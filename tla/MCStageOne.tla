----------------------------- MODULE MCStageOne -----------------------------
(***************************************************************************)
(* An instance of StageOne for TLC: every mixture of boot parameters, a    *)
(* keyboard that may be unplugged and the power key, and three generations *)
(* on pages of two.                                                        *)
(***************************************************************************)
EXTENDS StageOne, TLC

SomeBoots == Parameters({"absent", "empty", "0", "1"},
                        {"absent", "empty", "CHARGER", "normal"},
                        {NoReason, EmptyReason, NotANumber, 16, 144, 8388625})
KeyTable == "keyboard" :> Nav @@ "pwr" :> {"confirm"}
ReadOrder == "keyboard" :> 1 @@ "pwr" :> 2
=============================================================================
