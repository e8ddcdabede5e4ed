--------------------------- MODULE MCDriverBinding ---------------------------
(***************************************************************************)
(* Instances of DriverBinding for TLC.                                     *)
(***************************************************************************)
EXTENDS DriverBinding

CONSTANT t1

AllLayouts == {<<"in", "out">>, <<"out", "in">>, <<"out", "out">>, <<"error", "out">>,
               <<"in", "absent">>}

=============================================================================
