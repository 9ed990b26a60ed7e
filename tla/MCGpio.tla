-------------------------------- MODULE MCGpio --------------------------------
(* Instances of Gpio for TLC.                                                *)
EXTENDS Gpio

TwoLines == {1, 2}
OneMask == {<<"x", "l">>}
TwoTexts == {<<"h", "x">>, <<"l", "">>}
TwoCodes == {<<"h", "h">>, <<"h", "l">>}

=============================================================================
