-------------------------------- MODULE MCEpaper --------------------------------
(* Instance of Epaper: two rows, one name; two values of a row are enough to    *)
(* tell old from new, since a smaller layout clears it.                         *)
EXTENDS Epaper

CONSTANT a

MCNames == {a}
===============================================================================
