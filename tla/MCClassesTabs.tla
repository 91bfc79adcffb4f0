--------------------------- MODULE MCClassesTabs ---------------------------
(***************************************************************************)
(* Three tabs in a vector that reserves two, two texts, one of which the   *)
(* member takes, and files with settings of a build that had one choice    *)
(* more for the scale, two for the theme; the process ends at any moment,  *)
(* at most twice.                                                          *)
(***************************************************************************)
EXTENDS ClassesTabs

CONSTANT Theme

MCKeys    == {Scale, Theme}
MCCount   == [k \in MCKeys |-> IF k = Scale THEN 2 ELSE 1]
MCDefault == [k \in MCKeys |-> IF k = Scale THEN 1 ELSE 0]
MCStored  == {-1, 0, 1, 2}

=============================================================================
