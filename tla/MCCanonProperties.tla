-------------------------- MODULE MCCanonProperties ---------------------------
(***************************************************************************)
(* A camera whose dials go through values of the tables and others: a    *)
(* half stop between apertures, 1/5000 at the third it belongs to, ISO     *)
(* auto; and a property that the library does not know.                    *)
(***************************************************************************)
EXTENDS CanonProperties, TLC

ExpComp == \HD104

FourDials ==
    \HD101 :> <<\H2D, \H2C, \H30>> @@
    \HD102 :> <<\H98, \H9B, \H9D>> @@
    \HD103 :> <<\H00, \H58>> @@
    ExpComp :> <<0, 3>>

\* All but the shutter speed can be set, as in a mode where the camera chooses it.
NotShutter == Codes \ {\HD102}

\* What the demonstration sets, or could; a value that is not in the table, and a property
\* that is in none.
DemoWanted ==
    {<<"Aperture", <<56, 10>>>>, <<"ISO", <<400, 1>>>>, <<"ShutterSpeed", <<1, 4000>>>>,
     <<"ISO", <<1, 1>>>>, <<"EVComp", <<0, 1>>>>}
=============================================================================
