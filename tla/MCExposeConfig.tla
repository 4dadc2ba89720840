--------------------------- MODULE MCExposeConfig ---------------------------
(* Two storage classes, so a mapping can exist for the source class, for   *)
(* another class only, or redirect to another class; an unsupported access *)
(* mode; a nil, a zero and two non-zero sizes; an unset node OS.           *)
EXTENDS ExposeConfig

CONSTANT MCNoSize

MCStorageClasses == {"gold", "silver"}
MCAccessModes    == {"filesystem", "block", "unknown"}
MCSizes          == {0, 5, 10}
MCNodeOSes       == {"linux", "windows", ""}

=============================================================================
