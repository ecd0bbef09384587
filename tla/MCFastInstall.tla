---------------------------- MODULE MCFastInstall ----------------------------
(***************************************************************************)
(* Two packages, one file each, over a base with a third file.             *)
(***************************************************************************)
EXTENDS FastInstall

MCShips == << {"a"}, {"b"} >>
============================================================================
