------------------------ MODULE MCInstallTransaction ------------------------
(***************************************************************************)
(* Two directories and three files of an installation, one path of the     *)
(* legacy one: the host, the AutoCAD bundle, the install state, a manifest *)
(* of an installed Revit and one of a Revit that is gone.                  *)
(***************************************************************************)
EXTENDS InstallTransaction

MCDirectories == {"host", "bundle", "legacyHost"}
MCFiles == {"state", "manifest2024", "manifest2025"}
MCStateFile == "state"
MCBackupOrder == <<"host", "bundle", "state", "manifest2024", "manifest2025">>
MCLegacyOrder == <<"legacyHost">>
MCPlaceOrder == <<"host", "manifest2025", "bundle">>
MCOwnedOrder == <<"host", "bundle", "manifest2025">>
=============================================================================
