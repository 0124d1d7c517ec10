--------------------------- MODULE MCModuleRegistry ---------------------------
(* The registry of modules for TLC: a module with one migration that main     *)
(* initialises (the sentinel) and a guarded one with two (the migrator).      *)
EXTENDS ModuleRegistry, TLC

OneAndTwo == <<1, 2>>
InterchangeableAdmins == Permutations(Admins)
=============================================================================
