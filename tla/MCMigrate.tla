------------------------------ MODULE MCMigrate -----------------------------
(* An instance of Migrate for TLC: a vault and a kv-admin command of the    *)
(* new release with two files and a vault of the old one with one file.     *)
EXTENDS Migrate

CONSTANTS old, new, admin

MCProcs == {old, new, admin}
MCHas == [p \in MCProcs |-> IF p = old THEN 1 ELSE 2]
=============================================================================
