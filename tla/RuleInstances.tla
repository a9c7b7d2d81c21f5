---------------------------- MODULE RuleInstances ----------------------------
(* The rules of inventories and of records, under names of their own: they   *)
(* share operator names with one another and with the other rules.           *)

Iv == INSTANCE InventoryRules
Rc == INSTANCE RecordRules
=============================================================================
