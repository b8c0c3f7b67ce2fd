-------------------------------- MODULE MCTabs --------------------------------
(***************************************************************************)
(* Instances of Tabs for TLC.                                              *)
(***************************************************************************)
EXTENDS Tabs

TabSlots == Tabs \X {"refresh", "sign"}
TabOps == {"login", "refresh", "logout"}
=============================================================================
