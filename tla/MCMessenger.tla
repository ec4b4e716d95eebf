---------------------------- MODULE MCMessenger ----------------------------
(* Instances of L1ScrollMessenger for TLC. *)
EXTENDS L1ScrollMessenger

MessengerEntries == Enforced .. MaxQueue - 1

=============================================================================
