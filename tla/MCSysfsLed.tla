----------------------------- MODULE MCSysfsLed -----------------------------
(* Processes that set one LED of the sysfs backend. *)
EXTENDS SysfsLed
==============================================================================
