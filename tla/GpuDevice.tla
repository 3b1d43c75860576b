--------------------------- MODULE GpuDevice ---------------------------
(***************************************************************************)
(* What the device layer (pan_kmod_kbase.c) promises to the code above it. *)
(* The GPU context is open, poisoned (it hung; nothing more is sent to it) *)
(* or closed (dev->kdev is NULL).  At most one caller waits for an atom,   *)
(* and it never sees the context change under it.  A poisoned context is   *)
(* only ever closed, and a closed one stays closed: the marker, which is   *)
(* on file by then, refuses another.  Restart is the one exception: a new  *)
(* device object, made while nobody uses the old one.                      *)
(***************************************************************************)
VARIABLES
  health,  \* "open", "poisoned" or "closed"
  marked,  \* the reboot-aware marker names this boot
  waiting  \* a caller waits for an atom it sent

device == <<health, marked, waiting>>

Health == {"open", "poisoned", "closed"}

DeviceInit == health = "open" /\ marked = FALSE /\ waiting = FALSE

\* kbase_submit_job accepted the atom.
Start ==
  /\ health = "open" /\ ~waiting /\ waiting' = TRUE
  /\ UNCHANGED <<health, marked>>

\* The wait for it ended.
End ==
  /\ waiting /\ waiting' = FALSE
  /\ UNCHANGED <<health, marked>>

\* A non-fragment atom timed out, or was refused by a busy kernel.
Poison ==
  /\ ~waiting /\ health # "closed" /\ health' = "poisoned"
  /\ UNCHANGED <<marked, waiting>>

\* The marker is written: after a poisoning, or for a fragment that rendered nothing.
Mark ==
  /\ marked' = TRUE
  /\ UNCHANGED <<health, waiting>>

\* pan_kmod_dev_reopen after a fragment's timeout.
Replace ==
  /\ ~waiting /\ health = "open"
  /\ health' = "closed" \/ (~marked /\ health' = "open")
  /\ UNCHANGED <<marked, waiting>>

\* vkDestroyInstance, vkCreateInstance.
Restart ==
  /\ ~waiting
  /\ health' = "closed" \/ (~marked /\ health # "poisoned" /\ health' = "open")
  /\ UNCHANGED <<marked, waiting>>

DeviceNext == Start \/ End \/ Poison \/ Mark \/ Replace \/ Restart

DeviceSpec == DeviceInit /\ [][DeviceNext]_device

==========================================================================
