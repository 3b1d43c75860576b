---------------------------- MODULE Watchdog ----------------------------
(***************************************************************************)
(* Instances, devices and the watchdog (panvk_v9_entrypoints.c): it is     *)
(* armed when a device is destroyed and says, six seconds later, whether   *)
(* an instance was destroyed since.  The globals are read and written by   *)
(* the application's threads and by the watchdog's without a lock, so two  *)
(* vkDestroyDevice may both find it unarmed.                               *)
(***************************************************************************)
EXTENDS Naturals

CONSTANTS
  Instances,  \* addresses of instances, each with at most one device and one thread using it
  Watchers    \* bound: the watchdog's threads at a time

ASSUME WatchersAssumption == Watchers # {}

VARIABLES
  made,       \* per instance: "none", "instance" or "device"
  armed,      \* g_watch_armed
  destroyed,  \* g_watch_inst_destroyed
  arming,     \* per instance its thread in pvk_arm_watchdog, and per watchdog's thread:
  watcher,    \* a round, see Rounds
  verdict     \* what a watchdog said last: "none", "fine" or "hang"

watchdog == <<made, armed, destroyed, arming, watcher, verdict>>

\* A round begins when a vkDestroyDevice finds the watchdog unarmed.  History: an instance
\* was destroyed since then, and the flag that says so was reset after that.
Rounds(places) == [at : places, since : BOOLEAN, lost : BOOLEAN]
Round(place) == [at |-> place, since |-> FALSE, lost |-> FALSE]

WatchdogInit ==
  /\ made = [i \in Instances |-> "none"]
  /\ armed = FALSE /\ destroyed = FALSE /\ verdict = "none"
  /\ arming = [i \in Instances |-> Round("no")]
  /\ watcher = [w \in Watchers |-> Round("none")]

\* vkCreateInstance.
CreateInstance ==
  /\ \E i \in Instances : made[i] = "none" /\ made' = [made EXCEPT ![i] = "instance"]
  /\ UNCHANGED <<armed, destroyed, arming, watcher, verdict>>

\* vkCreateDevice; which features it is asked for changes nothing here.
CreateDevice ==
  /\ \E i \in Instances : /\ arming[i].at = "no" /\ made[i] = "instance"
                          /\ made' = [made EXCEPT ![i] = "device"]
  /\ UNCHANGED <<armed, destroyed, arming, watcher, verdict>>

\* vkDestroyDevice; nothing is armed if the watchdog is.
DestroyDevice ==
  /\ \E i \in Instances :
       /\ made[i] = "device" /\ made' = [made EXCEPT ![i] = "instance"]
       /\ IF armed THEN UNCHANGED arming ELSE arming' = [arming EXCEPT ![i] = Round("set")]
  /\ UNCHANGED <<armed, destroyed, watcher, verdict>>

Marked(rounds) == [r \in DOMAIN rounds |-> [rounds[r] EXCEPT !.lost = @ \/ rounds[r].since]]

\* Mutant of ResetFlag: the flag of the last round is kept.
ResetFlagNever(i) ==
  /\ arming[i].at = "reset"
  /\ arming' = [arming EXCEPT ![i].at = "spawn"]
  /\ UNCHANGED <<made, armed, destroyed, watcher, verdict>>

\* pvk_arm_watchdog, once it has found the watchdog unarmed.
SetArmed(i) ==
  /\ arming[i].at = "set" /\ armed' = TRUE
  /\ arming' = [arming EXCEPT ![i].at = "reset"]
  /\ UNCHANGED <<made, destroyed, watcher, verdict>>

ResetFlag(i) ==
  /\ arming[i].at = "reset" /\ destroyed' = FALSE
  /\ arming' = [Marked(arming) EXCEPT ![i].at = "spawn"]
  /\ watcher' = Marked(watcher)
  /\ UNCHANGED <<made, armed, verdict>>

\* Without a thread the watchdog stays armed and silent for good.
StartWatcher(i) ==
  /\ arming[i].at = "spawn" /\ arming' = [arming EXCEPT ![i].at = "no"]
  /\ \/ UNCHANGED watcher
     \/ \E w \in Watchers : /\ watcher[w].at = "none"
                            /\ watcher' = [watcher EXCEPT ![w] = [arming[i] EXCEPT !.at = "asleep"]]
  /\ UNCHANGED <<made, armed, destroyed, verdict>>

Seen(rounds) == [r \in DOMAIN rounds |-> [rounds[r] EXCEPT !.since = TRUE]]

\* vkDestroyInstance, when the vkDestroyDevice of its own device has returned.
DestroyInstance ==
  /\ \E i \in Instances : /\ arming[i].at = "no" /\ made[i] = "instance"
                          /\ made' = [made EXCEPT ![i] = "none"]
  /\ destroyed' = TRUE /\ arming' = Seen(arming) /\ watcher' = Seen(watcher)
  /\ UNCHANGED <<armed, verdict>>

\* pvk_watchdog_thread wakes up and looks; then it lets the watchdog be armed again.
Wake(w) ==
  /\ watcher[w].at = "asleep" /\ watcher' = [watcher EXCEPT ![w].at = "spoken"]
  /\ verdict' = IF destroyed THEN "fine" ELSE "hang"
  /\ UNCHANGED <<made, armed, destroyed, arming>>

Disarm(w) ==
  /\ watcher[w].at = "spoken" /\ watcher' = [watcher EXCEPT ![w].at = "none"]
  /\ armed' = FALSE
  /\ UNCHANGED <<made, destroyed, arming, verdict>>

WatchdogNext ==
  \/ CreateInstance \/ CreateDevice \/ DestroyDevice \/ DestroyInstance
  \/ \E i \in Instances : SetArmed(i) \/ ResetFlag(i) \/ StartWatcher(i)
  \/ \E w \in Watchers : Wake(w) \/ Disarm(w)

------------------------------------------------------------------------
WatchdogTypeOK ==
  /\ made \in [Instances -> {"none", "instance", "device"}]
  /\ armed \in BOOLEAN /\ destroyed \in BOOLEAN /\ verdict \in {"none", "fine", "hang"}
  /\ arming \in [Instances -> Rounds({"no", "set", "reset", "spawn"})]
  /\ watcher \in [Watchers -> Rounds({"none", "asleep", "spoken"})]

\* What a watchdog would say on waking up, over any number of rounds and however the
\* threads interleave: "OK" only if an instance was destroyed since the vkDestroyDevice
\* that began its round, and "NOT called" only if none was, or if the flag was reset after
\* that: by its own vkDestroyDevice, which another thread's vkDestroyInstance came before,
\* or by another that found the watchdog unarmed as well.
VerdictTrue ==
  \A w \in Watchers : watcher[w].at = "asleep" =>
    /\ destroyed => watcher[w].since
    /\ watcher[w].since /\ ~watcher[w].lost => destroyed

========================================================================
