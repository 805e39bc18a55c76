---------------------------- MODULE MC_Supervisor ----------------------------
(* Small instances of Supervisor for TLC.                                 *)
EXTENDS Supervisor

\* A bhyve VM with a loader phase, a loader timeout, one net, an auto
\* console and reboot_on_change; variants change one field at a time.
Base == [boot |-> "YES", delay |-> FALSE, roc |-> TRUE, nets |-> 1,
         loader |-> TRUE, lto |-> TRUE, com |-> AutoCom, install |-> FALSE,
         bhyve |-> TRUE]

\* Lifecycle and reload: boot policy changes, a structural change, a delay.
DefsLifecycle ==
    { Base,
      [Base EXCEPT !.boot = "ALWAYS"],
      [Base EXCEPT !.boot = "NO"] }

\* Structural change under reboot_on_change with a boot delay, and a
\* definition that does not boot, so reloads reach STOP and RESTART; and
\* without reboot_on_change a console turned from none to "auto" while
\* the loader runs, so the stale-pid return of start_virtual_machine is
\* reachable too.
DefsChange ==
    { Base,
      [Base EXCEPT !.nets = 0, !.delay = TRUE],
      [Base EXCEPT !.boot = "NO"],
      [Base EXCEPT !.roc = FALSE, !.com = -1],
      [Base EXCEPT !.roc = FALSE] }

\* reboot_on_change off: a structural change is adopted without a reboot.
DefsNoReboot ==
    { [Base EXCEPT !.roc = FALSE],
      [Base EXCEPT !.roc = FALSE, !.nets = 0] }

\* Shutdown and timers: a VM that always restarts and one that boots late.
DefsShutdown ==
    { [Base EXCEPT !.boot = "ALWAYS"],
      [Base EXCEPT !.delay = TRUE, !.com = -1] }

\* reboot_on_change off and a console that a reload turns from none to
\* "auto": the new definition is adopted while the loader runs.
DefsConsole ==
    { [Base EXCEPT !.roc = FALSE, !.com = -1],
      [Base EXCEPT !.roc = FALSE] }

==============================================================================
