------------------------------ MODULE Watchdog ------------------------------
(***************************************************************************)
(* The supervisor that restarts the browser (src/src/watchdog.c): a main   *)
(* loop that spawns a child, watches for its exit, restarts it after a     *)
(* backoff, gives up after a burst of failures, and hands SIGINT and       *)
(* SIGTERM on; and in the child the guard against a dead parent and the    *)
(* thread that ends a child whose main loop hangs.                         *)
(*                                                                         *)
(* Time passes in ticks.  What the code compares with a limit is kept as   *)
(* an age, which stops growing one tick past the limit; a timer is what is *)
(* left of it, and it may be dispatched late.  g_main_loop_quit ends the   *)
(* loop after the handlers that are ready with the one that called it.     *)
(***************************************************************************)
EXTENDS Integers, Sequences, FiniteSets

CONSTANTS BurstMax, \* NS_WATCHDOG_BURST_MAX
          Burst,    \* NS_WATCHDOG_BURST_SECS
          Backoff,  \* NS_WATCHDOG_BACKOFF_MS
          Stable,   \* NS_WATCHDOG_STABLE_SECS
          Grace,    \* NS_WATCHDOG_STOP_GRACE_SECS
          Beat,     \* NS_WATCHDOG_BEAT_SECS
          Hang,     \* g_hang_secs
          Adopters  \* who may become the parent of an orphan: init, a subreaper

ASSUME WatchdogAssumption ==
  /\ BurstMax \in Nat \ {0} /\ Burst \in Nat /\ Stable \in Nat
  /\ Backoff \in Nat /\ Grace \in Nat /\ Beat \in Nat \ {0} /\ Hang \in Nat /\ Beat <= Hang
  /\ Adopters \in SUBSET {"init", "subreaper"} /\ Adopters # {}

VARIABLES loop,       \* the main loop: "start", "running", "quitting", "ended", or "killed"
          stopping,   \* stopping
          child,      \* the child: "none", "boot" before the guard, "up", or how it ended
          told,       \* the signal that the child has been sent
          upAge,      \* since spawned_us
          burstCount, \* burst_count
          burstAge,   \* since burst_start_us
          retried,    \* recover_streak > 0
          respawnIn,  \* until the respawn, or NoTimer
          killIn,     \* until the forced kill, or NoTimer
          status,     \* exit_status
          beatAge,    \* since the last beat
          beaten,     \* g_beat differs from last
          quietAge,   \* since last_change
          blocked,    \* the main loop of the child does not run
          blockedFor, \* for how long it did not, the last time
          fails,      \* ages of the failures of the last Burst ticks, oldest first
          restored    \* a child has been told to recover since the last stable run
burst == <<burstCount, burstAge>>
hang  == <<beatAge, beaten, quietAge, blocked, blockedFor>>
past  == <<fails, restored>>
vars  == <<loop, stopping, child, told, upAge, burst, retried, respawnIn, killIn, status, hang, past>>

NoTimer == Backoff + Grace + 1
Ends    == {"clean", "failed", "hung", "signal"}

Alive   == child \in {"boot", "up"}
HavePid == child # "none"   \* have_pid
Gone    == loop \in {"ended", "killed"}
Handles == loop \in {"running", "quitting"}

WatchdogInit ==
  /\ loop = "start" /\ stopping = FALSE /\ child = "none" /\ told = "nothing"
  /\ upAge = 0 /\ burstCount = 0 /\ burstAge = 0 /\ retried = FALSE
  /\ respawnIn = NoTimer /\ killIn = NoTimer /\ status = 0
  /\ beatAge = 0 /\ beaten = FALSE /\ quietAge = 0 /\ blocked = FALSE /\ blockedFor = 0
  /\ fails = <<>> /\ restored = FALSE

-----------------------------------------------------------------------------
(* Time *)

\* An age after a tick, when limit is the largest that matters.
Older(age, limit) == IF age < limit THEN age + 1 ELSE age
Left(timer)       == IF timer \in 1..(NoTimer - 1) THEN timer - 1 ELSE timer

\* The failures that are not more than Burst old after a tick: those that are
\* come first.
StillRecent ==
  LET old == Cardinality({n \in DOMAIN fails : fails[n] >= Burst})
  IN  [n \in 1..(Len(fails) - old) |-> fails[n + old] + 1]

\* A main loop that is not blocked beats when its time has come.
Tick ==
  /\ loop # "start"
  /\ child = "up" => blocked \/ beatAge < Beat
  /\ upAge' = Older(upAge, Stable + 1)
  /\ burstAge' = Older(burstAge, Burst + 1)
  /\ respawnIn' = Left(respawnIn) /\ killIn' = Left(killIn)
  /\ IF child = "up"
     THEN /\ beatAge' = Older(beatAge, Beat) /\ quietAge' = Older(quietAge, Hang + 1)
          /\ blockedFor' = IF blocked THEN Older(blockedFor, Hang + 1) ELSE blockedFor
     ELSE UNCHANGED <<beatAge, quietAge, blockedFor>>
  /\ fails' = IF loop = "running" THEN StillRecent ELSE fails
  /\ UNCHANGED <<loop, stopping, child, told, burstCount, retried, status, beaten, blocked, restored>>

-----------------------------------------------------------------------------
(* The supervisor *)

\* ns_watchdog_spawn, in recovery mode or not.
Spawn(recover) ==
  /\ child' = "boot" /\ told' = "nothing" /\ upAge' = 0
  /\ restored' = (restored \/ recover)
  /\ UNCHANGED <<loop, status>>

SpawnFails ==
  /\ status' = 1
  /\ loop' = IF loop = "start" THEN "ended" ELSE "quitting"
  /\ UNCHANGED <<child, told, upAge, restored>>

\* ns_watchdog_run_supervisor, to the main loop.
Start ==
  /\ loop = "start"
  /\ \/ /\ child' = "boot" /\ loop' = "running" /\ UNCHANGED <<status, told, upAge, restored>>
     \/ SpawnFails
  /\ UNCHANGED <<stopping, burst, retried, respawnIn, killIn, hang, fails>>

\* ns_watchdog_respawn_cb: the first retry of a streak recovers.
RespawnCb ==
  /\ Handles /\ respawnIn = 0
  /\ respawnIn' = NoTimer
  /\ IF stopping THEN UNCHANGED <<loop, status, child, told, upAge, restored, retried>>
                 ELSE retried' = TRUE /\ (Spawn(~retried) \/ SpawnFails)
  /\ UNCHANGED <<stopping, burst, killIn, hang, fails>>

\* Mutant of BurstOver: the count is never started anew.
BurstNeverOver == FALSE

BurstOver == burstAge > Burst

\* ns_watchdog_schedule_restart
ScheduleRestart ==
  LET count == (IF BurstOver THEN 0 ELSE burstCount) + 1 IN
  /\ burstCount' = count
  /\ burstAge' = IF BurstOver THEN 0 ELSE burstAge
  /\ IF count > BurstMax
     THEN status' = 1 /\ loop' = "quitting" /\ UNCHANGED respawnIn
     ELSE respawnIn' = Backoff /\ UNCHANGED <<status, loop>>
  /\ fails' = Append(fails, 0)

\* Mutant of StreakAfter: the end of each run ends the streak.
NoStreakAfter == FALSE

\* recover_streak once a run has ended.
StreakAfter == retried /\ upAge <= Stable

\* Nothing is restarted: g_main_loop_quit.
Quit(code) ==
  /\ loop' = "quitting" /\ status' = code
  /\ UNCHANGED <<burst, respawnIn, fails>>

\* ns_watchdog_child_exited
ChildExited ==
  /\ Handles /\ child \in Ends
  /\ child' = "none"
  /\ retried' = StreakAfter
  /\ restored' = (restored /\ upAge <= Stable)
  /\ IF stopping THEN Quit(status)
     ELSE IF child \in {"clean", "signal"} THEN Quit(0)
     ELSE ScheduleRestart
  /\ UNCHANGED <<stopping, told, upAge, killIn, hang>>

\* A signal that reaches the child: once sent a SIGKILL it ends in any case.
Signal(sig) == told' = IF Alive THEN (IF told = "kill" THEN "kill" ELSE sig) ELSE told

\* Mutant of SignalCb: no forced kill follows.
SignalNoGrace ==
  /\ Handles /\ ~stopping
  /\ stopping' = TRUE /\ status' = 0
  /\ IF HavePid THEN Signal("term") /\ UNCHANGED loop ELSE loop' = "quitting" /\ UNCHANGED told
  /\ UNCHANGED <<killIn, child, upAge, burst, retried, respawnIn, hang, past>>

\* ns_watchdog_signal_cb
SignalCb ==
  /\ Handles /\ ~stopping
  /\ stopping' = TRUE /\ status' = 0
  /\ IF HavePid THEN Signal("term") /\ killIn' = Grace /\ UNCHANGED loop
                ELSE loop' = "quitting" /\ UNCHANGED <<told, killIn>>
  /\ UNCHANGED <<child, upAge, burst, retried, respawnIn, hang, past>>

\* ns_watchdog_force_kill_cb
ForceKillCb ==
  /\ Handles /\ killIn = 0
  /\ killIn' = NoTimer
  /\ IF HavePid THEN Signal("kill") ELSE UNCHANGED told
  /\ UNCHANGED <<loop, stopping, child, upAge, burst, retried, respawnIn, status, hang, past>>

\* The end of ns_watchdog_run_supervisor.
LoopEnds ==
  /\ loop = "quitting"
  /\ loop' = "ended"
  /\ IF HavePid THEN Signal("kill") ELSE UNCHANGED told
  /\ UNCHANGED <<stopping, child, upAge, burst, retried, respawnIn, killIn, status, hang, past>>

\* The supervisor is killed, and the kernel tells a child that has armed its
\* parent death signal.
SupervisorKilled ==
  /\ Handles
  /\ loop' = "killed"
  /\ told' = IF child = "up" /\ told # "kill" THEN "term" ELSE told
  /\ UNCHANGED <<stopping, child, upAge, burst, retried, respawnIn, killIn, status, hang, past>>

-----------------------------------------------------------------------------
(* The child *)

EndsAs(end) ==
  /\ child' = end
  /\ UNCHANGED <<loop, stopping, told, upAge, burst, retried, respawnIn, killIn, status, hang, past>>

\* getppid() == 1: the parent is gone, and it is init that has adopted the child.
\* A user session has a subreaper in its place (systemd --user).
IsOrphan(adopter) == Gone /\ adopter = "init"

\* ns_watchdog_child_guard_parent_death and ns_watchdog_child_arm_hang_monitor
Guard ==
  /\ child = "boot"
  /\ \E adopter \in Adopters :
     IF IsOrphan(adopter) THEN EndsAs("clean")
     ELSE /\ child' = "up"
          /\ beatAge' = 0 /\ beaten' = FALSE /\ quietAge' = 0 /\ blocked' = FALSE /\ blockedFor' = 0
          /\ UNCHANGED <<loop, stopping, told, upAge, burst, retried, respawnIn, killIn, status, past>>

\* The user closes the window, the child crashes, or someone kills it.
ChildEnds ==
  \/ child = "up" /\ ~blocked /\ EndsAs("clean")
  \/ Alive /\ EndsAs("failed")
  \/ Alive /\ EndsAs("signal")

\* A child that has been stopped (SIGSTOP) gets a SIGTERM only when it goes on.
Dies == Alive /\ told # "nothing" /\ EndsAs("signal")
Killed == Alive /\ told = "kill" /\ EndsAs("signal")

SetHang(bAge, b, q, bl, blFor) ==
  /\ child = "up"
  /\ beatAge' = bAge /\ beaten' = b /\ quietAge' = q /\ blocked' = bl /\ blockedFor' = blFor
  /\ UNCHANGED <<loop, stopping, child, told, upAge, burst, retried, respawnIn, killIn, status, past>>

\* The main loop does not get round to its timers; to be blocked again it must
\* have, so that a beat which was due has been given.
Block   == ~blocked /\ beatAge < Beat /\ SetHang(beatAge, beaten, quietAge, TRUE, 0)
Unblock == blocked /\ SetHang(beatAge, beaten, quietAge, FALSE, blockedFor)

\* ns_watchdog_beat
DoBeat == ~blocked /\ beatAge = Beat /\ SetHang(0, TRUE, quietAge, blocked, blockedFor)

\* Mutant of SeesBeat: the time of the change is not kept.
SeesBeatOnly == beaten /\ SetHang(beatAge, FALSE, quietAge, blocked, blockedFor)

\* Another: the time is kept at every look.
SeesAnything == SetHang(beatAge, FALSE, 0, blocked, blockedFor)

\* ns_watchdog_hang_thread looks at the beat: it has changed, or it has not for
\* longer than the limit.
SeesBeat == beaten /\ SetHang(beatAge, FALSE, 0, blocked, blockedFor)
HangExit == child = "up" /\ ~beaten /\ quietAge > Hang /\ EndsAs("hung")

-----------------------------------------------------------------------------
WatchdogNext ==
  \/ Tick
  \/ Start \/ RespawnCb \/ ChildExited \/ SignalCb \/ ForceKillCb \/ LoopEnds \/ SupervisorKilled
  \/ Guard \/ ChildEnds \/ Dies \/ Block \/ Unblock \/ DoBeat \/ SeesBeat \/ HangExit

\* Time passes, the main loop dispatches what is ready, SIGKILL kills, and the
\* threads of the child run.
WatchdogFairness ==
  /\ WF_vars(Tick)
  /\ WF_vars(RespawnCb) /\ WF_vars(ChildExited) /\ WF_vars(ForceKillCb) /\ WF_vars(LoopEnds)
  /\ WF_vars(Killed)
  /\ WF_vars(DoBeat) /\ WF_vars(SeesBeat \/ HangExit)

WatchdogSpec == WatchdogInit /\ [][WatchdogNext]_vars /\ WatchdogFairness

-----------------------------------------------------------------------------
(* Properties *)

\* Type invariant of the supervisor and its child (fails is a note for the
\* properties).
WatchdogTypeOK ==
  /\ loop \in {"start", "running", "quitting", "ended", "killed"}
  /\ child \in {"none", "boot", "up"} \cup Ends
  /\ told \in {"nothing", "term", "kill"}
  /\ stopping \in BOOLEAN /\ retried \in BOOLEAN /\ restored \in BOOLEAN
  /\ upAge \in 0..(Stable + 1) /\ burstAge \in 0..(Burst + 1) /\ burstCount \in 0..(BurstMax + 1)
  /\ respawnIn \in 0..NoTimer /\ killIn \in 0..NoTimer /\ status \in {0, 1}
  /\ beatAge \in 0..Beat /\ beaten \in BOOLEAN /\ quietAge \in 0..(Hang + 1)
  /\ blocked \in BOOLEAN /\ blockedFor \in 0..(Hang + 1)

GaveUp == burstCount > BurstMax

\* The supervisor gives up only on more than BurstMax failures within Burst, and
\* it goes on after at most twice as many: a burst is counted from its first
\* failure, so that a time of that length may reach into two.
RetriesBounded ==
  loop \in {"running", "quitting"} =>
    IF GaveUp THEN Len(fails) > BurstMax ELSE Len(fails) <= 2 * BurstMax

\* The child that is started after a failure is told to recover exactly if none
\* has been since the last run that was stable: a session that makes the browser
\* crash is reopened once, and one that was lost in a stable run always is.
RecoversOnce ==
  [][loop = "running" /\ child = "none" /\ child' = "boot" => restored' /\ (retried <=> restored)]_vars

\* The comment of ns_watchdog_child_guard_parent_death (watchdog.c:85): the child
\* "get[s] SIGTERM when the supervisor dies; exits if already orphaned", so that
\* none that is past the guard outlives its supervisor without a signal under way.
\* The code does not keep this where a subreaper adopts orphans.
NoOrphan == Gone /\ child = "up" => told # "nothing"

\* A child is ended as hung only when its main loop did not run for nearly the
\* whole limit, which is the budget of scripts and a minute.
OnlyHungExits == child = "hung" => blockedFor + Beat > Hang

\* A stop ends the child and the supervisor, even if SIGTERM does nothing, unless
\* the supervisor is killed first.
StopEnds == stopping ~> (loop = "ended" /\ ~Alive) \/ loop = "killed"

\* A main loop that stays blocked is noticed.
HangEnds == child = "up" /\ blocked ~> ~blocked \/ child # "up"

=============================================================================
