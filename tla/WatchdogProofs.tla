--------------------------- MODULE WatchdogProofs ---------------------------
(***************************************************************************)
(* The supervisor for any limits: which children recover, that no child is *)
(* left behind, that none is ended as hung while its main loop runs, and   *)
(* how many failures there are before the supervisor gives up.             *)
(*                                                                         *)
(* That a child is hung is concluded from the time of the last change of   *)
(* the beat that was seen.  The invariant says how this is bounded by the  *)
(* time since the last beat: by its age until the next is due, and then by *)
(* the time for which the main loop has been blocked.                      *)
(*                                                                         *)
(* The burst is counted from its first failure, so that the failures of a  *)
(* time as long as a burst are those of this burst, which are counted, and *)
(* the older ones of the burst before, of which there are at most as many  *)
(* as a burst has.                                                         *)
(***************************************************************************)
EXTENDS Watchdog, FiniteSetTheorems, SequenceTheorems, TLAPS

Quiet ==
  child = "up" /\ ~beaten =>
    /\ quietAge <= Beat + blockedFor
    /\ beatAge < Beat => quietAge <= beatAge

Ages == beatAge \in 0..Beat /\ quietAge \in 0..(Hang + 1) /\ blockedFor \in 0..(Hang + 1)

\* While it runs the supervisor has counted a recovery in recover_streak.
Streak == /\ retried \in BOOLEAN /\ restored \in BOOLEAN
          /\ loop \in {"start", "running"} => (retried <=> restored)

Begun == loop = "start" => child = "none"

WatchdogInv == Ages /\ Quiet /\ OnlyHungExits /\ Streak /\ Begun

\* The invariant holds at the start.
LEMMA WatchdogInvInit == WatchdogInit => WatchdogInv
<1> SUFFICES ASSUME WatchdogInit PROVE WatchdogInv OBVIOUS
<1>1. Beat \in Nat /\ Hang \in Nat BY WatchdogAssumption DEF WatchdogAssumption
<1>2. Ages BY <1>1 DEF WatchdogInit, Ages
<1>3. Streak BY DEF WatchdogInit, Streak
<1>4. Quiet /\ OnlyHungExits /\ Begun BY DEF WatchdogInit, Quiet, OnlyHungExits, Begun
<1> QED BY <1>2, <1>3, <1>4 DEF WatchdogInv

\* What an age is after a tick.
LEMMA OlderAge ==
  ASSUME NEW limit \in Nat, NEW age \in 0..limit
  PROVE  Older(age, limit) \in 0..limit /\ Older(age, limit) <= age + 1 /\ Older(age, limit) >= age
         /\ (age < limit => Older(age, limit) = age + 1) /\ (age = limit => Older(age, limit) = limit)
BY DEF Older

\* What is at most an age is at most its limit and more.
LEMMA BelowSum ==
  ASSUME NEW q \in Nat, NEW age \in Nat, NEW limit \in Nat, NEW rest \in Nat, q <= age, age <= limit
  PROVE  q <= limit + rest
OBVIOUS

\* The passing of time keeps the invariant.
LEMMA TickKeeps == ASSUME WatchdogInv, Tick PROVE WatchdogInv'
<1> USE DEF WatchdogInv
<1>0. Beat \in Nat /\ Hang \in Nat /\ Beat > 0 BY WatchdogAssumption DEF WatchdogAssumption
<1>1. /\ child' = child /\ loop' = loop /\ beaten' = beaten /\ blocked' = blocked
      /\ retried' = retried /\ restored' = restored
  BY DEF Tick
<1>2. Streak' /\ Begun' BY <1>1 DEF Streak, Begun
<1>3. CASE child # "up"
  <2>1. beatAge' = beatAge /\ quietAge' = quietAge /\ blockedFor' = blockedFor BY <1>3 DEF Tick
  <2> QED BY <1>1, <1>2, <1>3, <2>1 DEF Ages, Quiet, OnlyHungExits
<1>4. CASE child = "up"
  <2>1. /\ beatAge' = Older(beatAge, Beat) /\ quietAge' = Older(quietAge, Hang + 1)
        /\ blockedFor' = IF blocked THEN Older(blockedFor, Hang + 1) ELSE blockedFor
        /\ blocked \/ beatAge < Beat
    BY <1>4 DEF Tick
  <2>2. /\ beatAge' \in 0..Beat /\ quietAge' \in 0..(Hang + 1) /\ quietAge' <= quietAge + 1
        /\ beatAge' = IF beatAge < Beat THEN beatAge + 1 ELSE Beat
        /\ Older(blockedFor, Hang + 1) = IF blockedFor < Hang + 1 THEN blockedFor + 1 ELSE Hang + 1
    BY <1>0, <2>1, OlderAge DEF Ages, Older
  <2>3. Ages' BY <1>0, <2>1, <2>2 DEF Ages
  <2>4. ASSUME ~beaten PROVE quietAge' <= Beat + blockedFor' /\ (beatAge' < Beat => quietAge' <= beatAge')
    <3>1. quietAge <= Beat + blockedFor /\ (beatAge < Beat => quietAge <= beatAge)
      BY <1>4, <2>4 DEF Quiet
    <3>2. blockedFor \in Nat /\ quietAge \in Nat /\ beatAge \in 0..Beat /\ Beat \in Nat /\ Hang \in Nat BY <1>0 DEF Ages
    <3>3. CASE beatAge < Beat
      <4>1. quietAge' <= beatAge + 1 /\ beatAge' = beatAge + 1 BY <2>2, <3>1, <3>2, <3>3
      <4>2. blockedFor' \in Nat BY <2>3 DEF Ages
      <4>3. quietAge' \in Nat /\ beatAge' \in Nat /\ beatAge' <= Beat BY <2>2, <3>2
      <4>4. quietAge' <= beatAge' BY <4>1
      <4>5. quietAge' <= Beat + blockedFor' BY <3>2, <4>2, <4>3, <4>4, BelowSum
      <4> QED BY <4>4, <4>5
    <3>4. CASE ~(beatAge < Beat)
      <4>1. blocked /\ beatAge' = Beat BY <2>1, <2>2, <3>4
      <4>2. blockedFor' = IF blockedFor < Hang + 1 THEN blockedFor + 1 ELSE Hang + 1 BY <2>1, <2>2, <4>1
      <4>3. quietAge' <= Beat + blockedFor' BY <2>2, <3>1, <3>2, <4>2
      <4> QED BY <3>2, <4>1, <4>3
    <3> QED BY <3>3, <3>4
  <2>5. Quiet' BY <1>1, <2>4 DEF Quiet
  <2>6. OnlyHungExits' BY <1>1, <1>4 DEF OnlyHungExits
  <2> QED BY <1>2, <2>3, <2>5, <2>6
<1> QED BY <1>3, <1>4

\* A step of the supervisor leaves the hang monitor alone, and the recoveries
\* counted.
LEMMA SupervisorKeeps ==
  ASSUME WatchdogInv,
         Start \/ RespawnCb \/ ChildExited \/ SignalCb \/ ForceKillCb \/ LoopEnds \/ SupervisorKilled
  PROVE  WatchdogInv'
<1> USE DEF WatchdogInv
<1>1. UNCHANGED hang /\ (child' = child \/ child' = "none" \/ child' = "boot")
  BY DEF Start, RespawnCb, ChildExited, SignalCb, ForceKillCb, LoopEnds, SupervisorKilled, Spawn, SpawnFails
<1>2. Ages' /\ Quiet' /\ OnlyHungExits' BY <1>1 DEF hang, Ages, Quiet, OnlyHungExits
<1>3. Streak'
  <2>1. CASE Start BY <2>1 DEF Start, SpawnFails, Streak
  <2>2. CASE RespawnCb BY <2>2 DEF RespawnCb, Handles, Spawn, SpawnFails, Streak
  <2>3. CASE ChildExited
    <3>1. loop \in {"running", "quitting"} /\ retried' = (retried /\ upAge <= Stable)
          /\ restored' = (restored /\ upAge <= Stable) /\ loop' \in {loop, "quitting"}
      BY <2>3 DEF ChildExited, Handles, StreakAfter, Quit, ScheduleRestart
    <3> QED BY <3>1 DEF Streak
  <2>4. CASE SignalCb \/ ForceKillCb \/ LoopEnds \/ SupervisorKilled
    BY <2>4 DEF SignalCb, ForceKillCb, LoopEnds, SupervisorKilled, Handles, past, Streak
  <2> QED BY <2>1, <2>2, <2>3, <2>4
<1>4. Begun'
  BY DEF Begun, Start, RespawnCb, ChildExited, SignalCb, ForceKillCb, LoopEnds, SupervisorKilled, Spawn,
     SpawnFails, Handles, Quit, ScheduleRestart
<1> QED BY <1>2, <1>3, <1>4

\* A step of the child.
LEMMA ChildKeeps ==
  ASSUME WatchdogInv, Guard \/ ChildEnds \/ Dies \/ Block \/ Unblock \/ DoBeat \/ SeesBeat \/ HangExit
  PROVE  WatchdogInv'
<1> USE DEF WatchdogInv
<1>0. Beat \in Nat /\ Hang \in Nat /\ Beat > 0 BY WatchdogAssumption DEF WatchdogAssumption
<1>1. UNCHANGED <<loop, retried, past>> /\ child # "none"
  BY DEF Guard, ChildEnds, Dies, Block, Unblock, DoBeat, SeesBeat, HangExit, EndsAs, SetHang, Alive
<1>2. Streak' /\ Begun' BY <1>1 DEF past, Streak, Begun
<1>3. ASSUME NEW e, EndsAs(e), e \in {"clean", "failed", "signal"} PROVE Ages' /\ Quiet' /\ OnlyHungExits'
  BY <1>3 DEF EndsAs, hang, Ages, Quiet, OnlyHungExits
<1>4. CASE Guard
  <2>1. CASE EndsAs("clean") BY <1>2, <1>3, <2>1
  <2>2. CASE ~EndsAs("clean")
    <3>1. child' = "up" /\ beatAge' = 0 /\ beaten' = FALSE /\ quietAge' = 0 /\ blocked' = FALSE /\ blockedFor' = 0
      BY <1>4, <2>2 DEF Guard
    <3>2. Ages' /\ quietAge' <= Beat + blockedFor' /\ quietAge' <= beatAge' BY <1>0, <3>1 DEF Ages
    <3> QED BY <1>2, <3>1, <3>2 DEF Quiet, OnlyHungExits
  <2> QED BY <2>1, <2>2
<1>5. CASE ChildEnds \/ Dies BY <1>2, <1>3, <1>5 DEF ChildEnds, Dies
<1>6. CASE Block \/ Unblock \/ DoBeat \/ SeesBeat
  <2>1. child = "up" /\ child' = "up" BY <1>6 DEF Block, Unblock, DoBeat, SeesBeat, SetHang
  <2>2. CASE Block BY <1>0, <1>2, <2>1, <2>2 DEF Block, SetHang, Ages, Quiet, OnlyHungExits
  <2>3. CASE Unblock BY <1>0, <1>2, <2>1, <2>3 DEF Unblock, SetHang, Ages, Quiet, OnlyHungExits
  <2>4. CASE DoBeat BY <1>0, <1>2, <2>1, <2>4 DEF DoBeat, SetHang, Ages, Quiet, OnlyHungExits
  <2>5. CASE SeesBeat
    <3>1. quietAge' = 0 /\ beatAge' = beatAge /\ blockedFor' = blockedFor BY <2>5 DEF SeesBeat, SetHang
    <3>2. Ages' /\ quietAge' <= Beat + blockedFor' /\ quietAge' <= beatAge' BY <1>0, <3>1 DEF Ages
    <3> QED BY <1>2, <2>1, <3>2 DEF Quiet, OnlyHungExits
  <2> QED BY <1>6, <2>2, <2>3, <2>4, <2>5
<1>7. CASE HangExit
  <2>1. child = "up" /\ ~beaten /\ quietAge > Hang /\ child' = "hung" /\ UNCHANGED hang
    BY <1>7 DEF HangExit, EndsAs
  <2>2. blockedFor + Beat > Hang BY <1>0, <2>1 DEF Quiet, Ages
  <2> QED BY <1>2, <2>1, <2>2 DEF hang, Ages, Quiet, OnlyHungExits
<1> QED BY <1>4, <1>5, <1>6, <1>7

\* Every step keeps the invariant.
LEMMA WatchdogStep == WatchdogInv /\ [WatchdogNext]_vars => WatchdogInv'
<1> SUFFICES ASSUME WatchdogInv, [WatchdogNext]_vars PROVE WatchdogInv' OBVIOUS
<1>1. CASE UNCHANGED vars
  BY <1>1 DEF vars, hang, past, burst, WatchdogInv, Ages, Quiet, OnlyHungExits, Streak, Begun
<1>2. CASE WatchdogNext BY <1>2, TickKeeps, SupervisorKeeps, ChildKeeps DEF WatchdogNext
<1> QED BY <1>1, <1>2

\* The invariant of the supervisor and its child.
LEMMA WatchdogInvariant == WatchdogSpec => []WatchdogInv
BY WatchdogInvInit, WatchdogStep, PTL DEF WatchdogSpec

\* ns_watchdog_hang_thread ends a child only when its main loop was blocked for
\* all of the limit but the time between two beats.
THEOREM OnlyHungExit == WatchdogSpec => []OnlyHungExits
<1>1. WatchdogInv => OnlyHungExits BY DEF WatchdogInv
<1> QED BY <1>1, WatchdogInvariant, PTL

\* ns_watchdog_respawn_cb has a child recover exactly if none has been told to
\* since the last stable run.
THEOREM RecoverOnce == WatchdogSpec => RecoversOnce
<1>1. ASSUME WatchdogInv, [WatchdogNext]_vars, loop = "running", child = "none", child' = "boot"
      PROVE  restored' /\ (retried <=> restored)
  <2>1. RespawnCb
    BY <1>1 DEF WatchdogNext, vars, Tick, Start, ChildExited, SignalCb, ForceKillCb, LoopEnds, SupervisorKilled,
       Guard, ChildEnds, Dies, Block, Unblock, DoBeat, SeesBeat, HangExit, EndsAs, SetHang, Alive, Ends
  <2>2. restored' = (restored \/ ~retried)
    BY <1>1, <2>1 DEF RespawnCb, Spawn, SpawnFails
  <2> QED BY <1>1, <2>2 DEF WatchdogInv, Streak
<1>2. WatchdogInv /\ [WatchdogNext]_vars =>
        [loop = "running" /\ child = "none" /\ child' = "boot" => restored' /\ (retried <=> restored)]_vars
  BY <1>1
<1> QED BY <1>2, WatchdogInvariant, PTL DEF WatchdogSpec, RecoversOnce

\* A child that has outlived its supervisor without a signal under way.
Orphaned == Gone /\ child = "up" /\ told = "nothing"

\* Why NoOrphan fails, and the only way it does: a child becomes an orphan for
\* good only if its supervisor was gone before it came to
\* ns_watchdog_child_guard_parent_death and a subreaper had adopted it.  A child
\* that was past the guard is always told, and where init adopts orphans there
\* are none.
THEOREM OrphansSlipPast ==
  WatchdogSpec => [][Orphaned' => Orphaned \/ (Gone /\ child = "boot" /\ "subreaper" \in Adopters)]_vars
<1>1. ASSUME WatchdogInv, WatchdogNext, Orphaned'
      PROVE  Orphaned \/ (Gone /\ child = "boot" /\ "subreaper" \in Adopters)
  <2> USE <1>1 DEF Orphaned, Gone
  <2>2. CASE Tick BY <2>2 DEF Tick
  <2>3. CASE Start \/ RespawnCb \/ ChildExited
    <3>1. child' = "boot" \/ child' = "none" \/ (child' = child /\ RespawnCb) \/ (child' = child /\ Start)
      BY <2>3 DEF Start, RespawnCb, ChildExited, Spawn, SpawnFails
    <3>2. RespawnCb => loop' \in {"running", "quitting"}
      BY DEF RespawnCb, Handles, Spawn, SpawnFails
    <3>3. Start => loop = "start" BY DEF Start
    <3>4. CASE child' = "boot" \/ child' = "none" BY <3>4
    <3>5. CASE RespawnCb BY <3>2, <3>5
    <3>6. CASE Start /\ child' = child
      <4>1. child # "up" BY <3>3, <3>6 DEF WatchdogInv, Begun
      <4> QED BY <3>6, <4>1
    <3> QED BY <3>1, <3>4, <3>5, <3>6
  <2>4. CASE SignalCb \/ ForceKillCb BY <2>4 DEF SignalCb, ForceKillCb, Handles, Signal, Alive
  <2>5. CASE LoopEnds BY <2>5 DEF LoopEnds, Signal, Alive, HavePid
  <2>6. CASE SupervisorKilled BY <2>6 DEF SupervisorKilled
  <2>7. CASE Guard
    <3>1. PICK adopter \in Adopters : child' = "up" => ~IsOrphan(adopter)
      BY <2>7 DEF Guard, EndsAs
    <3>2. UNCHANGED loop /\ child = "boot" BY <2>7 DEF Guard, EndsAs
    <3>3. adopter # "init" BY <3>1, <3>2 DEF IsOrphan
    <3> QED BY <3>2, <3>3, WatchdogAssumption DEF WatchdogAssumption
  <2>8. CASE ChildEnds \/ Dies \/ HangExit BY <2>8 DEF ChildEnds, Dies, HangExit, EndsAs
  <2>9. CASE Block \/ Unblock \/ DoBeat \/ SeesBeat
    BY <2>9 DEF Block, Unblock, DoBeat, SeesBeat, SetHang
  <2> QED BY <2>2, <2>3, <2>4, <2>5, <2>6, <2>7, <2>8, <2>9 DEF WatchdogNext
<1>2. WatchdogInv /\ [WatchdogNext]_vars =>
        [Orphaned' => Orphaned \/ (Gone /\ child = "boot" /\ "subreaper" \in Adopters)]_vars
  BY <1>1
<1> QED BY <1>2, WatchdogInvariant, PTL DEF WatchdogSpec

-----------------------------------------------------------------------------
(* Types *)

Names ==
  /\ loop \in {"start", "running", "quitting", "ended", "killed"}
  /\ child \in {"none", "boot", "up"} \cup Ends
  /\ told \in {"nothing", "term", "kill"}

Truths ==
  /\ stopping \in BOOLEAN /\ retried \in BOOLEAN /\ restored \in BOOLEAN
  /\ beaten \in BOOLEAN /\ blocked \in BOOLEAN

Numbers ==
  /\ upAge \in 0..(Stable + 1) /\ burstAge \in 0..(Burst + 1) /\ burstCount \in 0..(BurstMax + 1)
  /\ respawnIn \in 0..NoTimer /\ killIn \in 0..NoTimer /\ status \in {0, 1}

\* A restart is due only when there is no child, and none is after the last
\* failure: the burst is counted no further.
Restarts ==
  /\ child # "none" \/ burstCount > BurstMax \/ loop = "start" => respawnIn = NoTimer
  /\ burstCount > BurstMax => child = "none" /\ loop # "start"

TypedInv == Names /\ Truths /\ Numbers /\ Ages /\ Restarts

\* The numbers that limit the variables.
LEMMA Limits ==
  /\ BurstMax \in Nat /\ BurstMax > 0 /\ Burst \in Nat /\ Stable \in Nat /\ Backoff \in Nat /\ Grace \in Nat
  /\ Beat \in Nat /\ Beat > 0 /\ Hang \in Nat
  /\ NoTimer \in Nat /\ NoTimer > 0 /\ Backoff \in 0..NoTimer /\ Grace \in 0..NoTimer
BY WatchdogAssumption DEF WatchdogAssumption, NoTimer

\* What is left of a timer after a tick.
LEMMA LeftTimer ==
  ASSUME NEW timer \in 0..NoTimer
  PROVE  Left(timer) \in 0..NoTimer /\ (timer = NoTimer => Left(timer) = NoTimer)
BY Limits DEF Left

\* The passing of time.
LEMMA TickTyped == TypedInv /\ Tick => TypedInv'
<1> SUFFICES ASSUME TypedInv, Tick PROVE TypedInv' OBVIOUS
<1> USE DEF TypedInv
<1>1. UNCHANGED <<loop, stopping, child, told, burstCount, retried, status, beaten, blocked, restored>>
  BY DEF Tick
<1>2. Names' /\ Truths' BY <1>1 DEF Names, Truths
<1>3. upAge' \in 0..(Stable + 1) /\ burstAge' \in 0..(Burst + 1)
  <2>1. upAge' = Older(upAge, Stable + 1) /\ burstAge' = Older(burstAge, Burst + 1) BY DEF Tick
  <2>2. Stable + 1 \in Nat /\ Burst + 1 \in Nat BY Limits
  <2> QED BY <2>1, <2>2, OlderAge DEF Numbers
<1>4. respawnIn' \in 0..NoTimer /\ killIn' \in 0..NoTimer /\ (respawnIn = NoTimer => respawnIn' = NoTimer)
  BY LeftTimer DEF Tick, Numbers
<1>5. Numbers' BY <1>1, <1>3, <1>4 DEF Numbers
<1>6. Restarts' BY <1>1, <1>4 DEF Restarts
<1>7. Ages'
  <2>1. Beat \in Nat /\ Hang + 1 \in Nat BY Limits
  <2>2. CASE child = "up" /\ blocked BY <2>1, <2>2, OlderAge DEF Tick, Ages
  <2>3. CASE child = "up" /\ ~blocked BY <2>1, <2>3, OlderAge DEF Tick, Ages
  <2>4. CASE child # "up" BY <2>4 DEF Tick, Ages
  <2> QED BY <2>2, <2>3, <2>4
<1> QED BY <1>2, <1>5, <1>6, <1>7

\* The start of a child, the first or another.
LEMMA SpawnTyped == TypedInv /\ (Start \/ RespawnCb) => TypedInv'
<1> SUFFICES ASSUME TypedInv, Start \/ RespawnCb PROVE TypedInv' OBVIOUS
<1> USE DEF TypedInv
<1>1. UNCHANGED <<stopping, burst, killIn, hang>> BY DEF Start, RespawnCb
<1>2. /\ child' \in {child, "boot"} /\ told' \in {told, "nothing"} /\ upAge' \in {upAge, 0}
      /\ status' \in {status, 1} /\ loop' \in {loop, "running", "ended", "quitting"}
      /\ loop' # "start"
  BY DEF Start, RespawnCb, Spawn, SpawnFails, Handles
<1>3. respawnIn' = NoTimer /\ ~(burstCount > BurstMax)
  <2>1. CASE Start BY <2>1 DEF Start, Restarts
  <2>2. CASE RespawnCb BY <2>2, Limits DEF RespawnCb, Restarts
  <2> QED BY <2>1, <2>2
<1>4. Names' BY <1>2 DEF Names
<1>5. Truths'
  <2>1. retried' \in BOOLEAN BY DEF Truths, Start, RespawnCb
  <2>2. restored' \in BOOLEAN BY DEF Truths, Start, RespawnCb, Spawn, SpawnFails
  <2> QED BY <1>1, <2>1, <2>2 DEF Truths, hang
<1>6. Numbers'
  <2>1. upAge' \in 0..(Stable + 1) /\ status' \in {0, 1} /\ respawnIn' \in 0..NoTimer
    BY <1>2, <1>3, Limits DEF Numbers
  <2> QED BY <1>1, <2>1 DEF Numbers, burst
<1>7. Ages' BY <1>1 DEF Ages, hang
<1>8. Restarts' BY <1>1, <1>2, <1>3 DEF Restarts, burst
<1> QED BY <1>4, <1>5, <1>6, <1>7, <1>8

\* The end of a child: no failure is counted past the one that ends the burst.
LEMMA ExitTyped == TypedInv /\ ChildExited => TypedInv'
<1> SUFFICES ASSUME TypedInv, ChildExited PROVE TypedInv' OBVIOUS
<1> USE DEF TypedInv
<1>1. /\ UNCHANGED <<stopping, told, upAge, killIn, hang>>
      /\ child # "none" /\ child' = "none" /\ loop \in {"running", "quitting"} /\ loop' \in {loop, "quitting"}
      /\ status' \in {status, 0, 1}
  BY DEF ChildExited, Handles, Quit, ScheduleRestart, Ends
<1>2. retried' \in BOOLEAN /\ restored' \in BOOLEAN BY DEF ChildExited, StreakAfter, Truths
<1>3. Names' BY <1>1 DEF Names
<1>4. Truths' BY <1>1, <1>2 DEF Truths, hang
<1>5. Ages' BY <1>1 DEF Ages, hang
<1>6. respawnIn = NoTimer /\ ~(burstCount > BurstMax) BY <1>1 DEF Restarts
<1>7. CASE UNCHANGED <<burst, respawnIn>>
  BY <1>1, <1>3, <1>4, <1>5, <1>6, <1>7 DEF burst, Numbers, Restarts
<1>8. CASE ScheduleRestart
  <2>1. /\ burstCount' = (IF BurstOver THEN 0 ELSE burstCount) + 1
        /\ burstAge' \in {0, burstAge}
        /\ respawnIn' = IF burstCount' > BurstMax THEN respawnIn ELSE Backoff
    BY <1>8 DEF ScheduleRestart
  <2>2. burstCount' \in 0..(BurstMax + 1) BY <1>6, <2>1, Limits DEF Numbers
  <2>3. burstAge' \in 0..(Burst + 1) BY <2>1, Limits DEF Numbers
  <2>4. respawnIn' \in 0..NoTimer /\ (burstCount' > BurstMax => respawnIn' = NoTimer) BY <1>6, <2>1, Limits
  <2>5. Numbers' BY <1>1, <2>2, <2>3, <2>4 DEF Numbers
  <2>6. Restarts' BY <1>1, <2>4 DEF Restarts
  <2> QED BY <1>3, <1>4, <1>5, <2>5, <2>6
<1> QED BY <1>7, <1>8 DEF ChildExited, Quit, burst

\* The other steps of the supervisor.
LEMMA StopTyped == TypedInv /\ (SignalCb \/ ForceKillCb \/ LoopEnds \/ SupervisorKilled) => TypedInv'
<1> SUFFICES ASSUME TypedInv, SignalCb \/ ForceKillCb \/ LoopEnds \/ SupervisorKilled PROVE TypedInv' OBVIOUS
<1> USE DEF TypedInv
<1>1. /\ UNCHANGED <<child, upAge, burst, retried, respawnIn, hang, past>>
      /\ loop # "start" /\ loop' \in {loop, "quitting", "ended", "killed"} /\ loop' # "start"
      /\ status' \in {status, 0}
  BY DEF SignalCb, ForceKillCb, LoopEnds, SupervisorKilled, Handles
<1>2. stopping' \in BOOLEAN BY DEF SignalCb, ForceKillCb, LoopEnds, SupervisorKilled, Truths
<1>3. told' \in {told, "term", "kill"}
  BY DEF SignalCb, ForceKillCb, LoopEnds, SupervisorKilled, Signal
<1>4. killIn' \in {killIn, Grace, NoTimer}
  BY DEF SignalCb, ForceKillCb, LoopEnds, SupervisorKilled
<1>5. Names' BY <1>1, <1>3 DEF Names
<1>6. Truths' BY <1>1, <1>2 DEF Truths, hang, past
<1>7. Numbers'
  <2>1. killIn' \in 0..NoTimer BY <1>4, Limits DEF Numbers
  <2> QED BY <1>1, <2>1 DEF Numbers, burst
<1>8. Ages' BY <1>1 DEF Ages, hang
<1>9. Restarts' BY <1>1 DEF Restarts, burst
<1> QED BY <1>5, <1>6, <1>7, <1>8, <1>9

\* The steps of the child.
LEMMA ChildTyped ==
  TypedInv /\ (Guard \/ ChildEnds \/ Dies \/ Block \/ Unblock \/ DoBeat \/ SeesBeat \/ HangExit) => TypedInv'
<1> SUFFICES ASSUME TypedInv,
                    Guard \/ ChildEnds \/ Dies \/ Block \/ Unblock \/ DoBeat \/ SeesBeat \/ HangExit
             PROVE  TypedInv'
  OBVIOUS
<1> USE DEF TypedInv
<1>1. UNCHANGED <<loop, stopping, told, upAge, burst, retried, respawnIn, killIn, status, past>>
  BY DEF Guard, ChildEnds, Dies, Block, Unblock, DoBeat, SeesBeat, HangExit, EndsAs, SetHang
<1>2. child # "none" /\ child' \in {"up"} \cup Ends
  BY DEF Guard, ChildEnds, Dies, Block, Unblock, DoBeat, SeesBeat, HangExit, EndsAs, SetHang, Alive, Ends
<1>3. beatAge' \in {beatAge, 0} /\ quietAge' \in {quietAge, 0} /\ blockedFor' \in {blockedFor, 0}
  BY DEF Guard, ChildEnds, Dies, Block, Unblock, DoBeat, SeesBeat, HangExit, EndsAs, SetHang, hang
<1>4. beaten' \in BOOLEAN /\ blocked' \in BOOLEAN
  BY DEF Guard, ChildEnds, Dies, Block, Unblock, DoBeat, SeesBeat, HangExit, EndsAs, SetHang, hang, Truths
<1>5. Names' BY <1>1, <1>2 DEF Names, Ends
<1>6. Truths' BY <1>1, <1>4 DEF Truths, past
<1>7. Numbers' BY <1>1 DEF Numbers, burst
<1>8. Ages' BY <1>3, Limits DEF Ages
<1>9. Restarts' BY <1>1, <1>2 DEF Restarts, burst, Ends
<1> QED BY <1>5, <1>6, <1>7, <1>8, <1>9

\* The invariant of the types.
LEMMA WatchdogTyped == WatchdogSpec => []TypedInv
<1>1. WatchdogInit => TypedInv
  <2> SUFFICES ASSUME WatchdogInit PROVE TypedInv OBVIOUS
  <2> USE DEF WatchdogInit
  <2>1. Names /\ Truths BY DEF Names, Truths
  <2>2. Numbers BY Limits DEF Numbers
  <2>3. Ages BY Limits DEF Ages
  <2>4. Restarts BY Limits DEF Restarts
  <2> QED BY <2>1, <2>2, <2>3, <2>4 DEF TypedInv
<1>2. TypedInv /\ [WatchdogNext]_vars => TypedInv'
  <2>1. TypedInv /\ UNCHANGED vars => TypedInv'
    BY DEF vars, burst, hang, past, TypedInv, Names, Truths, Numbers, Ages, Restarts
  <2> QED BY <2>1, TickTyped, SpawnTyped, ExitTyped, StopTyped, ChildTyped DEF WatchdogNext
<1> QED BY <1>1, <1>2, PTL DEF WatchdogSpec

\* Every variable of the supervisor and its child keeps its type; above all the
\* count of a burst ends one past its limit, since no restart follows the last
\* failure (ns_watchdog_schedule_restart).
THEOREM WatchdogTypes == WatchdogSpec => []WatchdogTypeOK
<1>1. TypedInv => WatchdogTypeOK
  BY DEF TypedInv, Names, Truths, Numbers, Ages, WatchdogTypeOK
<1> QED BY <1>1, WatchdogTyped, PTL

-----------------------------------------------------------------------------
(* How many failures there are before the supervisor gives up *)

\* The failures are noted oldest first, none older than Burst.
Sorted ==
  /\ fails \in Seq(0..Burst)
  /\ \A m, n \in DOMAIN fails : m <= n => fails[m] >= fails[n]

\* While the burst is not over its failures are the last burstCount, and those
\* before it, of the burst before, are as old as it is.  Once it is over nothing
\* is left of the burst before.
Former == Len(fails) - burstCount
InBurst ==
  IF burstAge <= Burst
  THEN /\ Former \in 0..BurstMax
       /\ \A n \in DOMAIN fails : IF n <= Former THEN fails[n] >= burstAge ELSE fails[n] <= burstAge
  ELSE Len(fails) <= burstCount

\* While the supervisor runs the failures are counted right and it has not given up;
\* a failure is counted only while it runs, since it quits without a child, or with
\* one that it has been told to stop.
BurstInv ==
  /\ Sorted
  /\ loop \in {"start", "running"} => InBurst /\ burstCount <= BurstMax
  /\ loop = "quitting" /\ ~stopping => child = "none" /\ respawnIn = NoTimer
  /\ RetriesBounded

\* A function on the first m numbers is a sequence of m elements.
LEMMA Listed ==
  ASSUME NEW S, NEW m \in Nat, NEW f \in [1..m -> S]
  PROVE  f \in Seq(S) /\ Len(f) = m /\ DOMAIN f = 1..m
<1>1. f \in Seq(S) BY SeqDef
<1>2. DOMAIN f = 1..m OBVIOUS
<1>3. Len(f) \in Nat /\ DOMAIN f = 1..Len(f) BY <1>1, LenProperties
<1>4. Len(f) = m BY <1>2, <1>3
<1> QED BY <1>1, <1>2, <1>4

\* The notes of the failures.
LEMMA Noted ==
  ASSUME Sorted
  PROVE  /\ Len(fails) \in Nat /\ DOMAIN fails = 1..Len(fails)
         /\ \A n \in DOMAIN fails : fails[n] \in 0..Burst
<1>1. fails \in Seq(0..Burst) BY DEF Sorted
<1>2. Len(fails) \in Nat /\ fails \in [1..Len(fails) -> 0..Burst] BY <1>1, LenProperties
<1> QED BY <1>2

\* The failures that are too old are the first ones.
LEMMA OldFirst ==
  ASSUME Sorted, NEW old, old = {n \in DOMAIN fails : fails[n] >= Burst}
  PROVE  Cardinality(old) \in 0..Len(fails) /\ old = 1..Cardinality(old)
<1>1. Len(fails) \in Nat /\ DOMAIN fails = 1..Len(fails) /\ Burst \in Nat
      /\ \A n \in DOMAIN fails : fails[n] \in Nat
  BY Limits DEF Sorted
<1>2. PICK top \in Nat : top = Len(fails)
  BY <1>1
<1>3. IsFiniteSet(1..top) /\ Cardinality(1..top) = top
  BY FS_Interval
<1>4. old \in SUBSET (1..top)
  BY <1>1, <1>2
<1>5. IsFiniteSet(old) /\ Cardinality(old) <= top
  BY <1>3, <1>4, FS_Subset
<1>6. PICK k \in Nat : k = Cardinality(old)
  BY <1>5, FS_CardinalityType
<1>7. IsFiniteSet(1..k) /\ Cardinality(1..k) = k
  BY FS_Interval
<1>8. ASSUME NEW i \in old PROVE i \in 1..k
  <2>1. i \in 1..top /\ i \in Nat /\ fails[i] >= Burst
    BY <1>1, <1>2, <1>4
  <2>2. ASSUME NEW j \in 1..i PROVE j \in old
    <3>1. j \in DOMAIN fails /\ j <= i
      BY <1>1, <1>2, <2>1
    <3>2. fails[j] >= fails[i] /\ fails[j] \in Nat /\ fails[i] \in Nat
      BY <1>1, <1>2, <2>1, <3>1 DEF Sorted
    <3>3. fails[j] >= Burst
      BY <1>1, <2>1, <3>2
    <3> QED BY <3>1, <3>3
  <2>3. 1..i \in SUBSET old
    BY <2>2
  <2>4. Cardinality(1..i) <= Cardinality(old)
    BY <1>5, <2>3, FS_Subset
  <2>5. Cardinality(1..i) = i
    BY <2>1, FS_Interval
  <2> QED BY <1>6, <2>1, <2>4, <2>5
<1>9. old \in SUBSET (1..k)
  BY <1>8
<1>10. 1..k = old
  BY <1>6, <1>7, <1>9, FS_Subset
<1> QED BY <1>2, <1>5, <1>6, <1>10

\* What is left of the failures after a tick: a first part of them is dropped, the
\* rest gets older.
LEMMA RecentLeft ==
  ASSUME Sorted
  PROVE  \E k \in 0..Len(fails) :
           /\ StillRecent = [n \in 1..(Len(fails) - k) |-> fails[n + k] + 1]
           /\ \A n \in DOMAIN fails : n <= k <=> fails[n] >= Burst
<1>1. PICK old : old = {n \in DOMAIN fails : fails[n] >= Burst}
  OBVIOUS
<1>2. PICK k : k = Cardinality(old)
  OBVIOUS
<1>3. k \in 0..Len(fails) /\ old = 1..k
  BY <1>1, <1>2, OldFirst
<1>4. StillRecent = [n \in 1..(Len(fails) - k) |-> fails[n + k] + 1]
  BY <1>1, <1>2 DEF StillRecent
<1>5. \A n \in DOMAIN fails : n <= k <=> fails[n] >= Burst
  <2>1. \A n \in DOMAIN fails : n \in Int /\ n >= 1
    BY DEF Sorted
  <2>2. \A n \in DOMAIN fails : n <= k <=> n \in old
    BY <1>3, <2>1
  <2> QED BY <1>1, <2>2
<1> QED BY <1>3, <1>4, <1>5

\* A tick keeps the failures in order and drops none of a burst that is not over.
LEMMA TickCounts ==
  ASSUME BurstInv, TypedInv, Tick
  PROVE  BurstInv'
<1>1. /\ UNCHANGED <<loop, stopping, child, burstCount>> /\ loop # "start"
      /\ burstAge' = Older(burstAge, Burst + 1) /\ respawnIn' = Left(respawnIn)
      /\ fails' = IF loop = "running" THEN StillRecent ELSE fails
  BY DEF Tick
<1>2. Burst \in Nat /\ BurstMax \in Nat /\ burstCount \in Nat /\ burstAge \in 0..(Burst + 1)
      /\ respawnIn \in 0..NoTimer
  BY Limits DEF TypedInv, Numbers
<1>3. loop' = "quitting" /\ ~stopping' => child' = "none" /\ respawnIn' = NoTimer
  BY <1>1, <1>2, LeftTimer DEF BurstInv
<1>4. CASE loop # "running"
  BY <1>1, <1>3, <1>4 DEF BurstInv, Sorted, RetriesBounded, GaveUp
<1>5. CASE loop = "running"
  <2>1. Sorted /\ InBurst /\ burstCount <= BurstMax
    BY <1>5 DEF BurstInv
  <2>2. PICK k \in 0..Len(fails) :
          /\ StillRecent = [n \in 1..(Len(fails) - k) |-> fails[n + k] + 1]
          /\ \A n \in DOMAIN fails : n <= k <=> fails[n] >= Burst
    BY <2>1, RecentLeft
  <2>3. PICK m : m = Len(fails) - k
    OBVIOUS
  <2>4. /\ Len(fails) \in Nat /\ DOMAIN fails = 1..Len(fails) /\ k \in Nat /\ m \in Nat
        /\ \A n \in DOMAIN fails : fails[n] \in 0..Burst
    <3>1. /\ Len(fails) \in Nat /\ DOMAIN fails = 1..Len(fails)
          /\ \A n \in DOMAIN fails : fails[n] \in 0..Burst
      BY <2>1, Noted
    <3>2. k \in Nat /\ m \in Nat
      BY <2>2, <2>3, <3>1
    <3> QED BY <3>1, <3>2
  <2>5. \A n \in 1..m : n + k \in DOMAIN fails /\ ~(n + k <= k)
    BY <2>3, <2>4
  <2>6. \A n \in 1..m : fails[n + k] < Burst /\ fails[n + k] \in 0..Burst
    BY <1>2, <2>2, <2>4, <2>5
  <2>7. fails' = [n \in 1..m |-> fails[n + k] + 1]
    BY <1>1, <1>5, <2>2, <2>3
  <2>8. fails' \in Seq(0..Burst) /\ Len(fails') = m /\ DOMAIN fails' = 1..m
    <3>1. \A n \in 1..m : fails[n + k] + 1 \in 0..Burst
      BY <1>2, <2>6
    <3>2. fails' \in [1..m -> 0..Burst]
      BY <2>7, <3>1
    <3> QED BY <2>4, <3>2, Listed
  <2>9. Sorted'
    <3>1. ASSUME NEW i \in 1..m, NEW j \in 1..m, i <= j PROVE fails'[i] >= fails'[j]
      <4>1. i + k <= j + k
        BY <2>4, <3>1
      <4>2. fails[i + k] >= fails[j + k]
        BY <2>1, <2>5, <4>1 DEF Sorted
      <4> QED BY <2>6, <2>7, <4>2
    <3> QED BY <2>8, <3>1 DEF Sorted
  <2>10. InBurst'
    <3>1. CASE burstAge < Burst
      <4>1. burstAge' = burstAge + 1 /\ burstAge' <= Burst
        BY <1>1, <1>2, <3>1 DEF Older
      <4>2. Former \in 0..BurstMax /\ Former = Len(fails) - burstCount
        BY <1>2, <2>1, <3>1 DEF InBurst, Former
      <4>3. k <= Former
        <5>1. ASSUME k > Former PROVE FALSE
          <6>1. k \in DOMAIN fails /\ fails[k] >= Burst
            BY <1>2, <2>2, <2>4, <4>2, <5>1
          <6>2. fails[k] <= burstAge
            BY <1>2, <2>1, <3>1, <4>2, <5>1, <6>1 DEF InBurst
          <6> QED BY <1>2, <2>4, <3>1, <6>1, <6>2
        <5> QED BY <2>4, <4>2, <5>1
      <4>4. Former' = Former - k /\ Former' \in 0..BurstMax
        BY <1>1, <1>2, <2>3, <2>4, <2>8, <4>2, <4>3 DEF Former
      <4>5. ASSUME NEW n \in 1..m
            PROVE IF n <= Former' THEN fails'[n] >= burstAge' ELSE fails'[n] <= burstAge'
        <5>1. fails'[n] = fails[n + k] + 1 /\ fails[n + k] \in Nat /\ n + k \in DOMAIN fails
          BY <2>5, <2>6, <2>7
        <5>2. n <= Former' <=> n + k <= Former
          BY <2>4, <4>2, <4>4
        <5>3. IF n + k <= Former THEN fails[n + k] >= burstAge ELSE fails[n + k] <= burstAge
          BY <1>2, <2>1, <3>1, <5>1 DEF InBurst
        <5> QED BY <1>2, <4>1, <5>1, <5>2, <5>3
      <4> QED BY <1>1, <2>8, <4>1, <4>4, <4>5 DEF InBurst
    <3>2. CASE burstAge = Burst
      <4>1. ~(burstAge' <= Burst)
        BY <1>1, <1>2, <3>2 DEF Older
      <4>2. Former \in 0..BurstMax /\ Former = Len(fails) - burstCount
        BY <1>2, <2>1, <3>2 DEF InBurst, Former
      <4>3. Former <= k
        <5>1. ASSUME Former > k PROVE FALSE
          <6>1. Former \in DOMAIN fails
            BY <1>2, <2>4, <4>2, <5>1
          <6>2. fails[Former] >= burstAge
            BY <1>2, <2>1, <3>2, <4>2, <6>1 DEF InBurst
          <6> QED BY <1>2, <2>2, <2>4, <3>2, <4>2, <5>1, <6>1, <6>2
        <5> QED BY <2>4, <4>2, <5>1
      <4>4. Len(fails') <= burstCount'
        BY <1>1, <1>2, <2>3, <2>4, <2>8, <4>2, <4>3
      <4> QED BY <4>1, <4>4 DEF InBurst
    <3>3. CASE burstAge = Burst + 1
      <4>1. ~(burstAge' <= Burst) /\ ~(burstAge <= Burst)
        BY <1>1, <1>2, <3>3 DEF Older
      <4>2. Len(fails') <= burstCount'
        BY <1>1, <1>2, <2>1, <2>3, <2>4, <2>8, <4>1 DEF InBurst
      <4> QED BY <4>1, <4>2 DEF InBurst
    <3> QED BY <1>2, <3>1, <3>2, <3>3
  <2>11. burstCount' <= BurstMax
    BY <1>1, <2>1
  <2>12. RetriesBounded'
    <3>1. ~(burstCount' > BurstMax)
      BY <1>1, <1>2, <2>1
    <3>2. Len(fails') <= 2 * BurstMax
      <4>1. Len(fails') \in Nat /\ burstCount' \in Nat
        BY <1>1, <1>2, <2>4, <2>8
      <4> QED BY <1>2, <2>10, <2>11, <4>1 DEF InBurst, Former
    <3> QED BY <3>1, <3>2 DEF RetriesBounded, GaveUp
  <2> QED BY <1>1, <1>3, <1>5, <2>9, <2>10, <2>11, <2>12 DEF BurstInv
<1> QED BY <1>4, <1>5

\* At most a burst's worth of failures of the burst before and as many of this one.
LEMMA TwoBursts ==
  ASSUME Sorted, TypedInv, InBurst, burstCount <= BurstMax
  PROVE  ~GaveUp /\ Len(fails) <= 2 * BurstMax
<1>1. Len(fails) \in Nat /\ BurstMax \in Nat /\ burstCount \in Nat
  BY Noted, Limits DEF TypedInv, Numbers
<1>2. ~(burstCount > BurstMax)
  BY <1>1
<1>3. Len(fails) <= 2 * BurstMax
  <2>1. CASE burstAge <= Burst
    BY <1>1, <2>1 DEF InBurst, Former
  <2>2. CASE ~(burstAge <= Burst)
    BY <1>1, <2>2 DEF InBurst
  <2> QED BY <2>1, <2>2
<1> QED BY <1>2, <1>3 DEF GaveUp

\* What neither counts nor notes a failure leaves the count right, if it does not
\* quit with a child that has not been told to stop.
LEMMA CountKept ==
  ASSUME BurstInv, TypedInv, UNCHANGED <<fails, burstCount, burstAge>>,
         loop' \in {"start", "running"} => loop \in {"start", "running"},
         loop' = "quitting" => loop # "killed" /\ loop # "ended",
         loop' = "quitting" /\ ~stopping' => child' = "none" /\ respawnIn' = NoTimer
  PROVE  BurstInv'
<1>1. Sorted'
  BY DEF BurstInv, Sorted
<1>2. loop' \in {"start", "running"} => InBurst' /\ burstCount' <= BurstMax
  BY DEF BurstInv, InBurst, Former
<1>3. loop \in {"start", "running", "quitting"} => RetriesBounded'
  <2>1. CASE loop \in {"start", "running"}
    <3>3. ~GaveUp /\ Len(fails) <= 2 * BurstMax
      BY <2>1, TwoBursts DEF BurstInv
    <3> QED BY <3>3 DEF RetriesBounded, GaveUp
  <2>2. CASE loop = "quitting"
    BY <2>2 DEF BurstInv, RetriesBounded, GaveUp
  <2> QED BY <2>1, <2>2
<1>4. RetriesBounded'
  <2>1. CASE loop' \in {"running", "quitting"}
    <3>1. loop \in {"start", "running", "quitting"}
      BY <2>1 DEF TypedInv, Names
    <3> QED BY <1>3, <3>1
  <2>2. CASE loop' \notin {"running", "quitting"}
    BY <2>2 DEF RetriesBounded
  <2> QED BY <2>1, <2>2
<1> QED BY <1>1, <1>2, <1>4 DEF BurstInv

\* The start of a child, or the failure to start one: nothing is noted.
LEMMA SpawnCounts ==
  ASSUME BurstInv, TypedInv, Start \/ RespawnCb
  PROVE  BurstInv'
<1>1. UNCHANGED <<fails, burstCount, burstAge, stopping>>
  BY DEF Start, RespawnCb, burst
<1>2. CASE Start
  <2>1. loop = "start" /\ loop' \in {"running", "ended"}
    BY <1>2 DEF Start, SpawnFails
  <2> QED BY <1>1, <2>1, CountKept
<1>3. CASE RespawnCb
  <2>1. loop \in {"running", "quitting"} /\ loop' \in {loop, "quitting"} /\ respawnIn' = NoTimer
    BY <1>3 DEF RespawnCb, Handles, Spawn, SpawnFails
  <2>2. respawnIn = 0 /\ child = "none"
    BY <1>3, Limits DEF RespawnCb, TypedInv, Restarts
  <2>3. ASSUME loop' = "quitting", ~stopping' PROVE child' = "none"
    <3>1. ~stopping
      BY <1>1, <2>3
    <3>2. loop = "running"
      BY <2>1, <2>2, <3>1, Limits DEF BurstInv
    <3>3. child' = child
      BY <1>3, <2>3, <3>1, <3>2 DEF RespawnCb, Spawn, SpawnFails
    <3> QED BY <2>2, <3>3
  <2> QED BY <1>1, <2>1, <2>3, CountKept
<1> QED BY <1>2, <1>3

\* The other steps of the supervisor, and those of the child: a supervisor that
\* quits without having been told to has no child to go on.
LEMMA OthersCount ==
  ASSUME BurstInv, TypedInv,
         \/ SignalCb \/ ForceKillCb \/ LoopEnds \/ SupervisorKilled
         \/ Guard \/ ChildEnds \/ Dies \/ Block \/ Unblock \/ DoBeat \/ SeesBeat \/ HangExit
  PROVE  BurstInv'
<1>1. CASE SignalCb \/ ForceKillCb \/ LoopEnds \/ SupervisorKilled
  <2>1. UNCHANGED <<fails, burstCount, burstAge, child, respawnIn>>
    BY <1>1 DEF SignalCb, ForceKillCb, LoopEnds, SupervisorKilled, burst, past
  <2>2. /\ loop \in {"running", "quitting"} /\ loop' \in {loop, "quitting", "ended", "killed"}
        /\ \/ stopping' = stopping /\ loop' \in {loop, "ended", "killed"}
           \/ stopping' = TRUE
    BY <1>1 DEF SignalCb, ForceKillCb, LoopEnds, SupervisorKilled, Handles
  <2>3. loop' = "quitting" /\ ~stopping' => loop = "quitting" /\ ~stopping
    BY <2>2
  <2>4. loop' = "quitting" /\ ~stopping' => child' = "none" /\ respawnIn' = NoTimer
    BY <2>1, <2>3 DEF BurstInv
  <2> QED BY <2>1, <2>2, <2>4, CountKept
<1>2. CASE \/ Guard \/ ChildEnds \/ Dies \/ Block \/ Unblock \/ DoBeat \/ SeesBeat \/ HangExit
  <2>1. UNCHANGED <<fails, burstCount, burstAge, loop, stopping>> /\ child # "none"
    BY <1>2 DEF Guard, ChildEnds, Dies, Block, Unblock, DoBeat, SeesBeat, HangExit, EndsAs, SetHang, burst, past,
       Alive
  <2>2. loop' = "quitting" /\ ~stopping' => child' = "none" /\ respawnIn' = NoTimer
    BY <2>1 DEF BurstInv
  <2> QED BY <2>1, <2>2, CountKept
<1> QED BY <1>1, <1>2

\* A failure that is noted is the last and the youngest.
LEMMA NewestLast ==
  ASSUME Sorted, fails' = Append(fails, 0)
  PROVE  /\ Sorted' /\ Len(fails') = Len(fails) + 1 /\ DOMAIN fails' = 1..(Len(fails) + 1)
         /\ \A n \in DOMAIN fails' : IF n <= Len(fails) THEN n \in DOMAIN fails /\ fails'[n] = fails[n]
                                                        ELSE n = Len(fails) + 1 /\ fails'[n] = 0
<1>1. /\ fails \in Seq(0..Burst) /\ 0 \in 0..Burst /\ Len(fails) \in Nat /\ DOMAIN fails = 1..Len(fails)
      /\ \A n \in DOMAIN fails : fails[n] \in 0..Burst
  BY Noted, Limits DEF Sorted
<1>2. fails' \in Seq(0..Burst) /\ Len(fails') = Len(fails) + 1
  BY <1>1, AppendProperties
<1>3. DOMAIN fails' = 1..(Len(fails) + 1)
  BY <1>2, LenProperties
<1>4. ASSUME NEW n \in DOMAIN fails'
      PROVE  IF n <= Len(fails) THEN n \in DOMAIN fails /\ fails'[n] = fails[n]
                                ELSE n = Len(fails) + 1 /\ fails'[n] = 0
  <2>1. n \in 1..(Len(fails) + 1)
    BY <1>3
  <2>2. CASE n <= Len(fails)
    <3>1. n \in 1..Len(fails)
      BY <1>1, <2>1, <2>2
    <3>2. Append(fails, 0)[n] = fails[n]
      BY <1>1, <3>1, AppendProperties
    <3> QED BY <1>1, <2>2, <3>1, <3>2
  <2>3. CASE ~(n <= Len(fails))
    <3>1. n = Len(fails) + 1
      BY <1>1, <2>1, <2>3
    <3>2. Append(fails, 0)[Len(fails) + 1] = 0
      BY <1>1, AppendProperties
    <3> QED BY <2>3, <3>1, <3>2
  <2> QED BY <2>2, <2>3
<1>5. ASSUME NEW m \in DOMAIN fails', NEW n \in DOMAIN fails', m <= n PROVE fails'[m] >= fails'[n]
  <2>1. m \in Nat /\ n \in Nat
    BY <1>1, <1>3
  <2>2. CASE n <= Len(fails)
    <3>1. m <= Len(fails)
      BY <1>1, <1>5, <2>1, <2>2
    <3>2. m \in DOMAIN fails /\ n \in DOMAIN fails /\ fails'[m] = fails[m] /\ fails'[n] = fails[n]
      BY <1>4, <2>2, <3>1
    <3> QED BY <1>5, <3>2 DEF Sorted
  <2>3. CASE ~(n <= Len(fails))
    <3>1. fails'[n] = 0
      BY <1>4, <2>3
    <3>2. fails'[m] \in Nat
      BY <1>1, <1>4
    <3> QED BY <3>1, <3>2
  <2> QED BY <2>2, <2>3
<1>6. Sorted'
  BY <1>2, <1>5 DEF Sorted
<1> QED BY <1>2, <1>3, <1>4, <1>6

\* The end of a child: a failure is counted in the burst that is not over, or is the
\* first of another, and the failures noted before are then those of the last.
LEMMA ExitCounts ==
  ASSUME BurstInv, TypedInv, ChildExited
  PROVE  BurstInv'
<1>1. /\ loop \in {"running", "quitting"} /\ child # "none" /\ child' = "none" /\ respawnIn = NoTimer
      /\ UNCHANGED stopping
  BY DEF ChildExited, Handles, Ends, TypedInv, Restarts
<1>2. CASE UNCHANGED <<burst, respawnIn, fails>> /\ loop' = "quitting"
  BY <1>1, <1>2, CountKept DEF burst
<1>3. CASE ScheduleRestart /\ ~stopping
  <2>1. loop = "running" /\ Sorted /\ InBurst /\ burstCount <= BurstMax
    BY <1>1, <1>3 DEF BurstInv
  <2>2. /\ BurstMax \in Nat /\ BurstMax > 0 /\ Burst \in Nat /\ burstCount \in Nat /\ burstAge \in Nat
        /\ Len(fails) \in Nat /\ DOMAIN fails = 1..Len(fails) /\ \A n \in DOMAIN fails : fails[n] \in Nat
    BY <2>1, Limits, Noted DEF TypedInv, Numbers
  <2>3. /\ burstCount' = (IF BurstOver THEN 0 ELSE burstCount) + 1
        /\ burstAge' = IF BurstOver THEN 0 ELSE burstAge
        /\ IF burstCount' > BurstMax THEN loop' = "quitting" /\ respawnIn' = respawnIn ELSE loop' = loop
        /\ fails' = Append(fails, 0)
    BY <1>3 DEF ScheduleRestart
  <2>4. /\ Sorted' /\ Len(fails') = Len(fails) + 1 /\ DOMAIN fails' = 1..(Len(fails) + 1)
        /\ \A n \in DOMAIN fails' : IF n <= Len(fails) THEN n \in DOMAIN fails /\ fails'[n] = fails[n]
                                                       ELSE n = Len(fails) + 1 /\ fails'[n] = 0
    BY <2>1, <2>3, NewestLast
  <2>5. CASE BurstOver
    <3>1. Len(fails) <= BurstMax /\ ~(burstAge <= Burst)
      <4>1. ~(burstAge <= Burst)
        BY <2>2, <2>5 DEF BurstOver
      <4>2. Len(fails) <= burstCount
        BY <2>1, <4>1 DEF InBurst
      <4> QED BY <2>1, <2>2, <4>1, <4>2
    <3>2. burstCount' = 1 /\ burstAge' = 0 /\ ~(burstCount' > BurstMax) /\ loop' = "running"
      BY <2>1, <2>2, <2>3, <2>5
    <3>3. Former' = Len(fails) /\ Former' \in 0..BurstMax
      BY <2>2, <2>4, <3>1, <3>2 DEF Former
    <3>4. ASSUME NEW n \in DOMAIN fails'
          PROVE  IF n <= Former' THEN fails'[n] >= burstAge' ELSE fails'[n] <= burstAge'
      <4>1. CASE n <= Len(fails)
        BY <2>2, <2>4, <3>2, <3>3, <4>1
      <4>2. CASE ~(n <= Len(fails))
        BY <2>4, <3>2, <3>3, <4>2
      <4> QED BY <4>1, <4>2
    <3>5. InBurst'
      BY <2>2, <3>2, <3>3, <3>4 DEF InBurst
    <3>6. RetriesBounded'
      BY <2>2, <2>4, <3>1, <3>2 DEF RetriesBounded, GaveUp
    <3> QED BY <2>2, <2>4, <3>2, <3>5, <3>6 DEF BurstInv
  <2>6. CASE ~BurstOver
    <3>1. burstAge <= Burst /\ burstAge' = burstAge /\ burstCount' = burstCount + 1
      BY <2>2, <2>3, <2>6 DEF BurstOver
    <3>2. /\ Former \in 0..BurstMax
          /\ \A n \in DOMAIN fails : IF n <= Former THEN fails[n] >= burstAge ELSE fails[n] <= burstAge
      BY <2>1, <3>1 DEF InBurst
    <3>3. Former = Len(fails) - burstCount /\ Former' = Former
      BY <2>2, <2>4, <3>1 DEF Former
    <3>4. ASSUME NEW n \in DOMAIN fails'
          PROVE  IF n <= Former' THEN fails'[n] >= burstAge' ELSE fails'[n] <= burstAge'
      <4>1. CASE n <= Len(fails)
        BY <2>4, <3>1, <3>2, <3>3, <4>1
      <4>2. CASE ~(n <= Len(fails))
        <5>1. fails'[n] = 0 /\ n = Len(fails) + 1
          BY <2>4, <4>2
        <5>2. ~(n <= Former')
          BY <2>2, <3>3, <5>1
        <5> QED BY <2>2, <3>1, <5>1, <5>2
      <4> QED BY <4>1, <4>2
    <3>5. InBurst'
      BY <3>1, <3>2, <3>3, <3>4 DEF InBurst
    <3>6. CASE burstCount' > BurstMax
      <4>1. loop' = "quitting" /\ respawnIn' = NoTimer
        BY <1>1, <2>3, <3>6
      <4>2. Len(fails') > BurstMax
        BY <2>2, <2>4, <3>1, <3>2, <3>3, <3>6
      <4>3. RetriesBounded'
        BY <3>6, <4>2 DEF RetriesBounded, GaveUp
      <4> QED BY <1>1, <2>4, <4>1, <4>3 DEF BurstInv
    <3>7. CASE ~(burstCount' > BurstMax)
      <4>1. loop' = "running" /\ burstCount' <= BurstMax
        BY <2>1, <2>2, <2>3, <3>1, <3>7
      <4>2. Len(fails') <= 2 * BurstMax
        BY <2>2, <2>4, <3>1, <3>2, <3>3, <4>1
      <4>3. RetriesBounded'
        BY <3>7, <4>2 DEF RetriesBounded, GaveUp
      <4> QED BY <2>4, <3>5, <4>1, <4>3 DEF BurstInv
    <3> QED BY <3>6, <3>7
  <2> QED BY <2>5, <2>6
<1> QED BY <1>2, <1>3 DEF ChildExited, Quit

\* ns_watchdog_schedule_restart gives up only after more than NS_WATCHDOG_BURST_MAX
\* failures in the last NS_WATCHDOG_BURST_SECS, and after at most twice as many.
THEOREM RetriesLimit == WatchdogSpec => []RetriesBounded
<1>1. WatchdogInit => BurstInv
  <2> SUFFICES ASSUME WatchdogInit PROVE BurstInv OBVIOUS
  <2>1. fails = <<>> /\ burstCount = 0 /\ burstAge = 0 /\ loop = "start"
    BY DEF WatchdogInit
  <2>2. fails \in Seq(0..Burst) /\ Len(fails) = 0 /\ DOMAIN fails = {}
    BY <2>1, EmptySeq
  <2>3. Sorted
    BY <2>2 DEF Sorted
  <2>4. Former = 0
    BY <2>1, <2>2 DEF Former
  <2>5. InBurst /\ burstCount <= BurstMax
    BY <2>1, <2>2, <2>4, Limits DEF InBurst
  <2> QED BY <2>1, <2>3, <2>5 DEF BurstInv, RetriesBounded
<1>2. TypedInv /\ BurstInv /\ [WatchdogNext]_vars => BurstInv'
  <2>1. TypedInv /\ BurstInv /\ UNCHANGED vars => BurstInv'
    BY DEF vars, burst, past, BurstInv, Sorted, InBurst, Former, RetriesBounded, GaveUp
  <2> QED BY <2>1, TickCounts, SpawnCounts, ExitCounts, OthersCount DEF WatchdogNext
<1>3. BurstInv => RetriesBounded
  BY DEF BurstInv
<1> QED BY <1>1, <1>2, <1>3, WatchdogTyped, PTL DEF WatchdogSpec

=============================================================================
