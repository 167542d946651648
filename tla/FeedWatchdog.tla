----------------------------- MODULE FeedWatchdog -----------------------------
(***************************************************************************)
(* The core's recover ladder for a feed that stopped, as a function of its *)
(* own state and one snapshot of what the session has seen.                *)
(*                                                                         *)
(* Ages are in units of time, and Never (negative, as on the C boundary)   *)
(* is the age of what was not seen; they stop growing at a cap beyond the  *)
(* largest number they are compared with.  The desktop facade never says   *)
(* that decoder output is expected and Wi-Fi path loss is never reported,  *)
(* so the decoder rung (rebuildVT) and the path guard, which the desktop   *)
(* cannot reach, are not here.  The zoom and focus-track holds last as     *)
(* long as the control hold, which starts with them; the gimbal stick's    *)
(* is the same rule with 3 s for 4 s, and is not told apart.               *)
(***************************************************************************)
EXTENDS Integers

CONSTANTS
  StallThreshold,   \* 2 s without video is a stall
  CameraSetGrace,   \* 4 s after a control write a stall is forgiven
  EscalateAfter,    \* 5 s between two rungs
  GOPGrace,         \* 8 s after an enable a stall is forgiven
  CooldownDuration, \* 15 s
  RebuildBackoff    \* 60 s

ASSUME WatchdogAssumption ==
  /\ StallThreshold \in Nat /\ CameraSetGrace \in Nat /\ EscalateAfter \in Nat
  /\ GOPGrace \in Nat /\ CooldownDuration \in Nat /\ RebuildBackoff \in Nat
  /\ 0 < StallThreshold
  /\ StallThreshold < CameraSetGrace
  /\ CameraSetGrace < EscalateAfter
  /\ EscalateAfter <= StallThreshold + CameraSetGrace
  /\ StallThreshold + CameraSetGrace < GOPGrace
  /\ EscalateAfter < CooldownDuration
  /\ GOPGrace < RebuildBackoff

Never == -1

Clocks == {"video", "unit", "decoded", "status", "enable", "control", "rebuild"}

AgeCap == [video   |-> GOPGrace + StallThreshold,
           unit    |-> StallThreshold + CameraSetGrace,
           decoded |-> StallThreshold,
           status  |-> StallThreshold,
           enable  |-> GOPGrace,
           control |-> CameraSetGrace,
           rebuild |-> RebuildBackoff]

Ages == {ages \in [Clocks -> Never .. GOPGrace + StallThreshold + RebuildBackoff] :
           \A c \in Clocks : ages[c] <= AgeCap[c]}

Seen(age) == age # Never

Younger(age, limit) == Seen(age) /\ age < limit

AtLeast(age, limit) == Seen(age) /\ age >= limit

Stages == {"idle", "resendEnable", "reopenDatalink", "fullRejoin", "cooldown"}

(* since: the age of the last action; enables: encoder-pause enables this stall. *)
Watchdog == [stage   : Stages,
             since   : 0 .. CooldownDuration,
             enables : 0 .. 2]

IdleWatchdog == [stage |-> "idle", since |-> 0, enables |-> 0]

(***************************************************************************)
(* A snapshot is [live, blocked, sawPicture, ages].                        *)
(***************************************************************************)
UdpReceiveAlive(s) ==
  Younger(s.ages.video, StallThreshold) \/ Younger(s.ages.unit, StallThreshold)

ControlReceiveAlive(s) == Younger(s.ages.status, StallThreshold)

(* Packets arrive, but no complete access unit, and the screen stands still. *)
AssemblyStalled(s) ==
  /\ s.sawPicture
  /\ UdpReceiveAlive(s)
  /\ AtLeast(s.ages.unit, StallThreshold)
  /\ AtLeast(s.ages.decoded, StallThreshold)

(* An enable cuts a new GOP: silence is expected, unless it is older than it. *)
HoldForGOPReset(s) ==
  /\ Younger(s.ages.enable, GOPGrace)
  /\ ~(Seen(s.ages.video) /\ s.ages.video > s.ages.enable + StallThreshold)

(* A control write may pause the encoder; the pause must not last for ever. *)
HoldForControlGrace(s) ==
  LET stalled == IF AssemblyStalled(s) THEN s.ages.unit ELSE s.ages.video
  IN  /\ Younger(s.ages.control, CameraSetGrace)
      /\ ~AtLeast(stalled, StallThreshold + CameraSetGrace)

TooSoon(w) == w.stage # "idle" /\ w.since < EscalateAfter

(* Mutant: without a picture, one enable and then nothing. *)
GivesUpUnseen(w) ==
  IF TooSoon(w) THEN "hold"
  ELSE IF w.stage = "idle" THEN "resendEnable" ELSE "cooldown"

(* The ladder before the first picture of the session. *)
FirstPictureRung(w) ==
  IF TooSoon(w) THEN "hold"
  ELSE CASE w.stage = "idle"         -> "resendEnable"
         [] w.stage = "resendEnable" -> "reopenDatalink"
         [] w.stage = "cooldown"     -> "hold"
         [] OTHER                    -> "cooldown"

(* Mutant: as long as telemetry comes, one enable after the other. *)
EnablesForEver(w, s) ==
  CASE ControlReceiveAlive(s) \/ AssemblyStalled(s) -> "resendEnable"
    [] OTHER -> "reopenDatalink"

(* Mutant: a datalink replaced just now is not given time. *)
RejoinsAtOnce(w, s) ==
  IF (ControlReceiveAlive(s) \/ AssemblyStalled(s)) /\ w.enables < 2
  THEN "resendEnable"
  ELSE IF Younger(s.ages.rebuild, RebuildBackoff) THEN "fullRejoin" ELSE "reopenDatalink"

(* An encoder pause is enabled twice, a dead socket is not; then the socket is *)
(* replaced, or, when that was done lately, the session.                       *)
NextRepair(w, s) ==
  IF (ControlReceiveAlive(s) \/ AssemblyStalled(s)) /\ w.enables < 2
  THEN "resendEnable"
  ELSE CASE Younger(s.ages.rebuild, EscalateAfter) -> "hold"
         [] ~Younger(s.ages.rebuild, RebuildBackoff) -> "reopenDatalink"
         [] OTHER -> "fullRejoin"

(* The ladder after it. *)
AfterPictureRung(w, s) ==
  IF TooSoon(w) /\ w.stage # "fullRejoin" THEN "hold"
  ELSE CASE w.stage = "fullRejoin"     -> "cooldown"
         [] w.stage = "reopenDatalink" -> "fullRejoin"
         [] w.stage = "cooldown"       ->
              IF w.since >= CooldownDuration THEN "reopenDatalink" ELSE "hold"
         [] OTHER -> NextRepair(w, s)

Holds(s) == s.blocked \/ HoldForGOPReset(s) \/ HoldForControlGrace(s)

FeedAlive(s) == UdpReceiveAlive(s) /\ ~AssemblyStalled(s)

(* Mutant: the ladder keeps its rung while the session is not open. *)
KeepsItsRung(w, s) ==
  CASE s.live /\ ~s.blocked /\ FeedAlive(s) -> "idle"
    [] ~s.live \/ ((s.blocked \/ ~FeedAlive(s)) /\ Holds(s)) -> "hold"
    [] OTHER -> IF s.sawPicture THEN AfterPictureRung(w, s) ELSE FirstPictureRung(w)

(* What the tick decides: the next rung, "hold", or "idle" to start over. *)
Decide(w, s) ==
  CASE ~s.live \/ (~s.blocked /\ FeedAlive(s)) -> "idle"
    [] s.live /\ (s.blocked \/ ~FeedAlive(s)) /\ Holds(s) -> "hold"
    [] OTHER -> IF s.sawPicture THEN AfterPictureRung(w, s) ELSE FirstPictureRung(w)

AfterTick(w, s) ==
  LET rung == Decide(w, s)
  IN  CASE rung = "idle" -> IdleWatchdog
        [] rung = "hold" -> w
        [] OTHER ->
             [stage   |-> rung,
              since   |-> 0,
              enables |-> IF rung = "resendEnable" /\ s.sawPicture
                          THEN w.enables + 1
                          ELSE w.enables]
=============================================================================
