--------------------------- MODULE FeedSessionProofs ---------------------------
(***************************************************************************)
(* Proofs about FeedSession for every value of its constants: any          *)
(* thresholds in the order WatchdogAssumption demands, either body, any    *)
(* operator.                                                               *)
(***************************************************************************)
EXTENDS FeedSession, TLAPS

LEMMA Constants ==
  /\ StallThreshold \in Nat /\ CameraSetGrace \in Nat /\ EscalateAfter \in Nat
  /\ GOPGrace \in Nat /\ CooldownDuration \in Nat /\ RebuildBackoff \in Nat
  /\ HandshakeDeadline \in Nat /\ PokeSettle \in Nat
  /\ 0 < StallThreshold
  /\ EscalateAfter < CooldownDuration
  /\ EscalateAfter < RebuildBackoff
BY WatchdogAssumption, FeedAssumption

-----------------------------------------------------------------------------
(***************************************************************************)
(* Ages.                                                                   *)
(***************************************************************************)
MaxAge == GOPGrace + StallThreshold + RebuildBackoff

LEMMA CapsAreSmall ==
  ASSUME NEW c \in Clocks
  PROVE  AgeCap[c] \in Nat /\ AgeCap[c] <= MaxAge
<1>1. CASE c = "video"
  BY <1>1, WatchdogAssumption DEF AgeCap, MaxAge
<1>2. CASE c = "unit"
  BY <1>2, WatchdogAssumption DEF AgeCap, MaxAge
<1>3. CASE c = "decoded"
  BY <1>3, WatchdogAssumption DEF AgeCap, MaxAge
<1>4. CASE c = "status"
  BY <1>4, WatchdogAssumption DEF AgeCap, MaxAge
<1>5. CASE c = "enable"
  BY <1>5, WatchdogAssumption DEF AgeCap, MaxAge
<1>6. CASE c = "control"
  BY <1>6, WatchdogAssumption DEF AgeCap, MaxAge
<1>7. CASE c = "rebuild"
  BY <1>7, WatchdogAssumption DEF AgeCap, MaxAge
<1> QED
  BY <1>1, <1>2, <1>3, <1>4, <1>5, <1>6, <1>7 DEF Clocks

LEMMA AgeType ==
  ASSUME NEW f \in Ages, NEW c \in Clocks
  PROVE  /\ f[c] \in Int
         /\ Never <= f[c]
         /\ f[c] <= AgeCap[c]
<1>1. f \in [Clocks -> Never .. MaxAge] /\ f[c] <= AgeCap[c]
  BY DEF Ages, MaxAge
<1>2. f[c] \in Never .. MaxAge
  BY <1>1
<1> QED
  BY <1>1, <1>2, Constants DEF Never, MaxAge

(* A clock that is reset, or that stands as if nothing was seen, has a legal age. *)
LEMMA AgesMove ==
  ASSUME NEW f \in Ages, NEW g, g = [c \in Clocks |-> g[c]],
         \A c \in Clocks : g[c] \in {f[c], 0, Never}
  PROVE  g \in Ages
<1>1. ASSUME NEW c \in Clocks
      PROVE  g[c] \in Never .. MaxAge /\ g[c] <= AgeCap[c]
  BY AgeType, CapsAreSmall, Constants DEF Never, MaxAge
<1>2. g \in [Clocks -> Never .. MaxAge]
  BY <1>1
<1> QED
  BY <1>1, <1>2 DEF Ages, MaxAge

LEMMA AgesGrow ==
  ASSUME NEW f \in Ages, NEW g,
         g = [c \in Clocks |-> IF Seen(f[c]) THEN Capped(f[c] + 1, AgeCap[c]) ELSE Never]
  PROVE  g \in Ages
<1>1. ASSUME NEW c \in Clocks
      PROVE  g[c] \in Never .. MaxAge /\ g[c] <= AgeCap[c]
  <2>1. g[c] = IF Seen(f[c]) THEN Capped(f[c] + 1, AgeCap[c]) ELSE Never
    OBVIOUS
  <2> QED
    BY <2>1, AgeType, CapsAreSmall, Constants DEF Never, MaxAge, Capped, Seen
<1>2. g \in [Clocks -> Never .. MaxAge]
  BY <1>1
<1> QED
  BY <1>1, <1>2 DEF Ages, MaxAge

LEMMA NothingSeen == [c \in Clocks |-> Never] \in Ages
<1>1. \A c \in Clocks : Never \in Never .. MaxAge /\ Never <= AgeCap[c]
  BY CapsAreSmall, Constants DEF Never, MaxAge
<1> QED
  BY <1>1 DEF Ages, MaxAge

-----------------------------------------------------------------------------
(***************************************************************************)
(* The ladder.                                                             *)
(***************************************************************************)
Decisions == Stages \cup {"hold"}

(* What a rung was decided from. *)
LEMMA RungCause ==
  ASSUME NEW w \in Watchdog, NEW s, s.ages.rebuild \in Int
  PROVE  /\ Decide(w, s) \in Decisions
         /\ Decide(w, s) = "resendEnable" /\ s.sawPicture => w.enables < 2
         /\ Decide(w, s) \in {"reopenDatalink", "fullRejoin"} =>
              IF w.stage = "idle"
              THEN ~Younger(s.ages.rebuild, EscalateAfter)
              ELSE w.since >= EscalateAfter
         /\ Decide(w, s) = "cooldown" => w.stage \notin {"idle", "resendEnable"}
         /\ ~s.live => Decide(w, s) = "idle"
<1>1. w.stage \in Stages /\ w.since \in Nat /\ w.enables \in 0 .. 2
  BY Constants DEF Watchdog
<1>2. /\ FirstPictureRung(w) \in Decisions \ {"fullRejoin", "idle"}
      /\ FirstPictureRung(w) = "reopenDatalink" => w.stage # "idle" /\ w.since >= EscalateAfter
      /\ FirstPictureRung(w) = "cooldown" => w.stage \notin {"idle", "resendEnable"}
  BY <1>1, Constants DEF FirstPictureRung, Stages, Decisions, TooSoon
<1>3. /\ NextRepair(w, s) \in {"resendEnable", "hold", "reopenDatalink", "fullRejoin"}
      /\ NextRepair(w, s) = "resendEnable" => w.enables < 2
      /\ NextRepair(w, s) \in {"reopenDatalink", "fullRejoin"} =>
           ~Younger(s.ages.rebuild, EscalateAfter)
  BY WatchdogAssumption DEF NextRepair, Younger
<1>4. /\ AfterPictureRung(w, s) \in Decisions \ {"idle"}
      /\ AfterPictureRung(w, s) = "resendEnable" => w.enables < 2
      /\ AfterPictureRung(w, s) \in {"reopenDatalink", "fullRejoin"} =>
           IF w.stage = "idle"
           THEN ~Younger(s.ages.rebuild, EscalateAfter)
           ELSE w.since >= EscalateAfter
      /\ AfterPictureRung(w, s) = "cooldown" => w.stage \notin {"idle", "resendEnable"}
  BY <1>1, <1>3, Constants DEF AfterPictureRung, Stages, Decisions, TooSoon
<1>5. Decide(w, s) \in {"idle", "hold", FirstPictureRung(w), AfterPictureRung(w, s)}
  BY DEF Decide
<1> QED
  BY <1>1, <1>2, <1>3, <1>4, <1>5 DEF Decide, Decisions, Stages

(* The ladder after a tick: back to the start, as it was, or on a rung just taken. *)
LEMMA WatchdogType ==
  ASSUME NEW w \in Watchdog, NEW s, s.ages.rebuild \in Int
  PROVE  /\ AfterTick(w, s) \in Watchdog
         /\ \/ AfterTick(w, s) = IdleWatchdog /\ Decide(w, s) = "idle"
            \/ AfterTick(w, s) = w /\ Decide(w, s) = "hold"
            \/ /\ AfterTick(w, s).stage = Decide(w, s)
               /\ AfterTick(w, s).since = 0
               /\ Decide(w, s) \notin {"idle", "hold"}
<1>1. Decide(w, s) \in Decisions
  BY RungCause
<1>2. Decide(w, s) = "resendEnable" /\ s.sawPicture => w.enables < 2
  BY RungCause
<1>3. CASE Decide(w, s) = "idle"
  <2>1. AfterTick(w, s) = IdleWatchdog
    BY <1>3 DEF AfterTick
  <2> QED
    BY <1>3, <2>1, Constants DEF IdleWatchdog, Watchdog, Stages
<1>4. CASE Decide(w, s) = "hold"
  <2>1. AfterTick(w, s) = w
    BY <1>4 DEF AfterTick
  <2> QED
    BY <1>4, <2>1
<1>5. CASE Decide(w, s) \notin {"idle", "hold"}
  <2>1. w.enables \in 0 .. 2
    BY DEF Watchdog
  <2> DEFINE n == IF Decide(w, s) = "resendEnable" /\ s.sawPicture
                  THEN w.enables + 1 ELSE w.enables
  <2>2. n \in 0 .. 2
    BY <2>1, <1>2
  <2>3. AfterTick(w, s) = [stage |-> Decide(w, s), since |-> 0, enables |-> n]
    BY <1>5 DEF AfterTick
  <2> HIDE DEF n
  <2> QED
    BY <1>1, <1>5, <2>2, <2>3, Constants DEF Watchdog, Decisions
<1> QED
  BY <1>3, <1>4, <1>5
-----------------------------------------------------------------------------
(***************************************************************************)
(* The inductive invariant of type correctness.  The history of enables is *)
(* bounded only because a datalink that has not opened has sent none, and  *)
(* because the two places that send one, the sequencer's flag and the      *)
(* settle window, are each spent once.                                     *)
(***************************************************************************)
Fresh ==
  phase \in {"Handshaking", "Unreachable"} =>
    settle = "none" /\ ~enabled /\ connects = 0

Budget ==
  connects + (IF enabled THEN 0 ELSE 1) + (IF settle = "none" THEN 0 ELSE 1) <= 2

Typed == TypeOK /\ Fresh /\ Budget

LEMMA TypedInit == Init => Typed
<1> SUFFICES ASSUME Init
             PROVE  Typed
  OBVIOUS
<1>1. ages \in Ages
  BY NothingSeen DEF Init
<1>2. watchdog \in Watchdog
  BY Constants DEF Init, IdleWatchdog, Watchdog, Stages
<1> QED
  <2>1. Fresh /\ Budget
    BY DEF Init, Fresh, Budget
  <2>2. opening \in 0 .. HandshakeDeadline /\ pokeAge \in 0 .. PokeSettle
    BY Constants DEF Init
  <2>4. connects \in 0 .. 2 /\ resends \in Nat
    BY DEF Init
  <2>5. asked \in BOOLEAN /\ enabled \in BOOLEAN /\ sawPicture \in BOOLEAN
    BY DEF Init
  <2>6. blocked \in BOOLEAN /\ commanded \in BOOLEAN /\ recording \in BOOLEAN /\ polled \in BOOLEAN
    BY DEF Init
  <2>3. TypeOK
    BY <1>1, <1>2, <2>2, <2>4, <2>5, <2>6, Zenon DEF Init, TypeOK
  <2> QED
    BY <2>1, <2>3 DEF Typed

(* Every action but the rungs of the watchdog and the passing of time. *)
LEMMA TypedPoll ==
  ASSUME Typed,
         \/ Command \/ Presented \/ (\E away \in BOOLEAN : SetRepairBlocked(away))
         \/ StartPoll \/ HandshakeReply \/ (\E completes \in BOOLEAN : VideoPacket(completes))
         \/ (\E records \in BOOLEAN : Status(records)) \/ Settled \/ EndReceive
         \/ Handshake \/ Serve \/ Wait \/ Kick \/ Restore \/ PokeEnable \/ NotYet
  PROVE  Typed'
<1> USE DEF vars, link, camera, format, shell
<1>1. CASE StartPoll \/ EndReceive
  BY <1>1 DEF Typed, TypeOK, Fresh, Budget, StartPoll, EndReceive
<1>11. CASE Command
  BY <1>11 DEF Typed, TypeOK, Fresh, Budget, Command
<1>12. CASE \E away \in BOOLEAN : SetRepairBlocked(away)
  BY <1>12 DEF Typed, TypeOK, Fresh, Budget, SetRepairBlocked
<1>2. CASE Presented
  <2>1. ages' \in Ages
    <3>1. ages' = [ages EXCEPT !.decoded = 0] /\ ages \in Ages
      BY <1>2 DEF Typed, TypeOK, Presented
    <3>2. ages \in [Clocks -> Never .. MaxAge]
      BY <3>1 DEF Ages, MaxAge
    <3> QED
      BY <3>1, <3>2, AgesMove
  <2> QED
    BY <1>2, <2>1 DEF Typed, TypeOK, Fresh, Budget, Presented
<1>3. CASE HandshakeReply
  BY <1>3 DEF Typed, TypeOK, Fresh, Budget, HandshakeReply
<1>4. CASE \E completes \in BOOLEAN : VideoPacket(completes)
  <2>1. PICK completes \in BOOLEAN : VideoPacket(completes)
    BY <1>4
  <2>2. ages' \in Ages
    <3>1. /\ ages' = [ages EXCEPT !.video = 0, !.unit = IF completes THEN 0 ELSE @]
          /\ ages \in Ages
      BY <2>1 DEF Typed, TypeOK, VideoPacket
    <3>2. ages \in [Clocks -> Never .. MaxAge]
      BY <3>1 DEF Ages, MaxAge
    <3> QED
      BY <3>1, <3>2, AgesMove
  <2> QED
    BY <2>1, <2>2 DEF Typed, TypeOK, Fresh, Budget, VideoPacket
<1>5. CASE \E records \in BOOLEAN : Status(records)
  <2>1. PICK records \in BOOLEAN : Status(records)
    BY <1>5
  <2>2. ages' \in Ages
    <3>1. ages' = [ages EXCEPT !.status = 0] /\ ages \in Ages
      BY <2>1 DEF Typed, TypeOK, Status
    <3>2. ages \in [Clocks -> Never .. MaxAge]
      BY <3>1 DEF Ages, MaxAge
    <3> QED
      BY <3>1, <3>2, AgesMove
  <2> QED
    BY <2>1, <2>2 DEF Typed, TypeOK, Fresh, Budget, Status
<1>6. CASE Settled
  BY <1>6 DEF Typed, TypeOK, Fresh, Budget, Settled
<1>7. CASE Handshake
  BY <1>7 DEF Typed, TypeOK, Fresh, Budget, Handshake
<1>8. CASE Serve
  <2>1. ages' \in Ages
    <3>1. /\ ages' = [ages EXCEPT !.control = IF commanded THEN 0 ELSE @,
                                  !.enable = IF ConnectEnables > 0 THEN 0 ELSE @]
          /\ ages \in Ages
      BY <1>8 DEF Typed, TypeOK, Serve
    <3>2. ages \in [Clocks -> Never .. MaxAge]
      BY <3>1 DEF Ages, MaxAge
    <3> QED
      BY <3>1, <3>2, AgesMove
  <2>2. connects' \in 0 .. 2 /\ Budget'
    BY <1>8 DEF Typed, TypeOK, Budget, Serve, ConnectEnables
  <2> QED
    BY <1>8, <2>1, <2>2 DEF Typed, TypeOK, Fresh, Serve, SessionOpen
<1>9. CASE Wait \/ Kick \/ Restore \/ NotYet
  <2>1. /\ at' = "between"
        /\ polled' = TRUE
        /\ UNCHANGED <<link, ages, camera, watchdog, shell, resends>>
    BY <1>9 DEF Wait, Kick, Restore, NotYet, EndRound
  <2>2. /\ poke' \in {"never", "kicked", "restored", "done"}
        /\ pokeAge' \in 0 .. PokeSettle
    BY <1>9, Constants DEF Typed, TypeOK, Wait, Kick, Restore, NotYet
  <2> QED
    BY <2>1, <2>2 DEF Typed, TypeOK, Fresh, Budget
<1>10. CASE PokeEnable
  <2>1. ages' \in Ages
    <3>1. ages' = [ages EXCEPT !.enable = 0] /\ ages \in Ages
      BY <1>10 DEF Typed, TypeOK, PokeEnable
    <3>2. ages \in [Clocks -> Never .. MaxAge]
      BY <3>1 DEF Ages, MaxAge
    <3> QED
      BY <3>1, <3>2, AgesMove
  <2> QED
    BY <1>10, <2>1 DEF Typed, TypeOK, Fresh, Budget, PokeEnable
<1> QED
  BY <1>1, <1>2, <1>3, <1>4, <1>5, <1>6, <1>7, <1>8, <1>9, <1>10, <1>11, <1>12

LEMMA TypedWatch ==
  ASSUME Typed, NoRepair \/ ResendEnable \/ ReopenDatalink
  PROVE  Typed'
<1> USE DEF vars, link, camera, format, shell
<1>1. /\ watchdog' = AfterTick(watchdog, Snapshot)
      /\ at' = "between" /\ polled' = TRUE
  BY DEF NoRepair, ResendEnable, ReopenDatalink, Watch, EndRound
<1>2. watchdog' \in Watchdog
  <2>1. watchdog \in Watchdog /\ Snapshot.ages.rebuild \in Int
    BY AgeType DEF Typed, TypeOK, Snapshot, Clocks
  <2> QED
    BY <1>1, <2>1, WatchdogType
<1>3. ages \in Ages /\ ages \in [Clocks -> Never .. MaxAge]
  BY DEF Typed, TypeOK, Ages, MaxAge
<1>4. CASE NoRepair
  BY <1>1, <1>2, <1>4 DEF Typed, TypeOK, Fresh, Budget, NoRepair
<1>5. CASE ResendEnable
  <2>1. ages' = [ages EXCEPT !.enable = 0]
    BY <1>5 DEF ResendEnable
  <2>2. ages' \in Ages
    BY <1>3, <2>1, AgesMove
  <2> QED
    BY <1>1, <1>2, <1>5, <2>2 DEF Typed, TypeOK, Fresh, Budget, ResendEnable
<1>6. CASE ReopenDatalink
  <2>1. ages' = [ages EXCEPT !.video = Never, !.unit = Never, !.decoded = Never,
                             !.rebuild = 0]
    BY <1>6 DEF ReopenDatalink
  <2>2. ages' \in Ages
    BY <1>3, <2>1, AgesMove
  <2> QED
    <3>1. opening' \in 0 .. HandshakeDeadline
      BY <1>6, Constants DEF ReopenDatalink
    <3>2. Fresh' /\ Budget'
      BY <1>6 DEF Fresh, Budget, ReopenDatalink
    <3>3. /\ asked' \in BOOLEAN /\ enabled' \in BOOLEAN
          /\ commanded' \in BOOLEAN /\ polled' \in BOOLEAN
      BY <1>1, <1>6 DEF ReopenDatalink
    <3>4. /\ at' = "between" /\ phase' = "Handshaking" /\ settle' = "none"
          /\ connects' = 0 /\ resends' = 0
          /\ UNCHANGED <<camera, blocked, format>>
      BY <1>1, <1>6 DEF ReopenDatalink
    <3> QED
      BY <1>2, <2>2, <3>1, <3>2, <3>3, <3>4 DEF Typed, TypeOK
<1> QED
  BY <1>4, <1>5, <1>6

LEMMA TypedElapse ==
  ASSUME Typed, Elapse
  PROVE  Typed'
<1> USE DEF vars, link, camera, format, shell
<1>1. ages' \in Ages
  BY AgesGrow DEF Typed, TypeOK, Elapse
<1>2. watchdog' \in Watchdog
  <2>1. watchdog \in Watchdog
    BY DEF Typed, TypeOK
  <2>2. CASE watchdog.stage = "idle"
    BY <2>1, <2>2 DEF Elapse
  <2>3. CASE watchdog.stage # "idle"
    BY <2>1, <2>3, Constants DEF Elapse, Watchdog, Capped
  <2> QED
    BY <2>2, <2>3
<1>3. opening' \in 0 .. HandshakeDeadline /\ pokeAge' \in 0 .. PokeSettle
  BY Constants DEF Typed, TypeOK, Elapse, Capped
<1>4. /\ polled' = FALSE
      /\ settle' = IF settle = "settling" THEN "settled" ELSE settle
      /\ UNCHANGED <<at, phase, asked, enabled, connects, camera, shell, poke, resends>>
  BY DEF Elapse
<1>5. Fresh' /\ Budget'
  BY <1>4 DEF Typed, TypeOK, Fresh, Budget
<1>6. TypeOK'
  <2>1. polled' \in BOOLEAN
    BY <1>4
  <2>2. settle' \in {"none", "settling", "settled"}
    BY <1>4 DEF Typed, TypeOK
  <2>3. UNCHANGED <<at, phase, asked, enabled, connects, camera, shell, poke, resends>>
    BY <1>4
  <2> QED
    BY <1>1, <1>2, <1>3, <2>1, <2>2, <2>3 DEF Typed, TypeOK
<1> QED
  BY <1>5, <1>6 DEF Typed

LEMMA TypedNext == Typed /\ [Next]_vars => Typed'
<1> SUFFICES ASSUME Typed, [Next]_vars
             PROVE  Typed'
  OBVIOUS
<1>1. CASE Next
  BY <1>1, TypedPoll, TypedWatch, TypedElapse DEF Next
<1>2. CASE UNCHANGED vars
  BY <1>2 DEF Typed, TypeOK, Fresh, Budget, vars, link, camera, format, shell
<1> QED
  BY <1>1, <1>2

(* Every variable keeps its type; with Budget, no datalink is ever enabled  *)
(* more than twice by the connect path, however slow the worker is.         *)
THEOREM AlwaysTyped == Spec => []Typed
BY TypedInit, TypedNext, PTL DEF Spec

THEOREM FeedTypeCorrect == Spec => []TypeOK
<1>1. Typed => TypeOK
  BY DEF Typed
<1> QED
  BY <1>1, AlwaysTyped, PTL

-----------------------------------------------------------------------------
(***************************************************************************)
(* One enable.  When no poll is held up, a datalink that opens is in its   *)
(* settle window until the tick that spends the sequencer's flag, and that *)
(* tick sends nothing; the deferred enable is then the only one left.      *)
(***************************************************************************)
Owed ==
  /\ settle # "none" => connects = 0
  /\ SessionOpen /\ ~enabled => settle = "settling" /\ at \in {"receive", "tick"}
  /\ connects \in {0, 1}

LEMMA OwedNext ==
  ASSUME Typed, Owed, [Next]_vars, PromptPolls
  PROVE  Owed'
<1> USE DEF vars, link, camera, format, shell, Owed
<1>1. CASE Command \/ Presented \/ (\E away \in BOOLEAN : SetRepairBlocked(away))
           \/ (\E records \in BOOLEAN : Status(records)) \/ UNCHANGED vars
  BY <1>1 DEF SessionOpen, Command, Presented, SetRepairBlocked, Status
<1>2. CASE StartPoll \/ EndReceive
  BY <1>2 DEF SessionOpen, StartPoll, EndReceive
<1>3. CASE HandshakeReply
  BY <1>3 DEF SessionOpen, HandshakeReply, Typed, Fresh
<1>4. CASE \E completes \in BOOLEAN : VideoPacket(completes)
  BY <1>4 DEF SessionOpen, VideoPacket, Typed, TypeOK
<1>5. CASE Settled
  BY <1>5 DEF SessionOpen, Settled, Typed, TypeOK
<1>6. CASE Handshake
  BY <1>6 DEF SessionOpen, Handshake
<1>7. CASE Serve
  <2>1. CASE enabled
    BY <1>7, <2>1 DEF Serve, ConnectEnables, Typed, TypeOK
  <2>2. CASE ~enabled
    BY <1>7, <2>2 DEF Serve, ConnectEnables, Typed, TypeOK
  <2> QED
    BY <2>1, <2>2
<1>8. CASE Wait \/ Kick \/ Restore \/ PokeEnable \/ NotYet \/ NoRepair \/ ResendEnable
  BY <1>8 DEF SessionOpen, Wait, Kick, Restore, PokeEnable, NotYet, NoRepair, ResendEnable,
              Watch, EndRound
<1>9. CASE ReopenDatalink
  BY <1>9 DEF SessionOpen, ReopenDatalink
<1>10. CASE Elapse
  BY <1>10 DEF SessionOpen, Elapse
<1> QED
  BY <1>1, <1>2, <1>3, <1>4, <1>5, <1>6, <1>7, <1>8, <1>9, <1>10 DEF Next

(* The connect path enables live view at most once on a datalink, when the  *)
(* worker finishes a round in every unit of time.                           *)
THEOREM EnabledOnce ==
  ASSUME PromptPolls
  PROVE  Spec => []ConnectEnablesOnce
<1>1. Init => Owed
  BY DEF Init, Owed, SessionOpen
<1>2. Typed /\ Owed /\ [Next]_vars => Owed'
  BY OwedNext
<1>3. Owed => ConnectEnablesOnce
  BY DEF Owed, ConnectEnablesOnce
<1> QED
  BY <1>1, <1>2, <1>3, AlwaysTyped, PTL DEF Spec

-----------------------------------------------------------------------------
(***************************************************************************)
(* Rebuilds.  A rung above idle is either younger than the last rebuild,   *)
(* so that waiting out the rung waits out the rebuild, or the rebuild was  *)
(* waited out already.                                                     *)
(***************************************************************************)
RebuildIsOlder ==
  watchdog.stage # "idle" /\ Seen(ages.rebuild) =>
    watchdog.since <= ages.rebuild \/ ages.rebuild >= EscalateAfter

LEMMA RebuildNext ==
  ASSUME Typed, RebuildIsOlder, [Next]_vars
  PROVE  RebuildIsOlder'
<1> USE DEF vars, link, camera, format, shell
<1>1. /\ watchdog \in Watchdog /\ ages \in Ages
      /\ ages \in [Clocks -> Never .. MaxAge]
      /\ ages.rebuild \in Int /\ Never <= ages.rebuild
  BY AgeType DEF Typed, TypeOK, Ages, MaxAge, Clocks
<1>2. ASSUME watchdog' = watchdog, ages'.rebuild = ages.rebuild
      PROVE  RebuildIsOlder'
  BY <1>2 DEF RebuildIsOlder
<1>3. CASE \/ Command \/ (\E away \in BOOLEAN : SetRepairBlocked(away)) \/ StartPoll
           \/ HandshakeReply \/ Settled \/ EndReceive \/ Handshake
           \/ Wait \/ Kick \/ Restore \/ NotYet \/ UNCHANGED vars
  BY <1>2, <1>3 DEF Command, SetRepairBlocked, StartPoll, HandshakeReply, Settled, EndReceive,
                    Handshake, Wait, Kick, Restore, NotYet
<1>4. CASE \/ Presented \/ (\E completes \in BOOLEAN : VideoPacket(completes))
           \/ (\E records \in BOOLEAN : Status(records)) \/ Serve \/ PokeEnable
  BY <1>1, <1>2, <1>4 DEF Presented, VideoPacket, Status, Serve, PokeEnable, Clocks
<1>5. CASE NoRepair \/ ResendEnable \/ ReopenDatalink
  <2>1. /\ watchdog' = AfterTick(watchdog, Snapshot)
        /\ Snapshot.ages.rebuild \in Int
    BY <1>1, <1>5 DEF NoRepair, ResendEnable, ReopenDatalink, Watch, Snapshot
  <2>2. \/ watchdog' = IdleWatchdog
        \/ watchdog' = watchdog /\ Rung = "hold"
        \/ watchdog'.since = 0
    BY <1>1, <2>1, WatchdogType DEF Rung
  <2>3. ages'.rebuild = ages.rebuild \/ ages'.rebuild = 0
    BY <1>1, <1>5 DEF NoRepair, ResendEnable, ReopenDatalink, Clocks
  <2>4. Rung = "hold" => ages'.rebuild = ages.rebuild
    BY <1>1, <1>5 DEF NoRepair, ResendEnable, ReopenDatalink, Watch, Clocks
  <2> QED
    BY <1>1, <2>2, <2>3, <2>4 DEF RebuildIsOlder, IdleWatchdog, Seen, Never
<1>6. CASE Elapse
  <2>1. ages'.rebuild = IF Seen(ages.rebuild)
                        THEN Capped(ages.rebuild + 1, RebuildBackoff) ELSE Never
    BY <1>6 DEF Elapse, Clocks, AgeCap
  <2>2. CASE watchdog.stage = "idle"
    BY <1>6, <2>2 DEF Elapse, RebuildIsOlder
  <2>3. CASE watchdog.stage # "idle"
    <3>1. /\ watchdog'.stage = watchdog.stage
          /\ watchdog'.since = Capped(watchdog.since + 1, CooldownDuration)
      BY <1>1, <1>6, <2>3 DEF Elapse, Watchdog
    <3>2. watchdog.since \in Nat
      BY <1>1, Constants DEF Watchdog
    <3> QED
      BY <1>1, <2>1, <2>3, <3>1, <3>2, Constants DEF RebuildIsOlder, Capped, Seen, Never
  <2> QED
    BY <2>2, <2>3
<1> QED
  BY <1>3, <1>4, <1>5, <1>6 DEF Next

(* However the ladder was reset on the way, the datalink is not replaced    *)
(* again before the last rebuild had EscalateAfter to bring the picture.    *)
THEOREM RebuildsSpaced == Spec => RebuildsAreSpaced
<1> DEFINE Spaced == ReopenDatalink => ~Younger(ages.rebuild, EscalateAfter)
           Step   == [Spaced]_vars
<1>1. Init => RebuildIsOlder
  BY DEF Init, RebuildIsOlder, IdleWatchdog
<1>2. Typed /\ RebuildIsOlder /\ [Next]_vars => RebuildIsOlder'
  BY RebuildNext
<1>3. Typed /\ RebuildIsOlder /\ [Next]_vars => Step
  <2>1. SUFFICES ASSUME Typed, RebuildIsOlder, ReopenDatalink
                 PROVE  ~Younger(ages.rebuild, EscalateAfter)
    OBVIOUS
  <2>2. /\ watchdog \in Watchdog
        /\ ages.rebuild \in Int /\ Snapshot.ages.rebuild = ages.rebuild
    BY <2>1, AgeType DEF Typed, TypeOK, Clocks, Snapshot
  <2>3. IF watchdog.stage = "idle"
        THEN ~Younger(ages.rebuild, EscalateAfter)
        ELSE watchdog.since >= EscalateAfter
    <3>1. Decide(watchdog, Snapshot) \in {"reopenDatalink", "fullRejoin"}
      BY <2>1 DEF ReopenDatalink, Watch, Rung
    <3> QED
      BY <2>2, <3>1, RungCause
  <2>4. watchdog.since \in Nat
    BY <2>2, Constants DEF Watchdog
  <2> QED
    BY <2>1, <2>2, <2>3, <2>4, Constants DEF RebuildIsOlder, Younger
<1> HIDE DEF Spaced
<1>4. Spec => [][Spaced]_vars
  BY <1>1, <1>2, <1>3, AlwaysTyped, PTL DEF Spec
<1> QED
  BY <1>4 DEF Spaced, RebuildsAreSpaced

-----------------------------------------------------------------------------
(***************************************************************************)
(* The ladder starts over.  Where no format round-trip comes first, a rung *)
(* above the enables stands only while its new socket handshakes, and the  *)
(* round that asks for the first time ends in a tick that is not live.     *)
(***************************************************************************)
OnlyWhileAsking ==
  watchdog.stage \notin {"idle", "resendEnable"} =>
    /\ phase \in {"Handshaking", "Unreachable"}
    /\ Seen(ages.enable)
    /\ asked => at \in {"recover", "lost"}

LEMMA AskingNext ==
  ASSUME Typed, OnlyWhileAsking, [Next]_vars, ~IsPocket3
  PROVE  OnlyWhileAsking'
<1> USE DEF vars, link, camera, format, shell
<1>1. /\ watchdog \in Watchdog /\ ages \in Ages
      /\ ages \in [Clocks -> Never .. MaxAge]
      /\ ages.rebuild \in Int /\ ages.enable \in Int /\ Never <= ages.enable
  BY AgeType DEF Typed, TypeOK, Ages, MaxAge, Clocks
<1>2. ~MayPoke /\ NoPoke
  BY DEF MayPoke, NoPoke
<1>3. CASE Command \/ (\E away \in BOOLEAN : SetRepairBlocked(away)) \/ StartPoll
           \/ Settled \/ EndReceive \/ UNCHANGED vars
  BY <1>3 DEF OnlyWhileAsking, Command, SetRepairBlocked, StartPoll, Settled, EndReceive
<1>4. CASE HandshakeReply \/ (\E completes \in BOOLEAN : VideoPacket(completes))
  BY <1>4 DEF OnlyWhileAsking, HandshakeReply, VideoPacket
<1>5. CASE Presented \/ (\E records \in BOOLEAN : Status(records))
  BY <1>1, <1>5 DEF OnlyWhileAsking, Presented, Status, Clocks
<1>6. CASE Handshake
  BY <1>6 DEF OnlyWhileAsking, Handshake
<1>7. CASE Serve
  BY <1>7 DEF OnlyWhileAsking, Serve, SessionOpen
<1>8. CASE Wait \/ Kick \/ Restore \/ PokeEnable
  BY <1>2, <1>8 DEF Wait, PokeHolds, Kick, Restore, PokeEnable
<1>9. CASE NotYet
  BY <1>9 DEF OnlyWhileAsking, NotYet, EndRound
<1>10. CASE NoRepair \/ ResendEnable \/ ReopenDatalink
  <2>1. /\ watchdog' = AfterTick(watchdog, Snapshot)
        /\ Seen(ages.enable)
        /\ Snapshot.ages.rebuild \in Int
        /\ Snapshot.live = SessionOpen
    BY <1>1, <1>10 DEF NoRepair, ResendEnable, ReopenDatalink, Watch, Snapshot
  <2>2. \/ watchdog' = IdleWatchdog /\ Rung = "idle"
        \/ watchdog' = watchdog /\ Rung = "hold"
        \/ watchdog'.stage = Rung /\ Rung \notin {"idle", "hold"}
    BY <1>1, <2>1, WatchdogType DEF Rung
  <2>3. CASE ~SessionOpen
    <3>1. Rung = "idle"
      BY <1>1, <2>1, <2>3, RungCause DEF Rung
    <3> QED
      BY <2>2, <3>1 DEF OnlyWhileAsking, IdleWatchdog
  <2>4. CASE SessionOpen
    <3>1. watchdog.stage \in {"idle", "resendEnable"}
      BY <2>4 DEF OnlyWhileAsking, SessionOpen
    <3>2. Rung # "cooldown" /\ Rung \in Decisions
      BY <1>1, <2>1, <3>1, RungCause DEF Rung
    <3>3. CASE ReopenDatalink
      BY <1>1, <2>1, <3>3 DEF OnlyWhileAsking, ReopenDatalink, Clocks
    <3>4. CASE NoRepair \/ ResendEnable
      <4>1. Rung \in {"idle", "hold", "resendEnable"}
        BY <3>2, <3>4 DEF NoRepair, ResendEnable, Watch
      <4> QED
        BY <2>2, <3>1, <4>1 DEF OnlyWhileAsking, IdleWatchdog
    <3> QED
      BY <1>10, <3>3, <3>4
  <2> QED
    BY <2>3, <2>4
<1>11. CASE Elapse
  <2>1. ages'.enable = IF Seen(ages.enable)
                       THEN Capped(ages.enable + 1, GOPGrace) ELSE Never
    BY <1>11 DEF Elapse, Clocks, AgeCap
  <2>2. Seen(ages.enable) => Seen(ages'.enable)
    BY <1>1, <2>1, Constants DEF Capped, Seen, Never
  <2>3. watchdog'.stage = watchdog.stage
    BY <1>1, <1>11 DEF Elapse, Watchdog
  <2> QED
    BY <1>11, <2>2, <2>3 DEF OnlyWhileAsking, Elapse
<1> QED
  BY <1>3, <1>4, <1>5, <1>6, <1>7, <1>8, <1>9, <1>10, <1>11 DEF Next

(* On any body but the Pocket 3 no rung above the enables outlives the      *)
(* handshake of the socket it opened.                                       *)
THEOREM LadderStartsOverThere ==
  ASSUME ~IsPocket3
  PROVE  Spec => []LadderStartsOver
<1>1. Init => OnlyWhileAsking
  BY DEF Init, OnlyWhileAsking, IdleWatchdog
<1>2. Typed /\ OnlyWhileAsking /\ [Next]_vars => OnlyWhileAsking'
  BY AskingNext
<1>3. Typed /\ OnlyWhileAsking => LadderStartsOver
  BY DEF Typed, TypeOK, OnlyWhileAsking, LadderStartsOver, SessionOpen
<1> QED
  BY <1>1, <1>2, <1>3, AlwaysTyped, PTL DEF Spec
-----------------------------------------------------------------------------
(***************************************************************************)
(* Two enables a stall.  After the first picture the ladder counts what it *)
(* sends; before it, the only enable is the one of its first rung.  The    *)
(* two meet in the round in which the first picture comes: its tick finds  *)
(* the feed alive and starts over, because nothing the operator does holds *)
(* it back and the Pocket 3's round-trip ends with the first picture.      *)
(***************************************************************************)
JustSeen ==
  \/ at = "lost"
  \/ /\ at \in {"receive", "tick", "recover"}
     /\ ages.video = 0
     /\ ages.unit \in {Never, 0}

Unseen ==
  /\ ages.video = Never /\ ages.unit = Never
  /\ watchdog.enables = 0
  /\ resends = 0 \/ (resends = 1 /\ watchdog.stage = "resendEnable")

Spent ==
  /\ ~blocked
  /\ resends > 0 => Seen(ages.enable)
  /\ ~sawPicture => Unseen
  /\ sawPicture => resends <= watchdog.enables \/ (resends = 1 /\ JustSeen)

(* Steps that leave the picture, the ladder and the count alone. *)
LEMMA SpentRests ==
  ASSUME Typed, Spent, UNCHANGED <<blocked, resends, sawPicture, watchdog>>,
         ages'.video = ages.video, ages'.unit = ages.unit,
         Seen(ages.enable) => Seen(ages'.enable),
         JustSeen => JustSeen'
  PROVE  Spent'
BY DEF Spent, Unseen

(* What the ladder counts: an enable after the first picture, and no other. *)
LEMMA EnablesCounted ==
  ASSUME NEW w \in Watchdog, NEW s, s.ages.rebuild \in Int
  PROVE  /\ Decide(w, s) = "resendEnable" /\ s.sawPicture
              => AfterTick(w, s).enables = w.enables + 1
         /\ Decide(w, s) = "resendEnable" /\ ~s.sawPicture
              => w.stage = "idle" /\ AfterTick(w, s).enables = w.enables
         /\ Decide(w, s) \notin {"idle", "resendEnable"}
              => AfterTick(w, s).enables = w.enables
<1>1. ~s.sawPicture /\ Decide(w, s) = "resendEnable" => FirstPictureRung(w) = "resendEnable"
  BY DEF Decide
<1>2. FirstPictureRung(w) = "resendEnable" => w.stage = "idle"
  BY DEF FirstPictureRung
<1> QED
  BY <1>1, <1>2 DEF AfterTick, Watchdog

(* The tick after the first picture starts the ladder over. *)
LEMMA PictureStartsOver ==
  ASSUME Typed, Spent, sawPicture, JustSeen, at = "recover"
  PROVE  Rung = "idle"
<1>1. UdpReceiveAlive(Snapshot)
  BY Constants DEF JustSeen, UdpReceiveAlive, Younger, Seen, Never, Snapshot
<1>2. ~AssemblyStalled(Snapshot)
  BY Constants DEF JustSeen, AssemblyStalled, AtLeast, Seen, Never, Snapshot
<1>3. ~Snapshot.blocked
  BY DEF Spent, Snapshot
<1> QED
  BY <1>1, <1>2, <1>3 DEF Rung, Decide, FeedAlive

LEMMA SpentWatch ==
  ASSUME Typed, Spent, NoRepair \/ ResendEnable \/ ReopenDatalink
  PROVE  Spent'
<1> USE DEF link, camera, format, shell
<1>1. /\ watchdog \in Watchdog /\ watchdog.enables \in 0 .. 2 /\ resends \in Nat
      /\ Snapshot.ages.rebuild \in Int /\ Snapshot.sawPicture = sawPicture
      /\ ages = [c \in Clocks |-> ages[c]] /\ sawPicture \in BOOLEAN
  BY AgeType DEF Typed, TypeOK, Snapshot, Clocks, Watchdog, Ages
<1>2. /\ at = "recover" /\ watchdog' = AfterTick(watchdog, Snapshot)
      /\ UNCHANGED <<blocked, sawPicture>>
      /\ Seen(ages.enable)
  BY DEF NoRepair, ResendEnable, ReopenDatalink, Watch
<1>3. /\ Rung = "idle" => watchdog' = IdleWatchdog
      /\ Rung = "hold" => watchdog' = watchdog
      /\ Rung \notin {"idle", "hold"} => watchdog'.stage = Rung
      /\ watchdog' \in Watchdog
  BY <1>1, <1>2, WatchdogType DEF Rung
<1>4. /\ Rung = "resendEnable" /\ sawPicture => watchdog'.enables = watchdog.enables + 1
      /\ Rung = "resendEnable" /\ ~sawPicture =>
           watchdog.stage = "idle" /\ watchdog'.enables = watchdog.enables
      /\ Rung \notin {"idle", "resendEnable"} => watchdog'.enables = watchdog.enables
      /\ Rung = "cooldown" => watchdog.stage \notin {"idle", "resendEnable"}
  BY <1>1, <1>2, EnablesCounted, RungCause DEF Rung
<1>5. sawPicture /\ Rung # "idle" => resends <= watchdog.enables
  BY <1>2, PictureStartsOver DEF Spent
<1>6. CASE NoRepair
  <2>1. /\ Rung \in {"idle", "hold", "cooldown"} /\ ages' = ages
        /\ resends' = IF Rung = "idle" THEN 0 ELSE resends
    BY <1>6 DEF NoRepair, Watch
  <2>2. CASE Rung = "idle"
    BY <1>2, <1>3, <2>1, <2>2 DEF Spent, Unseen, IdleWatchdog
  <2>3. CASE Rung \in {"hold", "cooldown"}
    BY <1>1, <1>2, <1>3, <1>4, <1>5, <2>1, <2>3 DEF Spent, Unseen
  <2> QED
    BY <2>1, <2>2, <2>3
<1>7. CASE ResendEnable
  <2>1. /\ Rung = "resendEnable" /\ resends' = resends + 1
        /\ ages' = [ages EXCEPT !.enable = 0]
    BY <1>7 DEF ResendEnable, Watch
  <2>2. ages'.video = ages.video /\ ages'.unit = ages.unit /\ ages'.enable = 0
    BY <1>1, <2>1 DEF Clocks
  <2> QED
    BY <1>1, <1>2, <1>3, <1>4, <1>5, <2>1, <2>2 DEF Spent, Unseen, Seen, Never
<1>8. CASE ReopenDatalink
  <2>1. /\ Rung \in {"reopenDatalink", "fullRejoin"} /\ resends' = 0
        /\ ages' = [ages EXCEPT !.video = Never, !.unit = Never, !.decoded = Never,
                                !.rebuild = 0]
    BY <1>8 DEF ReopenDatalink, Watch
  <2>2. ages'.video = Never /\ ages'.unit = Never
    BY <1>1, <2>1 DEF Clocks
  <2>3. watchdog'.enables \in 0 .. 2
    BY <1>3 DEF Watchdog
  <2> QED
    BY <1>1, <1>2, <1>4, <2>1, <2>2, <2>3 DEF Spent, Unseen
<1> QED
  BY <1>6, <1>7, <1>8

LEMMA SpentNext ==
  ASSUME ~Leaves, Typed, Spent, [Next]_vars
  PROVE  Spent'
<1> USE DEF link, camera, format, shell
<1>1. /\ ages = [c \in Clocks |-> ages[c]]
      /\ watchdog \in Watchdog /\ resends \in Nat /\ sawPicture \in BOOLEAN
      /\ ages.video \in Int /\ ages.unit \in Int /\ ages.enable \in Int
  BY AgeType DEF Typed, TypeOK, Ages, Clocks
<1>2. CASE Command \/ Presented \/ (\E records \in BOOLEAN : Status(records))
           \/ StartPoll \/ HandshakeReply \/ Settled \/ EndReceive \/ UNCHANGED vars
  <2>1. /\ UNCHANGED <<blocked, resends, sawPicture, watchdog>>
        /\ ages'.video = ages.video /\ ages'.unit = ages.unit /\ ages'.enable = ages.enable
    BY <1>1, <1>2 DEF Command, Presented, Status, StartPoll, HandshakeReply, Settled,
                      EndReceive, Clocks, vars
  <2>2. at' = at \/ (at = "between" /\ at' = "receive") \/ (at = "receive" /\ at' = "tick")
    BY <1>2 DEF Command, Presented, Status, StartPoll, HandshakeReply, Settled,
                EndReceive, vars
  <2>3. JustSeen => JustSeen'
    BY <2>1, <2>2 DEF JustSeen
  <2> QED
    BY <2>1, <2>3, SpentRests
<1>3. ASSUME NEW away \in BOOLEAN, SetRepairBlocked(away)
      PROVE  Spent'
  BY <1>3 DEF SetRepairBlocked
<1>4. ASSUME NEW completes \in BOOLEAN, VideoPacket(completes)
      PROVE  Spent'
  <2>1. /\ at = "receive" /\ at' = at /\ sawPicture' = TRUE
        /\ UNCHANGED <<blocked, resends, watchdog>>
        /\ ages' = [ages EXCEPT !.video = 0, !.unit = IF completes THEN 0 ELSE @]
    BY <1>4 DEF VideoPacket
  <2>2. /\ ages'.video = 0 /\ ages'.unit \in {0, ages.unit}
        /\ ages'.enable = ages.enable
    BY <1>1, <2>1 DEF Clocks
  <2>3. CASE ~sawPicture
    BY <1>1, <2>1, <2>2, <2>3 DEF Spent, Unseen, JustSeen
  <2>4. CASE sawPicture
    BY <1>1, <2>1, <2>2, <2>4 DEF Spent, JustSeen
  <2> QED
    BY <1>1, <2>3, <2>4
<1>5. CASE Handshake \/ Serve
  <2>1. /\ UNCHANGED <<blocked, resends, sawPicture, watchdog>>
        /\ ages'.video = ages.video /\ ages'.unit = ages.unit
        /\ ages'.enable \in {ages.enable, 0}
        /\ at = "tick" /\ at' \in {"lost", "recover"}
    BY <1>1, <1>5 DEF Handshake, Serve, Clocks
  <2>2. JustSeen => JustSeen'
    BY <2>1 DEF JustSeen
  <2>3. Seen(ages.enable) => Seen(ages'.enable)
    BY <2>1 DEF Seen, Never
  <2> QED
    BY <2>1, <2>2, <2>3, SpentRests
<1>6. CASE Wait \/ Kick \/ Restore
  <2>1. /\ UNCHANGED <<blocked, resends, sawPicture, watchdog, ages>> /\ ~sawPicture
    BY <1>6 DEF Wait, Kick, Restore, PokeHolds, MayPoke
  <2> QED
    BY <2>1 DEF Spent, Unseen
<1>7. CASE PokeEnable
  <2>1. /\ UNCHANGED <<blocked, resends, sawPicture, watchdog>> /\ ~sawPicture
        /\ ages'.video = ages.video /\ ages'.unit = ages.unit /\ ages'.enable = 0
    BY <1>1, <1>7 DEF PokeEnable, MayPoke, Clocks
  <2> QED
    BY <2>1 DEF Spent, Unseen, Seen, Never
<1>8. CASE NotYet
  <2>1. UNCHANGED <<blocked, resends, sawPicture, watchdog, ages>> /\ ~Seen(ages.enable)
    BY <1>8 DEF NotYet
  <2>2. resends = 0
    BY <1>1, <2>1 DEF Spent
  <2>3. watchdog.enables \in 0 .. 2
    BY <1>1 DEF Watchdog
  <2> QED
    BY <2>1, <2>2, <2>3 DEF Spent, Unseen
<1>9. CASE NoRepair \/ ResendEnable \/ ReopenDatalink
  BY <1>9, SpentWatch
<1>10. CASE Elapse
  <2>1. /\ UNCHANGED <<blocked, resends, sawPicture, at>> /\ at \in {"between", "lost"}
        /\ watchdog'.enables = watchdog.enables /\ watchdog'.stage = watchdog.stage
    BY <1>1, <1>10 DEF Elapse, Watchdog
  <2>2. /\ ages'.video = IF Seen(ages.video) THEN Capped(ages.video + 1, AgeCap["video"])
                         ELSE Never
        /\ ages'.unit = IF Seen(ages.unit) THEN Capped(ages.unit + 1, AgeCap["unit"])
                        ELSE Never
        /\ ages'.enable = IF Seen(ages.enable) THEN Capped(ages.enable + 1, GOPGrace)
                          ELSE Never
    BY <1>10 DEF Elapse, Clocks, AgeCap
  <2>3. Seen(ages.enable) => Seen(ages'.enable)
    BY <1>1, <2>2, AgeType, Constants DEF Capped, Seen, Never, Clocks, Typed, TypeOK
  <2>4. ages.video = Never /\ ages.unit = Never =>
          ages'.video = Never /\ ages'.unit = Never
    BY <2>2 DEF Seen
  <2>5. JustSeen => JustSeen'
    BY <2>1 DEF JustSeen
  <2> QED
    BY <1>1, <2>1, <2>3, <2>4, <2>5 DEF Spent, Unseen
<1> QED
  BY <1>2, <1>3, <1>4, <1>5, <1>6, <1>7, <1>8, <1>9, <1>10 DEF Next

(* A stall costs two enables at most before the next rung, on either body   *)
(* and however slowly the worker polls, as long as the operator stays at    *)
(* the live picture.                                                        *)
THEOREM TwoResendsAStall == Spec => []TwoResendsPerStall
<1>1. ~Leaves /\ Init => Spent
  BY DEF Init, Spent, Unseen, IdleWatchdog, Clocks
<1>2. ~Leaves /\ Typed /\ Spent /\ [Next]_vars => Spent'
  BY SpentNext
<1>3. Typed /\ Spent => TwoResendsPerStall
  <2>1. Typed => watchdog.enables \in 0 .. 2 /\ resends \in Nat
    BY DEF Typed, TypeOK, Watchdog
  <2> QED
    BY <2>1 DEF Spent, Unseen, TwoResendsPerStall, Typed, TypeOK
<1>4. Leaves => TwoResendsPerStall
  BY DEF TwoResendsPerStall
<1> QED
  <2>1. CASE Leaves
    BY <1>4, <2>1, PTL
  <2>2. CASE ~Leaves
    BY <1>1, <1>2, <1>3, <2>2, AlwaysTyped, PTL DEF Spec
  <2> QED
    BY <2>1, <2>2

-----------------------------------------------------------------------------
(***************************************************************************)
(* The first datalink.  Until the watchdog has rebuilt one, an enable that *)
(* was sent is one that waited for the subscriptions to settle: nothing    *)
(* enables ahead of the connect path, and the format round-trip begins     *)
(* only after it.                                                          *)
(***************************************************************************)
FirstSettles ==
  ~Seen(ages.rebuild) =>
    /\ Seen(ages.enable) => settle = "none" /\ phase # "Handshaking"
    /\ poke # "never" => Seen(ages.enable)

LEMMA FirstSettlesNext ==
  ASSUME Typed, FirstSettles, [Next]_vars
  PROVE  FirstSettles'
<1> USE DEF link, camera, format, shell, FirstSettles
<1>1. /\ ages = [c \in Clocks |-> ages[c]]
      /\ ages.enable \in Int /\ ages.rebuild \in Int
  BY AgeType DEF Typed, TypeOK, Ages, Clocks
<1>2. CASE Command \/ (\E away \in BOOLEAN : SetRepairBlocked(away)) \/ StartPoll
           \/ EndReceive \/ Wait \/ Restore \/ NotYet \/ NoRepair \/ Handshake
           \/ UNCHANGED vars
  <2>1. /\ UNCHANGED <<ages, settle>> /\ phase' \in {phase, "Unreachable"}
        /\ poke' = "never" => poke = "never"
        /\ poke = "never" => poke' = "never"
    BY <1>2 DEF Command, SetRepairBlocked, StartPoll, EndReceive, Wait, Restore, NotYet,
                NoRepair, Handshake, Watch, EndRound, vars
  <2> QED
    BY <2>1
<1>3. CASE Presented \/ (\E records \in BOOLEAN : Status(records))
           \/ (\E completes \in BOOLEAN : VideoPacket(completes))
  <2>1. /\ ages'.enable = ages.enable /\ ages'.rebuild = ages.rebuild
        /\ UNCHANGED <<settle, poke>> /\ phase' \in {phase, "Live"}
    BY <1>1, <1>3 DEF Presented, Status, VideoPacket, Clocks
  <2> QED
    BY <2>1
<1>4. CASE HandshakeReply \/ Settled
  BY <1>4 DEF HandshakeReply, Settled
<1>5. CASE Serve
  <2>1. /\ ages'.enable = IF ConnectEnables > 0 THEN 0 ELSE ages.enable
        /\ ages'.rebuild = ages.rebuild
        /\ UNCHANGED <<phase, poke>> /\ phase # "Handshaking"
        /\ settle' = IF settle = "settled" THEN "none" ELSE settle
    BY <1>1, <1>5 DEF Serve, SessionOpen, Clocks
  <2>2. ConnectEnables > 0 => settle' = "none"
    BY <2>1 DEF ConnectEnables, Typed, TypeOK
  <2> QED
    BY <2>1, <2>2 DEF Seen, Never
<1>6. CASE Kick
  BY <1>6 DEF Kick, KickDue, AtLeast
<1>7. CASE PokeEnable \/ ResendEnable
  <2>1. /\ ages'.enable = 0 /\ ages'.rebuild = ages.rebuild
        /\ UNCHANGED <<settle, phase>>
        /\ Seen(ages.enable) \/ poke = "restored"
    BY <1>1, <1>7 DEF PokeEnable, ResendEnable, Watch, Clocks
  <2> QED
    BY <2>1 DEF Seen, Never
<1>8. CASE ReopenDatalink
  <2>1. ages'.rebuild = 0
    BY <1>1, <1>8 DEF ReopenDatalink, Clocks
  <2> QED
    BY <2>1 DEF Seen, Never
<1>9. CASE Elapse
  <2>1. /\ settle = "none" => settle' = "none"
        /\ phase' = phase /\ poke' = poke
        /\ \A c \in {"enable", "rebuild"} :
             ages'[c] = IF Seen(ages[c]) THEN Capped(ages[c] + 1, AgeCap[c]) ELSE Never
    BY <1>9 DEF Elapse, Clocks
  <2>2. /\ Seen(ages.enable) <=> Seen(ages'.enable)
        /\ Seen(ages.rebuild) <=> Seen(ages'.rebuild)
    BY <1>1, <2>1, AgeType, Constants DEF Capped, Seen, Never, Clocks, AgeCap, Typed, TypeOK
  <2> QED
    BY <2>1, <2>2
<1> QED
  BY <1>2, <1>3, <1>4, <1>5, <1>6, <1>7, <1>8, <1>9 DEF Next

(* Up to the first rebuild the comment in recover is true, for any operator, *)
(* body and speed: the watchdog resends no enable before the connect path's  *)
(* own has settled and left.                                                 *)
THEOREM FirstDatalinkSettles == Spec => []FreshSessionIsLeftAlone
<1>1. Init => FirstSettles
  BY DEF Init, FirstSettles, Seen, Clocks
<1>2. Typed /\ FirstSettles /\ [Next]_vars => FirstSettles'
  BY FirstSettlesNext
<1>3. FirstSettles => (~Seen(ages.rebuild) /\ ResendEnable => settle = "none")
  BY DEF FirstSettles, ResendEnable, Watch
<1> QED
  BY <1>1, <1>2, <1>3, AlwaysTyped, PTL DEF Spec, FreshSessionIsLeftAlone

=============================================================================
