------------------------------ MODULE FeedSession ------------------------------
(***************************************************************************)
(* The live picture of one CameraSession: the handshake, the one enable of *)
(* the connect path, the watchdog's repairs, and the Pocket 3's format     *)
(* round-trip, as link.rs polls them.                                      *)
(*                                                                         *)
(* One round of the worker: take the shell's messages and the datagrams    *)
(* that arrived ("receive"), send what is due ("tick"), and recover        *)
(* ("recover"); time passes "between" two rounds.  When the camera never   *)
(* answers the handshake the worker ends ("lost").                         *)
(***************************************************************************)
EXTENDS FeedWatchdog

CONSTANTS
  HandshakeDeadline, \* 10 s
  PokeSettle,        \* 0.8 s between the two format changes, and to the enable
  IsPocket3,         \* the body that needs the format round-trip
  Operates,          \* does the operator write to the camera?
  Leaves,            \* does the operator leave the live picture?
  Records,           \* does the body record?
  PromptPolls        \* does the worker finish a round in every unit of time?

ASSUME FeedAssumption ==
  /\ HandshakeDeadline \in Nat
  /\ PokeSettle \in Nat
  /\ {IsPocket3, Operates, Leaves, Records, PromptPolls} \subseteq BOOLEAN

VARIABLES
  at,         \* where the worker is in its loop
  phase,      \* the sequencer's phase
  opening,    \* how long the handshake has lasted
  asked,      \* a handshake left on this socket
  enabled,    \* the sequencer has asked for the enable
  settle,     \* enable_not_before: "none", "settling" or "settled"
  ages,       \* when things last happened (FeedHealth)
  sawPicture, \* a video packet came, on any datalink of the session
  watchdog,   \* the ladder
  blocked,    \* the operator is away from the live picture
  commanded,  \* an operator command waits for the next tick
  poke,       \* the format round-trip: "never", "kicked", "restored", "done"
  pokeAge,    \* how long ago its last step was
  recording,  \* the body says that it records
  polled,     \* a round has ended since time last passed
  connects,   \* history: enables the connect path sent on this datalink
  resends     \* history: enables the watchdog sent since the feed was last fine

vars == <<at, phase, opening, asked, enabled, settle, ages, sawPicture, watchdog,
          blocked, commanded, poke, pokeAge, recording, polled, connects, resends>>

link == <<phase, opening, asked, enabled, settle, connects>>

camera == <<sawPicture, recording>>

format == <<poke, pokeAge>>

shell == <<blocked, commanded>>

SessionOpen == phase \in {"Waiting", "Live"}

Snapshot == [live       |-> SessionOpen,
             blocked    |-> blocked,
             sawPicture |-> sawPicture,
             ages       |-> ages]

Capped(n, cap) == IF n < cap THEN n ELSE cap

Init ==
  /\ at = "between"
  /\ phase = "Handshaking"
  /\ opening = 0
  /\ asked = FALSE
  /\ enabled = FALSE
  /\ settle = "none"
  /\ ages = [c \in Clocks |-> Never]
  /\ sawPicture = FALSE
  /\ watchdog = IdleWatchdog
  /\ blocked = FALSE
  /\ commanded = FALSE
  /\ poke = "never"
  /\ pokeAge = 0
  /\ recording = FALSE
  /\ polled = TRUE
  /\ connects = 0
  /\ resends = 0

-----------------------------------------------------------------------------
StartPoll ==
  /\ at = "between"
  /\ at' = "receive"
  /\ UNCHANGED <<link, ages, camera, watchdog, shell, format, polled, resends>>

(* What the shell sent down the channel. *)
Command ==
  /\ at = "receive"
  /\ Operates
  /\ commanded' = TRUE
  /\ UNCHANGED <<at, link, ages, camera, watchdog, blocked, format, polled, resends>>

Presented ==
  /\ at = "receive"
  /\ Seen(ages.unit)
  /\ ages' = [ages EXCEPT !.decoded = 0]
  /\ UNCHANGED <<at, link, camera, watchdog, shell, format, polled, resends>>

SetRepairBlocked(away) ==
  /\ at = "receive"
  /\ Leaves
  /\ blocked' = away
  /\ UNCHANGED <<at, link, ages, camera, watchdog, commanded, format, polled, resends>>

-----------------------------------------------------------------------------
(* What arrives. *)

(* The camera answers the handshake: subscribe, and let that settle. *)
HandshakeReply ==
  /\ at = "receive"
  /\ asked
  /\ phase = "Handshaking"
  /\ phase' = "Waiting"
  /\ settle' = "settling"
  /\ UNCHANGED <<at, opening, asked, enabled, connects, ages, camera, watchdog,
                 shell, format, polled, resends>>

(* A video packet, which may complete an access unit. *)
VideoPacket(completes) ==
  /\ at = "receive"
  /\ asked
  /\ phase' = IF phase = "Waiting" THEN "Live" ELSE phase
  /\ sawPicture' = TRUE
  /\ ages' = [ages EXCEPT !.video = 0, !.unit = IF completes THEN 0 ELSE @]
  /\ UNCHANGED <<at, opening, asked, enabled, settle, connects, recording,
                 watchdog, shell, format, polled, resends>>

(* Telemetry, in whatever phase; it also says whether the body records. *)
Status(records) ==
  /\ at = "receive"
  /\ asked
  /\ records => Records
  /\ ages' = [ages EXCEPT !.status = 0]
  /\ recording' = records
  /\ UNCHANGED <<at, link, sawPicture, watchdog, shell, format, polled, resends>>

(* The 150 ms after the subscriptions are over; a slow drain may last longer. *)
Settled ==
  /\ settle = "settling"
  /\ at = "between" \/ (at = "receive" /\ ~PromptPolls)
  /\ settle' = "settled"
  /\ UNCHANGED <<at, phase, opening, asked, enabled, connects, ages, camera,
                 watchdog, shell, format, polled, resends>>

EndReceive ==
  /\ at = "receive"
  /\ at' = "tick"
  /\ UNCHANGED <<link, ages, camera, watchdog, shell, format, polled, resends>>

-----------------------------------------------------------------------------
(***************************************************************************)
(* Sequencer::tick and the rest of poll.  Handshaking asks, or gives up;   *)
(* an open session sends the enable of the connect path, late if the       *)
(* subscriptions have not settled, and the operator's commands.            *)
(***************************************************************************)
Handshake ==
  /\ at = "tick"
  /\ phase = "Handshaking"
  /\ IF opening >= HandshakeDeadline
     THEN phase' = "Unreachable" /\ at' = "lost" /\ UNCHANGED asked
     ELSE asked' = TRUE /\ at' = "recover" /\ UNCHANGED phase
  /\ UNCHANGED <<opening, enabled, settle, connects, ages, camera, watchdog,
                 shell, format, polled, resends>>

(* Mutant: the settle window does not hold the sequencer's enable back. *)
EnablesTwice ==
  (IF ~enabled THEN 1 ELSE 0) + (IF settle = "settled" THEN 1 ELSE 0)

(* Mutant: the settle window drops the enable instead of delaying it. *)
EnableIsDropped == IF ~enabled /\ settle # "settling" THEN 1 ELSE 0

(* How many enables this tick sends: the sequencer's, unless the settle     *)
(* window holds it back, and the one that was held back.                    *)
ConnectEnables ==
  (IF ~enabled /\ settle # "settling" THEN 1 ELSE 0) + (IF settle = "settled" THEN 1 ELSE 0)

Serve ==
  /\ at = "tick"
  /\ SessionOpen
  /\ at' = "recover"
  /\ enabled' = TRUE
  /\ connects' = connects + ConnectEnables
  /\ settle' = IF settle = "settled" THEN "none" ELSE settle
  /\ commanded' = FALSE
  /\ ages' = [ages EXCEPT !.control = IF commanded THEN 0 ELSE @,
                          !.enable = IF ConnectEnables > 0 THEN 0 ELSE @]
  /\ UNCHANGED <<phase, opening, asked, camera, watchdog, blocked, format,
                 polled, resends>>

-----------------------------------------------------------------------------
(***************************************************************************)
(* recover: the format round-trip first, then the watchdog.                *)
(***************************************************************************)
MayPoke == IsPocket3 /\ ~sawPicture /\ ~recording

(* The round-trip has a step to take, or to wait for, before the watchdog. *)
KickDue == poke = "never" /\ AtLeast(ages.enable, StallThreshold)

(* The body's formats are known, or were waited for long enough. *)
KickSure == ages.enable >= GOPGrace

PokeHolds == MayPoke /\ (poke = "kicked" \/ (poke = "restored" /\ pokeAge < PokeSettle))

EndRound ==
  /\ at' = "between"
  /\ polled' = TRUE

Wait ==
  /\ at = "recover"
  /\ PokeHolds
  /\ poke = "kicked" => pokeAge < PokeSettle
  /\ EndRound
  /\ UNCHANGED <<link, ages, camera, watchdog, shell, format, resends>>

Kick ==
  /\ at = "recover"
  /\ MayPoke
  /\ KickDue
  /\ poke' = "kicked"
  /\ pokeAge' = 0
  /\ EndRound
  /\ UNCHANGED <<link, ages, camera, watchdog, shell, resends>>

(* Mutant: the format is given back only once the picture is live. *)
RestoreWhenLive ==
  /\ at = "recover"
  /\ MayPoke
  /\ poke = "kicked"
  /\ pokeAge >= PokeSettle
  /\ phase = "Live"
  /\ poke' = "restored"
  /\ pokeAge' = 0
  /\ EndRound
  /\ UNCHANGED <<link, ages, camera, watchdog, shell, resends>>

Restore ==
  /\ at = "recover"
  /\ MayPoke
  /\ poke = "kicked"
  /\ pokeAge >= PokeSettle
  /\ poke' = "restored"
  /\ pokeAge' = 0
  /\ EndRound
  /\ UNCHANGED <<link, ages, camera, watchdog, shell, resends>>

(* The enable that ends the round-trip; the watchdog then ticks as usual. *)
PokeEnable ==
  /\ at = "recover"
  /\ MayPoke
  /\ poke = "restored"
  /\ pokeAge >= PokeSettle
  /\ poke' = "done"
  /\ ages' = [ages EXCEPT !.enable = 0]
  /\ UNCHANGED <<at, link, camera, watchdog, shell, pokeAge, polled, resends>>

(* The round-trip has nothing to do in this round. *)
NoPoke == ~MayPoke \/ poke = "done" \/ (poke = "never" /\ ~(KickDue /\ KickSure))

(* Not before the first enable: the connect path is still about to send it. *)
NotYet ==
  /\ at = "recover"
  /\ NoPoke
  /\ ~Seen(ages.enable)
  /\ EndRound
  /\ UNCHANGED <<link, ages, camera, watchdog, shell, format, resends>>

Rung == Decide(watchdog, Snapshot)

(* Mutant: the watchdog does not wait for the first enable. *)
WatchAtOnce(rungs) ==
  /\ at = "recover"
  /\ NoPoke
  /\ Rung \in rungs
  /\ watchdog' = AfterTick(watchdog, Snapshot)
  /\ EndRound

Watch(rungs) ==
  /\ at = "recover"
  /\ NoPoke
  /\ Seen(ages.enable)
  /\ Rung \in rungs
  /\ watchdog' = AfterTick(watchdog, Snapshot)
  /\ EndRound

NoRepair ==
  /\ Watch({"idle", "hold", "cooldown"})
  /\ resends' = IF Rung = "idle" THEN 0 ELSE resends
  /\ UNCHANGED <<link, ages, camera, shell, format>>

ResendEnable ==
  /\ Watch({"resendEnable"})
  /\ ages' = [ages EXCEPT !.enable = 0]
  /\ resends' = resends + 1
  /\ UNCHANGED <<link, camera, shell, format>>

(* reopen_datalink, for a rejoin as well: a new socket and a new sequencer. *)
ReopenDatalink ==
  /\ Watch({"reopenDatalink", "fullRejoin"})
  /\ phase' = "Handshaking"
  /\ opening' = 0
  /\ asked' = FALSE
  /\ enabled' = FALSE
  /\ settle' = "none"
  /\ connects' = 0
  /\ resends' = 0
  /\ commanded' = FALSE
  /\ ages' = [ages EXCEPT !.video = Never, !.unit = Never, !.decoded = Never,
                          !.rebuild = 0]
  /\ UNCHANGED <<camera, blocked, format>>

-----------------------------------------------------------------------------
(* Time passes between two rounds. *)
Elapse ==
  /\ at \in {"between", "lost"}
  /\ PromptPolls => polled \/ at = "lost"
  /\ polled' = FALSE
  /\ opening' = IF phase = "Handshaking" THEN Capped(opening + 1, HandshakeDeadline)
                ELSE opening
  /\ settle' = IF settle = "settling" THEN "settled" ELSE settle
  /\ ages' = [c \in Clocks |->
                IF Seen(ages[c]) THEN Capped(ages[c] + 1, AgeCap[c]) ELSE Never]
  /\ pokeAge' = IF poke \in {"kicked", "restored"} THEN Capped(pokeAge + 1, PokeSettle) ELSE pokeAge
  /\ watchdog' = IF watchdog.stage = "idle" THEN watchdog
                 ELSE [watchdog EXCEPT !.since = Capped(@ + 1, CooldownDuration)]
  /\ UNCHANGED <<at, phase, asked, enabled, connects, camera, shell, poke, resends>>

Next ==
  \/ Command \/ Presented \/ (\E away \in BOOLEAN : SetRepairBlocked(away)) \/ StartPoll
  \/ HandshakeReply \/ (\E completes \in BOOLEAN : VideoPacket(completes))
  \/ (\E records \in BOOLEAN : Status(records)) \/ Settled \/ EndReceive
  \/ Handshake \/ Serve
  \/ Wait \/ Kick \/ Restore \/ PokeEnable \/ NotYet \/ NoRepair
  \/ ResendEnable \/ ReopenDatalink
  \/ Elapse

Spec == Init /\ [][Next]_vars

-----------------------------------------------------------------------------
(***************************************************************************)
(* Properties.                                                             *)
(***************************************************************************)

(* Every variable has its type. *)
TypeOK ==
  /\ at \in {"between", "receive", "tick", "recover", "lost"}
  /\ phase \in {"Handshaking", "Waiting", "Live", "Unreachable"}
  /\ opening \in 0 .. HandshakeDeadline
  /\ asked \in BOOLEAN /\ enabled \in BOOLEAN /\ sawPicture \in BOOLEAN
  /\ blocked \in BOOLEAN /\ commanded \in BOOLEAN
  /\ recording \in BOOLEAN /\ polled \in BOOLEAN
  /\ settle \in {"none", "settling", "settled"}
  /\ ages \in Ages
  /\ watchdog \in Watchdog
  /\ poke \in {"never", "kicked", "restored", "done"}
  /\ pokeAge \in 0 .. PokeSettle
  /\ connects \in 0 .. 2
  /\ resends \in Nat

(***************************************************************************)
(* The connect path enables live view once on a datalink.  The sequencer's *)
(* flag and the settle window's deferral are two places that send it, and  *)
(* exactly one of them must: a second 0x09/0xa8 cuts the GOP of a stream   *)
(* that has just started.  It takes a poll loop that is not held up for    *)
(* the whole settle window inside one drain.                               *)
(***************************************************************************)
ConnectEnablesOnce == connects <= 1

(***************************************************************************)
(* However the ladder is reset on the way, by a handshake, a picture or a  *)
(* blocked repair, the datalink is not torn down again before the last     *)
(* rebuild had EscalateAfter to bring the picture back.                    *)
(***************************************************************************)
RebuildsAreSpaced ==
  [][ReopenDatalink => ~Younger(ages.rebuild, EscalateAfter)]_vars

(***************************************************************************)
(* The watchdog spends two enables on a stall, and then takes the next     *)
(* rung.  It takes an operator who stays: a first picture that comes and   *)
(* goes while repairs are blocked does not start the ladder over, and the  *)
(* enable spent before it is then one more.                                *)
(***************************************************************************)
TwoResendsPerStall == ~Leaves => resends <= 2

(***************************************************************************)
(* On the desktop the ladder never rests on a rung above the enables: the  *)
(* socket it replaced has to handshake, and the tick in between starts the *)
(* ladder over.  So fullRejoin is reached only through RebuildBackoff, and *)
(* the cooldown never.                                                     *)
(***************************************************************************)
LadderStartsOver ==
  SessionOpen /\ at = "between" => watchdog.stage \in {"idle", "resendEnable"}

(***************************************************************************)
(* The watchdog leaves a fresh session alone until the connect path's own  *)
(* enable has settled and left: what the comment in recover promises of    *)
(* the wait for last_live_enable.  It holds up to the first rebuild, which *)
(* opens a datalink and leaves last_live_enable as it was.                 *)
(***************************************************************************)
FreshSessionIsLeftAlone ==
  [][~Seen(ages.rebuild) /\ ResendEnable => settle = "none"]_vars

-----------------------------------------------------------------------------
(***************************************************************************)
(* Liveness, when the worker keeps polling and time keeps passing.         *)
(***************************************************************************)
Worker ==
  \/ StartPoll \/ EndReceive \/ Handshake \/ Serve
  \/ Wait \/ Kick \/ Restore \/ PokeEnable \/ NotYet \/ NoRepair
  \/ ResendEnable \/ ReopenDatalink

Fairness == WF_vars(Worker) /\ SF_vars(Elapse)

FairSpec == Spec /\ Fairness

(* Every datalink that opens and stays open gets its enable. *)
EveryDatalinkIsEnabled ==
  (SessionOpen /\ connects = 0) ~> (connects > 0 \/ ~SessionOpen)

(* No feed stays stalled on one datalink for ever while repairs are allowed. *)
Stalled == SessionOpen /\ ~FeedAlive(Snapshot)

StallIsRepaired == ~<>[](Stalled /\ ~blocked)

(* While it is dark and the body does not record, its own format comes back. *)
FormatComesBackInTheDark ==
  (poke = "kicked") ~> (poke = "restored" \/ sawPicture \/ recording \/ at = "lost")

(* A live picture does not stay in the format the Pocket 3 was kicked into. *)
FormatComesBack ==
  (poke = "kicked" /\ phase = "Live") ~> (poke = "restored" \/ phase # "Live")
=============================================================================
