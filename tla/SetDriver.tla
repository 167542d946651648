------------------------------ MODULE SetDriver ------------------------------
(***************************************************************************)
(* The desktop's SetDriver (mailbox.rs) for ONE opcode: it keeps the       *)
(* commands the core's mailbox decides about, and the mailbox's clock.     *)
(* Every operator takes and returns the record of one opcode:              *)
(*                                                                         *)
(*   box            the core's row for the opcode                          *)
(*   inflight, age, retransmitted   the entry of the inflight map          *)
(*   pending        the entry of the pending map                           *)
(*   late           settled without an answer, still open to a late one    *)
(*   due            launched by a reply, to go out on the next tick        *)
(*   outcomes       what settled since the session last took the outcomes  *)
(*                                                                         *)
(* A command is an id (the order the operator fired it in) and its kind:   *)
(* "slider" ticks are not urgent, and neither sliders nor the shutter      *)
(* (ShootPhoto) are retransmitted.                                         *)
(***************************************************************************)
EXTENDS CameraSetMailbox, Sequences

CONSTANTS
  RetransmitAfter,  \* 300 ms of silence
  SettleAfter       \* 2 s of silence

ASSUME DriverAssumption ==
  /\ RetransmitAfter \in Nat
  /\ SettleAfter \in Nat
  /\ 0 < RetransmitAfter
  /\ RetransmitAfter < SettleAfter

Kinds == {"slider", "tap", "shutter"}

Command == [id : Nat \ {0}, kind : Kinds]

NoCommand == [id |-> 0, kind |-> "slider"]

IsUrgent(kind) == kind # "slider"

Retransmits(kind) == kind = "tap"

Verdicts == {"acked", "ackedLate", "unanswered", "superseded"}

Outcome == [id : Nat \ {0}, verdict : Verdicts]

Driver == [box           : Box,
           inflight      : Command \cup {NoCommand},
           age           : 0 .. SettleAfter,
           retransmitted : BOOLEAN,
           pending       : Command \cup {NoCommand},
           late          : Command \cup {NoCommand},
           due           : Seq(Command),
           outcomes      : Seq(Outcome)]

FreshDriver == [box           |-> FreshBox,
                inflight      |-> NoCommand,
                age           |-> 0,
                retransmitted |-> FALSE,
                pending       |-> NoCommand,
                late          |-> NoCommand,
                due           |-> << >>,
                outcomes      |-> << >>]

(* Mutant: a verdict is reported even when there was no command. *)
TellAlways(d, command, verdict) ==
  [d EXCEPT !.outcomes = Append(@, [id |-> command.id, verdict |-> verdict])]

(* Reports the verdict on a command, if there is a command. *)
Tell(d, command, verdict) ==
  IF command = NoCommand
  THEN d
  ELSE [d EXCEPT !.outcomes = Append(@, [id |-> command.id, verdict |-> verdict])]

(* launch: whatever was in flight is superseded, and the command takes its place. *)
Launch(d, command, hold) ==
  [Tell(d, d.inflight, "superseded") EXCEPT
     !.box = BeginLaunch(@, hold),
     !.inflight = command,
     !.age = 0,
     !.retransmitted = FALSE]

(* Mutant: the first held command stays, instead of the last. *)
FirstHeldStays(d, command) ==
  [d EXCEPT !.box = Coalesce(@, IsUrgent(command.kind)),
            !.pending = IF @ = NoCommand THEN command ELSE @]

(* fire: hold the command as the pending one, or launch it at once. *)
FireHeld(d, command) ==
  [d EXCEPT !.box = Coalesce(@, IsUrgent(command.kind)),
            !.pending = command]

(* Mutant: the command that awaits a late answer is not abandoned. *)
LateIsKept(d, command, hold) ==
  Launch([d EXCEPT !.box = OfferLaunched(@), !.pending = NoCommand], command, hold)

(* Mutant: the held command is not forgotten when a newer one is launched. *)
HeldIsKept(d, command, hold) ==
  Launch([Tell(d, d.late, "superseded") EXCEPT !.late = NoCommand], command, hold)

FireLaunched(d, command, hold) ==
  Launch([Tell(d, d.late, "superseded") EXCEPT
            !.box = OfferLaunched(@),
            !.late = NoCommand,
            !.pending = NoCommand],
         command, hold)

PendingGoes(d) == PendingLaunch(d.box) = "immediate" /\ d.pending # NoCommand

(* Mutant: a command that must wait for the hold is dropped. *)
HoldDrops(d, hold) ==
  IF PendingGoes(d)
  THEN Launch([d EXCEPT !.box = OfferLaunched(@), !.pending = NoCommand],
              d.pending, hold)
  ELSE [d EXCEPT !.box = OfferLaunched(@), !.pending = NoCommand]

(***************************************************************************)
(* launch_pending: the pending command is launched if the mailbox says it  *)
(* may go now, kept if it must wait for the hold, and forgotten if the     *)
(* mailbox holds none.                                                     *)
(***************************************************************************)
AfterPending(d, hold) ==
  CASE PendingGoes(d) ->
         Launch([d EXCEPT !.box = OfferLaunched(@), !.pending = NoCommand],
                d.pending, hold)
    [] PendingLaunch(d.box) = "afterHold" -> d
    [] OTHER -> [d EXCEPT !.box = OfferLaunched(@), !.pending = NoCommand]

Launched(d) == IF PendingGoes(d) THEN << d.pending >> ELSE << >>

(***************************************************************************)
(* reply: an accepted reply closes the command in flight, else the late    *)
(* one, and lets the pending command go with the next tick.                *)
(***************************************************************************)
Reply(d, seq, hold) ==
  IF ~Accepts(d.box, seq)
  THEN d
  ELSE LET closed == IF d.inflight # NoCommand
                     THEN [Tell(d, d.inflight, "acked") EXCEPT !.inflight = NoCommand,
                                                               !.age = 0,
                                                               !.retransmitted = FALSE]
                     ELSE [Tell(d, d.late, "ackedLate") EXCEPT !.late = NoCommand]
           open   == [closed EXCEPT !.box = CloseOpen(@)]
       IN  [AfterPending(open, hold) EXCEPT !.due = @ \o Launched(open)]

Settles(d) == d.inflight # NoCommand /\ d.age >= SettleAfter

RetransmitsNow(d) ==
  /\ d.inflight # NoCommand
  /\ ~Settles(d)
  /\ Retransmits(d.inflight.kind)
  /\ ~d.retransmitted
  /\ d.age >= RetransmitAfter

(* Mutant: a SET with a newer one waiting is also reported as unanswered. *)
SettleAsUnanswered(d) ==
  [Tell(d, d.inflight, "unanswered") EXCEPT !.box = AfterTimeout(@),
                                            !.inflight = NoCommand,
                                            !.age = 0,
                                            !.retransmitted = FALSE,
                                            !.late = d.inflight]

(* Mutant: a SET that makes way to a newer one at the timeout goes without a word. *)
SettleSilently(d) ==
  LET idle == [d EXCEPT !.box = AfterTimeout(@),
                        !.inflight = NoCommand,
                        !.age = 0,
                        !.retransmitted = FALSE]
  IN  IF TimeoutDecision(d.box) = "waitLate"
      THEN [Tell(idle, d.inflight, "unanswered") EXCEPT !.late = d.inflight]
      ELSE idle

Settle(d) ==
  LET idle == [d EXCEPT !.box = AfterTimeout(@),
                        !.inflight = NoCommand,
                        !.age = 0,
                        !.retransmitted = FALSE]
  IN  CASE TimeoutDecision(d.box) = "waitLate" ->
             [Tell(idle, d.inflight, "unanswered") EXCEPT !.late = d.inflight]
        [] TimeoutDecision(d.box) = "launchPending" ->
             Tell(idle, d.inflight, "superseded")
        [] OTHER -> idle

(* Mutant: the retransmit is not remembered. *)
RetransmitForgotten(d) == IF Settles(d) THEN Settle(d) ELSE d

(* The state after the loop over the inflight map, and what it sends. *)
SettledOrRetransmitted(d) ==
  CASE Settles(d)        -> Settle(d)
    [] RetransmitsNow(d) -> [d EXCEPT !.retransmitted = TRUE]
    [] OTHER             -> d

Retransmission(d) == IF RetransmitsNow(d) THEN << d.inflight >> ELSE << >>

(* The pending loop skips an opcode with a SET in flight, unless it pipelines. *)
Blocked(d, pipelines) == d.inflight # NoCommand /\ ~pipelines

(***************************************************************************)
(* tick, for this opcode: settle what was silent too long, or retransmit   *)
(* it once, and then let the pending command go if nothing blocks it.      *)
(***************************************************************************)
Tick(d, pipelines, hold) ==
  LET next == [SettledOrRetransmitted(d) EXCEPT !.due = << >>]
  IN  IF Blocked(next, pipelines) THEN next ELSE AfterPending(next, hold)

TickSends(d, pipelines) ==
  LET next == SettledOrRetransmitted(d)
  IN  d.due \o Retransmission(d)
        \o (IF Blocked(next, pipelines) THEN << >> ELSE Launched(next))

(* A unit of time passes. *)
Age(d) ==
  [d EXCEPT !.box = AgeBox(@),
            !.age = IF d.inflight # NoCommand /\ @ < SettleAfter THEN @ + 1 ELSE @]
-----------------------------------------------------------------------------
(* What the driver still has in its hands. *)
Tracked(d) == {d.pending.id, d.inflight.id, d.late.id}

(* The outcomes of this opcode that are about this SET. *)
About(d, id) == {i \in DOMAIN d.outcomes : d.outcomes[i].id = id}

LastVerdict(d, id) ==
  d.outcomes[CHOOSE i \in About(d, id) : \A j \in About(d, id) : j <= i].verdict

(***************************************************************************)
(* The Rust driver keeps the commands and the Swift mailbox keeps the      *)
(* decisions, each in maps of its own that no type ties together.  They    *)
(* must agree: a generation is open exactly while a command is in flight,  *)
(* it awaits a late answer exactly while a command is kept as late, and    *)
(* one side has something pending exactly when the other has.  A driver    *)
(* that got out of step would ignore answers, or drop a held SET.          *)
(***************************************************************************)
InStep(d) ==
  /\ (d.box.open = "waiting") <=> (d.inflight # NoCommand)
  /\ (d.box.open = "late") <=> (d.late # NoCommand)
  /\ (d.box.pending # "none") <=> (d.pending # NoCommand)
  /\ d.box.open = "late" => d.box.pending = "none"
=============================================================================
