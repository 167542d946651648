--------------------------- MODULE SetDriverProofs ---------------------------
(***************************************************************************)
(* What every operation of SetDriver keeps, for all values of the          *)
(* constants and for commands drawn from any set C: the driver's type, the *)
(* agreement between driver and mailbox (InStep), and that no command is   *)
(* dropped without a verdict (Follows).                                    *)
(***************************************************************************)
EXTENDS SetDriver, SequenceTheorems, TLAPS

(* A driver all of whose commands are in C, or were when they settled. *)
OutcomeOf(C) == [id : {command.id : command \in C}, verdict : Verdicts]

DriverOf(C) == [box           : Box,
                inflight      : C \cup {NoCommand},
                age           : 0 .. SettleAfter,
                retransmitted : BOOLEAN,
                pending       : C \cup {NoCommand},
                late          : C \cup {NoCommand},
                due           : Seq(C),
                outcomes      : Seq(OutcomeOf(C))]

Sound(C, d) == d \in DriverOf(C) /\ InStep(d)

(* The driver holds the command, or has an outcome to tell about it. *)
Known(d, id) == id \in Tracked(d) \/ About(d, id) # {}

Follows(d, e) == \A id \in Nat \ {0} : Known(d, id) => Known(e, id)

(* Outcomes are only added. *)
Louder(d, e) == \A id \in Nat : About(d, id) # {} => About(e, id) # {}

-----------------------------------------------------------------------------
(* The mailbox's operators return rows of the mailbox. *)
LEMMA TrimType ==
  ASSUME NEW seqs \in SUBSET SeqNo
  PROVE  Trim(seqs) \in SUBSET SeqNo
BY DEF Trim

LEMMA SupersedeOpenType ==
  ASSUME NEW b \in Box
  PROVE  /\ SupersedeOpen(b) \in Box
         /\ SupersedeOpen(b).open = "none"
         /\ SupersedeOpen(b).pending = b.pending
<1>1. b.superseded \cup b.seqs \in SUBSET SeqNo
  BY DEF Box
<1>2. Trim(b.superseded \cup b.seqs) \in SUBSET SeqNo
  BY <1>1, TrimType
<1> QED
  BY <1>2 DEF SupersedeOpen, Box

LEMMA BeginLaunchType ==
  ASSUME NEW b \in Box, NEW hold \in Nat
  PROVE  /\ BeginLaunch(b, hold) \in Box
         /\ BeginLaunch(b, hold).open = "waiting"
         /\ BeginLaunch(b, hold).pending = "none"
BY SupersedeOpenType DEF BeginLaunch, Box

LEMMA OfferType ==
  ASSUME NEW b \in Box, NEW urgent \in BOOLEAN
  PROVE  /\ Coalesce(b, urgent) \in Box
         /\ Coalesce(b, urgent).open = b.open
         /\ Coalesce(b, urgent).pending # "none"
         /\ OfferLaunched(b) \in Box
         /\ OfferLaunched(b).open = b.open
         /\ OfferLaunched(b).pending = "none"
BY DEF Coalesce, OfferLaunched, Box

LEMMA CloseOpenType ==
  ASSUME NEW b \in Box
  PROVE  /\ CloseOpen(b) \in Box
         /\ CloseOpen(b).open = "none"
         /\ CloseOpen(b).pending = b.pending
BY DEF CloseOpen, Box

LEMMA NoteTransmitType ==
  ASSUME NEW b \in Box, NEW seq \in SeqNo
  PROVE  /\ NoteTransmit(b, seq) \in Box
         /\ NoteTransmit(b, seq).open = b.open
         /\ NoteTransmit(b, seq).pending = b.pending
BY DEF NoteTransmit, Box

LEMMA AgeBoxType ==
  ASSUME NEW b \in Box
  PROVE  /\ AgeBox(b) \in Box
         /\ AgeBox(b).open = b.open
         /\ AgeBox(b).pending = b.pending
BY DEF AgeBox, Box

(* A timeout closes the generation, or leaves it open to a late answer only *)
(* when nothing waits for its place.                                         *)
LEMMA AfterTimeoutType ==
  ASSUME NEW b \in Box, b.open = "waiting"
  PROVE  /\ AfterTimeout(b) \in Box
         /\ AfterTimeout(b).pending = b.pending
         /\ b.pending = "none" => /\ TimeoutDecision(b) = "waitLate"
                                  /\ AfterTimeout(b).open = "late"
         /\ b.pending # "none" => /\ TimeoutDecision(b) = "launchPending"
                                  /\ AfterTimeout(b).open = "none"
<1>1. CASE b.pending = "none"
  BY <1>1 DEF AfterTimeout, TimeoutDecision, Box
<1>2. CASE b.pending # "none"
  BY <1>2, SupersedeOpenType DEF AfterTimeout, TimeoutDecision
<1> QED
  BY <1>1, <1>2

-----------------------------------------------------------------------------
(* The driver's operators. *)
LEMMA CommandsHaveIds ==
  ASSUME NEW C \in SUBSET Command
  PROVE  /\ NoCommand \notin C
         /\ \A command \in C : command.id \in Nat \ {0} /\ command # NoCommand
         /\ NoCommand.id = 0
BY DEF Command, NoCommand

(* Tell adds an outcome about a command that exists, and changes nothing else. *)
LEMMA TellSays ==
  ASSUME NEW C \in SUBSET Command, NEW d \in DriverOf(C),
         NEW command \in C \cup {NoCommand}, NEW verdict \in Verdicts
  PROVE  /\ Tell(d, command, verdict) \in DriverOf(C)
         /\ Louder(d, Tell(d, command, verdict))
         /\ command # NoCommand => About(Tell(d, command, verdict), command.id) # {}
         /\ Tell(d, command, verdict)
              = [d EXCEPT !.outcomes = Tell(d, command, verdict).outcomes]
<1>1. CASE command = NoCommand
  <2>1. Tell(d, command, verdict) = d
    BY <1>1 DEF Tell
  <2>2. d = [d EXCEPT !.outcomes = d.outcomes]
    BY DEF DriverOf
  <2> QED
    BY <1>1, <2>1, <2>2 DEF Louder
<1>2. CASE command # NoCommand
  <2> DEFINE outcome == [id |-> command.id, verdict |-> verdict]
             e       == Tell(d, command, verdict)
  <2>1. e = [d EXCEPT !.outcomes = Append(d.outcomes, outcome)]
    BY <1>2 DEF Tell
  <2>2. d.outcomes \in Seq(OutcomeOf(C)) /\ outcome \in OutcomeOf(C)
    BY <1>2 DEF DriverOf, OutcomeOf
  <2>3. /\ e.outcomes \in Seq(OutcomeOf(C))
        /\ Len(e.outcomes) = Len(d.outcomes) + 1
        /\ \A i \in 1 .. Len(d.outcomes) : e.outcomes[i] = d.outcomes[i]
        /\ e.outcomes[Len(d.outcomes) + 1] = outcome
    <3> HIDE DEF outcome
    <3>1. e.outcomes = Append(d.outcomes, outcome)
      BY <2>1 DEF DriverOf
    <3> HIDE DEF e
    <3> QED
      BY <2>2, <3>1
  <2>4. /\ DOMAIN d.outcomes = 1 .. Len(d.outcomes)
        /\ DOMAIN e.outcomes = 1 .. Len(d.outcomes) + 1
        /\ Len(d.outcomes) \in Nat
    BY <2>2, <2>3
  <2>5. e \in DriverOf(C)
    <3> HIDE DEF outcome
    <3>1. Append(d.outcomes, outcome) \in Seq(OutcomeOf(C))
      BY <2>2
    <3> QED
      BY <2>1, <3>1 DEF DriverOf
  <2>6. Louder(d, e)
    <3> SUFFICES ASSUME NEW id \in Nat, NEW i \in About(d, id)
                 PROVE  i \in About(e, id)
      BY DEF Louder
    <3> HIDE DEF e
    <3> QED
      BY <2>3, <2>4 DEF About
  <2>7. Len(d.outcomes) + 1 \in About(e, command.id)
    <3> HIDE DEF e
    <3> QED
      BY <2>3, <2>4 DEF About
  <2>8. e = [d EXCEPT !.outcomes = e.outcomes]
    BY <2>1 DEF DriverOf
  <2> QED
    BY <2>5, <2>6, <2>7, <2>8
<1> QED
  BY <1>1, <1>2

(* Launch puts the command in flight, and tells what it replaces. *)
LEMMA LaunchSays ==
  ASSUME NEW C \in SUBSET Command, NEW d \in DriverOf(C),
         NEW command \in C, NEW hold \in Nat
  PROVE  LET e == Launch(d, command, hold)
         IN  /\ e \in DriverOf(C)
             /\ e.box.open = "waiting"
             /\ e.box.pending = "none"
             /\ e.inflight = command
             /\ e.pending = d.pending
             /\ e.late = d.late
             /\ e.due = d.due
             /\ Louder(d, e)
             /\ d.inflight # NoCommand => About(e, d.inflight.id) # {}
<1> DEFINE t == Tell(d, d.inflight, "superseded")
           e == Launch(d, command, hold)
<1>1. d.inflight \in C \cup {NoCommand} /\ "superseded" \in Verdicts
  BY DEF DriverOf, Verdicts
<1>2. /\ t \in DriverOf(C)
      /\ Louder(d, t)
      /\ d.inflight # NoCommand => About(t, d.inflight.id) # {}
      /\ t = [d EXCEPT !.outcomes = t.outcomes]
  BY <1>1, TellSays
<1>3. e = [t EXCEPT !.box = BeginLaunch(t.box, hold),
                    !.inflight = command,
                    !.age = 0,
                    !.retransmitted = FALSE]
  BY DEF Launch
<1> HIDE DEF e
<1>4. t.pending = d.pending /\ t.late = d.late /\ t.due = d.due /\ t.box = d.box
  <2> HIDE DEF t
  <2> QED
    BY <1>2 DEF DriverOf
<1> HIDE DEF t
<1>5. /\ BeginLaunch(t.box, hold) \in Box
      /\ BeginLaunch(t.box, hold).open = "waiting"
      /\ BeginLaunch(t.box, hold).pending = "none"
  BY <1>2, BeginLaunchType DEF DriverOf
<1>6. 0 \in 0 .. SettleAfter
  BY DriverAssumption
<1>7. e \in DriverOf(C)
  BY <1>2, <1>3, <1>5, <1>6 DEF DriverOf
<1>8. /\ e.box = BeginLaunch(t.box, hold) /\ e.inflight = command /\ e.pending = t.pending
      /\ e.late = t.late /\ e.due = t.due /\ e.outcomes = t.outcomes
  BY <1>2, <1>3 DEF DriverOf
<1>9. \A id \in Nat : About(e, id) = About(t, id)
  BY <1>8 DEF About
<1>10. d.inflight # NoCommand => d.inflight.id \in Nat
  BY <1>1, CommandsHaveIds
<1> QED
  BY <1>2, <1>4, <1>5, <1>7, <1>8, <1>9, <1>10 DEF Louder, e

LEMMA FollowsRule ==
  ASSUME NEW d, NEW e,
         Louder(d, e),
         d.pending.id = 0 \/ Known(e, d.pending.id),
         d.inflight.id = 0 \/ Known(e, d.inflight.id),
         d.late.id = 0 \/ Known(e, d.late.id)
  PROVE  Follows(d, e)
BY DEF Follows, Known, Louder, Tracked

LEMMA FollowsChain ==
  ASSUME NEW d, NEW e, NEW f, Follows(d, e), Follows(e, f)
  PROVE  Follows(d, f)
BY DEF Follows

(* launch_pending: the pending command goes, waits, or was not there. *)
LEMMA AfterPendingKeeps ==
  ASSUME NEW C \in SUBSET Command, NEW d, Sound(C, d), NEW hold \in Nat
  PROVE  /\ Sound(C, AfterPending(d, hold))
         /\ Follows(d, AfterPending(d, hold))
         /\ AfterPending(d, hold).due = d.due
         /\ Launched(d) \in Seq(C)
<1> DEFINE freed == [d EXCEPT !.box = OfferLaunched(d.box), !.pending = NoCommand]
           e     == AfterPending(d, hold)
<1>1. /\ d \in DriverOf(C) /\ InStep(d) /\ d.box \in Box
      /\ {d.pending, d.inflight, d.late} \subseteq C \cup {NoCommand}
  BY DEF Sound, DriverOf
<1>2. OfferLaunched(d.box) \in Box /\ OfferLaunched(d.box).open = d.box.open
  BY <1>1, OfferType
<1>3. /\ freed \in DriverOf(C) /\ freed.pending = NoCommand
      /\ freed.inflight = d.inflight /\ freed.late = d.late /\ freed.due = d.due
      /\ freed.outcomes = d.outcomes
  BY <1>1, <1>2 DEF DriverOf
<1>4. Louder(d, freed)
  BY <1>3 DEF Louder, About
<1>5. CASE PendingGoes(d)
  <2>1. d.pending \in C /\ d.box.pending # "none"
    BY <1>1, <1>5, CommandsHaveIds DEF PendingGoes, InStep
  <2>2. d.late = NoCommand
    BY <1>1, <2>1 DEF InStep
  <2>3. e = Launch(freed, d.pending, hold)
    BY <1>5 DEF AfterPending, PendingGoes
  <2>4. /\ e \in DriverOf(C) /\ e.box.open = "waiting" /\ e.box.pending = "none"
        /\ e.inflight = d.pending /\ e.pending = NoCommand /\ e.late = NoCommand
        /\ e.due = d.due /\ Louder(freed, e)
        /\ d.inflight # NoCommand => About(e, d.inflight.id) # {}
    <3> HIDE DEF freed, e
    <3>1. /\ e \in DriverOf(C) /\ e.box.open = "waiting" /\ e.box.pending = "none"
          /\ e.inflight = d.pending /\ e.pending = freed.pending /\ e.late = freed.late
          /\ e.due = freed.due /\ Louder(freed, e)
          /\ freed.inflight # NoCommand => About(e, freed.inflight.id) # {}
      BY <1>3, <2>1, <2>3, LaunchSays
    <3> QED
      BY <1>3, <2>2, <3>1
  <2> HIDE DEF freed, e
  <2>5. InStep(e)
    BY <2>1, <2>4, CommandsHaveIds DEF InStep
  <2>6. Follows(d, e)
    BY <1>4, <2>2, <2>4, CommandsHaveIds, FollowsRule DEF Known, Tracked, Louder
  <2>7. Launched(d) \in Seq(C)
    BY <1>5, <2>1 DEF Launched
  <2> QED
    BY <2>4, <2>5, <2>6, <2>7 DEF Sound, e
<1>6. CASE ~PendingGoes(d) /\ PendingLaunch(d.box) = "afterHold"
  <2>1. e = d
    BY <1>6 DEF AfterPending
  <2> QED
    BY <1>6, <2>1 DEF Follows, Launched
<1>7. CASE ~PendingGoes(d) /\ PendingLaunch(d.box) # "afterHold"
  <2>1. e = freed
    BY <1>7 DEF AfterPending
  <2>2. d.pending = NoCommand
    <3>1. PendingLaunch(d.box) \in {"none", "immediate"}
      BY <1>7 DEF PendingLaunch
    <3>2. d.box.pending = "none" \/ d.pending = NoCommand
      BY <1>7, <3>1 DEF PendingGoes, PendingLaunch
    <3> QED
      BY <1>1, <3>2 DEF InStep
  <2>3. d.box.pending = "none" /\ OfferLaunched(d.box).pending = "none"
    BY <1>1, <2>2, OfferType DEF InStep
  <2>4. freed.box = OfferLaunched(d.box)
    BY <1>1 DEF DriverOf
  <2>5. InStep(freed)
    <3> HIDE DEF freed
    <3> QED
      BY <1>1, <1>2, <1>3, <2>2, <2>3, <2>4 DEF InStep
  <2>6. Follows(d, freed)
    <3> HIDE DEF freed
    <3> QED
      BY <1>3, <1>4, <2>2, CommandsHaveIds, FollowsRule DEF Known, Tracked
  <2> QED
    BY <1>3, <1>7, <2>1, <2>5, <2>6 DEF Sound, Launched
<1> QED
  BY <1>5, <1>6, <1>7

(* fire, when the command has to wait. *)
LEMMA FireHeldKeeps ==
  ASSUME NEW C \in SUBSET Command, NEW d, Sound(C, d), NEW command \in C,
         d.box.open # "late"
  PROVE  LET e == FireHeld(d, command)
         IN  /\ Sound(C, e)
             /\ Known(e, command.id)
             /\ e.outcomes = d.outcomes
             /\ e.inflight = d.inflight
<1> DEFINE e == FireHeld(d, command)
<1>1. d \in DriverOf(C) /\ InStep(d) /\ d.box \in Box
  BY DEF Sound, DriverOf
<1>2. IsUrgent(command.kind) \in BOOLEAN
  BY DEF IsUrgent
<1>4. /\ Coalesce(d.box, IsUrgent(command.kind)) \in Box
      /\ Coalesce(d.box, IsUrgent(command.kind)).open = d.box.open
      /\ Coalesce(d.box, IsUrgent(command.kind)).pending # "none"
  BY <1>1, <1>2, OfferType
<1>5. e = [d EXCEPT !.box = Coalesce(d.box, IsUrgent(command.kind)), !.pending = command]
  BY DEF FireHeld
<1> HIDE DEF e
<1>6. /\ e \in DriverOf(C) /\ e.pending = command /\ e.inflight = d.inflight
      /\ e.late = d.late /\ e.outcomes = d.outcomes
      /\ e.box = Coalesce(d.box, IsUrgent(command.kind))
  BY <1>1, <1>4, <1>5 DEF DriverOf
<1>7. InStep(e)
  BY <1>1, <1>4, <1>6, CommandsHaveIds DEF InStep
<1> QED
  BY <1>6, <1>7 DEF Sound, Known, Tracked, e

(* fire, when the command goes at once. *)
LEMMA FireLaunchedKeeps ==
  ASSUME NEW C \in SUBSET Command, NEW d, Sound(C, d), NEW command \in C,
         NEW hold \in Nat
  PROVE  LET e == FireLaunched(d, command, hold)
         IN  /\ Sound(C, e)
             /\ e.inflight = command
             /\ Louder(d, e)
<1> DEFINE t == Tell(d, d.late, "superseded")
           f == [t EXCEPT !.box = OfferLaunched(t.box), !.late = NoCommand,
                          !.pending = NoCommand]
           e == FireLaunched(d, command, hold)
<1>1. d \in DriverOf(C) /\ d.late \in C \cup {NoCommand} /\ "superseded" \in Verdicts
  BY DEF Sound, DriverOf, Verdicts
<1>2. t \in DriverOf(C) /\ Louder(d, t)
  BY <1>1, TellSays
<1> HIDE DEF t
<1>3. OfferLaunched(t.box) \in Box
  BY <1>2, OfferType DEF DriverOf
<1>4. f \in DriverOf(C) /\ f.late = NoCommand /\ f.pending = NoCommand /\ f.outcomes = t.outcomes
  BY <1>2, <1>3 DEF DriverOf
<1>5. Louder(t, f)
  BY <1>4 DEF Louder, About
<1>6. e = Launch(f, command, hold)
  BY DEF FireLaunched, t
<1> HIDE DEF f, e
<1>7. /\ e \in DriverOf(C) /\ e.box.open = "waiting" /\ e.box.pending = "none"
      /\ e.inflight = command /\ e.pending = NoCommand /\ e.late = NoCommand
      /\ Louder(f, e)
  BY <1>4, <1>6, LaunchSays
<1>8. InStep(e)
  BY <1>7, CommandsHaveIds DEF InStep
<1> QED
  BY <1>2, <1>5, <1>7, <1>8 DEF Sound, Louder, e

(* The box and the due queue may change without losing a command. *)
LEMMA SameCommands ==
  ASSUME NEW d, NEW e,
         e.inflight = d.inflight, e.pending = d.pending, e.late = d.late,
         e.outcomes = d.outcomes
  PROVE  /\ Follows(d, e)
         /\ Louder(d, e)
         /\ (e.box.open = d.box.open /\ e.box.pending = d.box.pending) => (InStep(d) <=> InStep(e))
BY DEF Follows, Louder, Known, Tracked, About, InStep

(* A reply closes a command only with a verdict on it. *)
LEMMA ReplyKeeps ==
  ASSUME NEW C \in SUBSET Command, NEW d, Sound(C, d), NEW seq \in SeqNo, NEW hold \in Nat
  PROVE  Sound(C, Reply(d, seq, hold)) /\ Follows(d, Reply(d, seq, hold))
<1> DEFINE acked   == [Tell(d, d.inflight, "acked") EXCEPT !.inflight = NoCommand,
                                                           !.age = 0,
                                                           !.retransmitted = FALSE]
           settled == [Tell(d, d.late, "ackedLate") EXCEPT !.late = NoCommand]
           closed  == IF d.inflight # NoCommand THEN acked ELSE settled
           open    == [closed EXCEPT !.box = CloseOpen(closed.box)]
           next    == AfterPending(open, hold)
           e       == [next EXCEPT !.due = next.due \o Launched(open)]
<1>1. CASE ~Accepts(d.box, seq)
  BY <1>1 DEF Reply, Follows
<1>2. CASE Accepts(d.box, seq)
  <2>1. /\ d \in DriverOf(C) /\ InStep(d) /\ d.box.open \in {"waiting", "late"}
        /\ {d.inflight, d.late, d.pending} \subseteq C \cup {NoCommand}
        /\ "acked" \in Verdicts /\ "ackedLate" \in Verdicts /\ 0 \in 0 .. SettleAfter
    BY <1>2, DriverAssumption DEF Sound, DriverOf, Box, Accepts, Verdicts
  <2>2. Reply(d, seq, hold) = e
    BY <1>2 DEF Reply
  <2>3. /\ closed \in DriverOf(C) /\ closed.box = d.box /\ closed.pending = d.pending
        /\ closed.inflight = NoCommand /\ closed.late = NoCommand
        /\ Follows(d, closed)
    <3>1. CASE d.inflight # NoCommand
      <4> DEFINE t == Tell(d, d.inflight, "acked")
      <4>1. d.late = NoCommand
        BY <2>1, <3>1 DEF InStep
      <4>2. /\ t \in DriverOf(C) /\ Louder(d, t) /\ About(t, d.inflight.id) # {}
            /\ t = [d EXCEPT !.outcomes = t.outcomes]
        <5>1. d \in DriverOf(C) /\ d.inflight \in C \cup {NoCommand} /\ "acked" \in Verdicts
          BY <2>1
        <5> QED
          BY <3>1, <5>1, TellSays
      <4> HIDE DEF t
      <4>3. t.box = d.box /\ t.pending = d.pending /\ t.late = d.late
        BY <2>1, <4>2 DEF DriverOf
      <4>4. closed = [t EXCEPT !.inflight = NoCommand, !.age = 0, !.retransmitted = FALSE]
        BY <3>1 DEF t
      <4> HIDE DEF closed
      <4>5. /\ closed \in DriverOf(C) /\ closed.box = t.box /\ closed.pending = t.pending
            /\ closed.inflight = NoCommand /\ closed.late = t.late
            /\ closed.outcomes = t.outcomes
        BY <2>1, <4>2, <4>4 DEF DriverOf
      <4>6. About(closed, d.inflight.id) # {} /\ Louder(d, closed)
        BY <4>2, <4>5 DEF About, Louder
      <4>7. Follows(d, closed)
        BY <4>1, <4>3, <4>5, <4>6, CommandsHaveIds, FollowsRule DEF Known, Tracked
      <4> QED
        BY <4>1, <4>3, <4>5, <4>7
    <3>2. CASE d.inflight = NoCommand
      <4> DEFINE t == Tell(d, d.late, "ackedLate")
      <4>1. d.late # NoCommand
        BY <2>1, <3>2 DEF InStep
      <4>2. /\ t \in DriverOf(C) /\ Louder(d, t) /\ About(t, d.late.id) # {}
            /\ t = [d EXCEPT !.outcomes = t.outcomes]
        <5>1. d \in DriverOf(C) /\ d.late \in C \cup {NoCommand} /\ "ackedLate" \in Verdicts
          BY <2>1
        <5> QED
          BY <4>1, <5>1, TellSays
      <4> HIDE DEF t
      <4>3. t.box = d.box /\ t.pending = d.pending /\ t.inflight = d.inflight
        BY <2>1, <4>2 DEF DriverOf
      <4>4. closed = [t EXCEPT !.late = NoCommand]
        BY <3>2 DEF t
      <4> HIDE DEF closed
      <4>5. /\ closed \in DriverOf(C) /\ closed.box = t.box /\ closed.pending = t.pending
            /\ closed.inflight = t.inflight /\ closed.late = NoCommand
            /\ closed.outcomes = t.outcomes
        BY <2>1, <4>2, <4>4 DEF DriverOf
      <4>6. About(closed, d.late.id) # {} /\ Louder(d, closed)
        BY <4>2, <4>5 DEF About, Louder
      <4>7. Follows(d, closed)
        BY <3>2, <4>3, <4>5, <4>6, CommandsHaveIds, FollowsRule DEF Known, Tracked
      <4> QED
        BY <3>2, <4>3, <4>5, <4>7
    <3> QED
      BY <3>1, <3>2
  <2> HIDE DEF closed
  <2>4. /\ CloseOpen(closed.box) \in Box /\ CloseOpen(closed.box).open = "none"
        /\ CloseOpen(closed.box).pending = d.box.pending
    BY <2>3, CloseOpenType DEF DriverOf
  <2>5. /\ open \in DriverOf(C) /\ open.box = CloseOpen(closed.box)
        /\ open.pending = closed.pending /\ open.inflight = closed.inflight
        /\ open.late = closed.late /\ open.outcomes = closed.outcomes
    BY <2>3, <2>4 DEF DriverOf
  <2> HIDE DEF open
  <2>6. Sound(C, open)
    BY <2>1, <2>3, <2>4, <2>5 DEF Sound, InStep
  <2>7. Follows(closed, open)
    BY <2>5, SameCommands
  <2>8. /\ Sound(C, next) /\ Follows(open, next) /\ next.due \in Seq(C)
        /\ Launched(open) \in Seq(C)
    BY <2>6, AfterPendingKeeps DEF Sound, DriverOf
  <2> HIDE DEF next
  <2>9. next.due \o Launched(open) \in Seq(C)
    BY <2>8
  <2>10. /\ e \in DriverOf(C) /\ e.box = next.box /\ e.inflight = next.inflight
         /\ e.pending = next.pending /\ e.late = next.late /\ e.outcomes = next.outcomes
    BY <2>8, <2>9 DEF Sound, DriverOf
  <2> HIDE DEF e
  <2>11. Follows(next, e) /\ InStep(e)
    BY <2>8, <2>10, SameCommands DEF Sound
  <2>12. Follows(d, e)
    BY <2>3, <2>7, <2>8, <2>11, FollowsChain
  <2> QED
    BY <2>2, <2>10, <2>11, <2>12 DEF Sound
<1> QED
  BY <1>1, <1>2

(* settle: a command that was silent too long is superseded by the pending *)
(* one, or reported as unanswered and kept for a late answer.               *)
LEMMA SettleKeeps ==
  ASSUME NEW C \in SUBSET Command, NEW d, Sound(C, d), d.inflight # NoCommand
  PROVE  Sound(C, Settle(d)) /\ Follows(d, Settle(d)) /\ Settle(d).due = d.due
<1> DEFINE idle == [d EXCEPT !.box = AfterTimeout(d.box), !.inflight = NoCommand,
                             !.age = 0, !.retransmitted = FALSE]
           e    == Settle(d)
<1>1. /\ d \in DriverOf(C) /\ InStep(d) /\ d.box \in Box /\ d.box.open = "waiting"
      /\ d.late = NoCommand /\ d.inflight \in C
      /\ "unanswered" \in Verdicts /\ "superseded" \in Verdicts /\ 0 \in 0 .. SettleAfter
  BY DriverAssumption DEF Sound, DriverOf, InStep, Verdicts
<1>2. /\ AfterTimeout(d.box) \in Box /\ AfterTimeout(d.box).pending = d.box.pending
      /\ d.box.pending = "none" => /\ TimeoutDecision(d.box) = "waitLate"
                                   /\ AfterTimeout(d.box).open = "late"
      /\ d.box.pending # "none" => /\ TimeoutDecision(d.box) = "launchPending"
                                   /\ AfterTimeout(d.box).open = "none"
  BY <1>1, AfterTimeoutType
<1>3. /\ idle \in DriverOf(C) /\ idle.box = AfterTimeout(d.box) /\ idle.due = d.due
      /\ idle.inflight = NoCommand /\ idle.pending = d.pending /\ idle.late = d.late
      /\ idle.outcomes = d.outcomes
  BY <1>1, <1>2 DEF DriverOf
<1>4. CASE d.box.pending = "none"
  <2> DEFINE t == Tell(idle, d.inflight, "unanswered")
  <2>1. e = [t EXCEPT !.late = d.inflight]
    BY <1>2, <1>4 DEF Settle
  <2> HIDE DEF idle, e
  <2>2. /\ t \in DriverOf(C) /\ Louder(idle, t) /\ t = [idle EXCEPT !.outcomes = t.outcomes]
    BY <1>1, <1>3, TellSays
  <2> HIDE DEF t
  <2>3. /\ t.box = idle.box /\ t.inflight = idle.inflight /\ t.pending = idle.pending
        /\ t.due = idle.due
    BY <1>3, <2>2 DEF DriverOf
  <2>4. /\ e \in DriverOf(C) /\ e.box = t.box /\ e.inflight = t.inflight
        /\ e.pending = t.pending /\ e.due = t.due /\ e.late = d.inflight
        /\ e.outcomes = t.outcomes
    BY <1>1, <2>1, <2>2 DEF DriverOf
  <2>5. InStep(e)
    BY <1>1, <1>2, <1>3, <1>4, <2>3, <2>4, CommandsHaveIds DEF InStep
  <2>6. Louder(d, e)
    BY <1>3, <2>2, <2>4 DEF Louder, About
  <2>7. Follows(d, e)
    BY <1>1, <1>3, <2>3, <2>4, <2>6, CommandsHaveIds, FollowsRule DEF Known, Tracked
  <2> QED
    BY <1>3, <2>3, <2>4, <2>5, <2>7 DEF Sound, e
<1>5. CASE d.box.pending # "none"
  <2>1. e = Tell(idle, d.inflight, "superseded")
    BY <1>2, <1>5 DEF Settle
  <2> HIDE DEF idle, e
  <2>2. /\ e \in DriverOf(C) /\ Louder(idle, e) /\ e = [idle EXCEPT !.outcomes = e.outcomes]
        /\ About(e, d.inflight.id) # {}
    <3>1. /\ idle \in DriverOf(C) /\ d.inflight \in C \cup {NoCommand}
          /\ "superseded" \in Verdicts
      BY <1>1, <1>3
    <3> QED
      BY <2>1, <3>1, TellSays
  <2>3. /\ e.box = idle.box /\ e.inflight = idle.inflight /\ e.pending = idle.pending
        /\ e.due = idle.due /\ e.late = idle.late
    BY <1>3, <2>2 DEF DriverOf
  <2>4. InStep(e)
    BY <1>1, <1>2, <1>3, <1>5, <2>3 DEF InStep
  <2>5. Louder(d, e)
    BY <1>3, <2>2 DEF Louder, About
  <2>6. Follows(d, e)
    BY <1>1, <1>3, <2>2, <2>3, <2>5, CommandsHaveIds, FollowsRule DEF Known, Tracked
  <2> QED
    BY <1>3, <2>2, <2>3, <2>4, <2>6 DEF Sound, e
<1> QED
  BY <1>4, <1>5

(* The loop over what is in flight. *)
LEMMA SettledOrRetransmittedKeeps ==
  ASSUME NEW C \in SUBSET Command, NEW d, Sound(C, d)
  PROVE  /\ Sound(C, SettledOrRetransmitted(d))
         /\ Follows(d, SettledOrRetransmitted(d))
         /\ SettledOrRetransmitted(d).due = d.due
<1> DEFINE e == SettledOrRetransmitted(d)
<1>1. CASE Settles(d)
  <2>1. e = Settle(d)
    BY <1>1 DEF SettledOrRetransmitted, RetransmitsNow
  <2> QED
    BY <1>1, <2>1, SettleKeeps DEF Settles
<1>2. CASE RetransmitsNow(d)
  <2>1. e = [d EXCEPT !.retransmitted = TRUE]
    BY <1>2 DEF SettledOrRetransmitted, RetransmitsNow
  <2> HIDE DEF e
  <2>2. /\ e \in DriverOf(C) /\ e.box = d.box /\ e.inflight = d.inflight
        /\ e.pending = d.pending /\ e.late = d.late /\ e.outcomes = d.outcomes
        /\ e.due = d.due
    BY <2>1 DEF Sound, DriverOf
  <2>3. Follows(d, e) /\ InStep(e)
    BY <2>2, SameCommands DEF Sound
  <2> QED
    BY <2>2, <2>3 DEF Sound, e
<1>3. CASE ~Settles(d) /\ ~RetransmitsNow(d)
  BY <1>3 DEF SettledOrRetransmitted, Follows
<1> QED
  BY <1>1, <1>2, <1>3

(* tick, for one opcode. *)
LEMMA TickKeeps ==
  ASSUME NEW C \in SUBSET Command, NEW d, Sound(C, d), NEW pipelines \in BOOLEAN,
         NEW hold \in Nat
  PROVE  /\ Sound(C, Tick(d, pipelines, hold))
         /\ Follows(d, Tick(d, pipelines, hold))
         /\ TickSends(d, pipelines) \in Seq(C)
<1> DEFINE f    == SettledOrRetransmitted(d)
           next == [f EXCEPT !.due = << >>]
           e    == Tick(d, pipelines, hold)
           last == IF Blocked(f, pipelines) THEN << >> ELSE Launched(f)
<1>1. Sound(C, f) /\ Follows(d, f) /\ d.due \in Seq(C)
  BY SettledOrRetransmittedKeeps DEF Sound, DriverOf
<1>2. Retransmission(d) \in Seq(C)
  <2>1. CASE RetransmitsNow(d)
    <3>1. d.inflight \in C
      BY <2>1 DEF RetransmitsNow, Sound, DriverOf
    <3> QED
      BY <2>1, <3>1 DEF Retransmission
  <2>2. CASE ~RetransmitsNow(d)
    BY <2>2 DEF Retransmission
  <2> QED
    BY <2>1, <2>2
<1>3. e = IF Blocked(next, pipelines) THEN next ELSE AfterPending(next, hold)
  BY DEF Tick
<1>4. TickSends(d, pipelines) = d.due \o Retransmission(d) \o last
  BY DEF TickSends
<1> HIDE DEF f
<1>5. << >> \in Seq(C)
  OBVIOUS
<1>6. /\ next \in DriverOf(C) /\ next.box = f.box /\ next.inflight = f.inflight
      /\ next.pending = f.pending /\ next.late = f.late /\ next.outcomes = f.outcomes
  BY <1>1, <1>5 DEF Sound, DriverOf
<1> HIDE DEF next, e
<1>7. Sound(C, next) /\ Follows(f, next)
  BY <1>1, <1>6, SameCommands DEF Sound
<1>8. Sound(C, e) /\ Follows(next, e)
  <2>1. CASE Blocked(next, pipelines)
    BY <1>3, <1>7, <2>1 DEF Follows
  <2>2. CASE ~Blocked(next, pipelines)
    BY <1>3, <1>7, <2>2, AfterPendingKeeps
  <2> QED
    BY <2>1, <2>2
<1>9. Follows(d, e)
  BY <1>1, <1>7, <1>8, FollowsChain
<1>10. last \in Seq(C)
  BY <1>1, <1>5, AfterPendingKeeps
<1> HIDE DEF last
<1>11. d.due \o Retransmission(d) \in Seq(C)
  BY <1>1, <1>2, ConcatProperties
<1>12. TickSends(d, pipelines) \in Seq(C)
  BY <1>4, <1>10, <1>11, ConcatProperties
<1> QED
  BY <1>8, <1>9, <1>12 DEF e

(* Time passes, a frame is credited, the outcomes are taken. *)
LEMMA AgeKeeps ==
  ASSUME NEW C \in SUBSET Command, NEW d, Sound(C, d)
  PROVE  Sound(C, Age(d)) /\ Follows(d, Age(d)) /\ Age(d).inflight = d.inflight
<1> DEFINE e == Age(d)
<1>1. d \in DriverOf(C) /\ InStep(d)
  BY DEF Sound
<1>2. /\ AgeBox(d.box) \in Box /\ AgeBox(d.box).open = d.box.open
      /\ AgeBox(d.box).pending = d.box.pending
  BY <1>1, AgeBoxType DEF DriverOf
<1>3. (IF d.inflight # NoCommand /\ d.age < SettleAfter THEN d.age + 1 ELSE d.age)
        \in 0 .. SettleAfter
  BY <1>1, DriverAssumption DEF DriverOf
<1>4. /\ e \in DriverOf(C) /\ e.box = AgeBox(d.box) /\ e.inflight = d.inflight
      /\ e.pending = d.pending /\ e.late = d.late /\ e.outcomes = d.outcomes
  BY <1>1, <1>2, <1>3 DEF Age, DriverOf
<1> HIDE DEF e
<1> QED
  BY <1>1, <1>2, <1>4, SameCommands DEF Sound, e

LEMMA CreditKeeps ==
  ASSUME NEW C \in SUBSET Command, NEW d, Sound(C, d), NEW seq \in SeqNo
  PROVE  LET e == [d EXCEPT !.box = NoteTransmit(d.box, seq)]
         IN  Sound(C, e) /\ Follows(d, e) /\ e.inflight = d.inflight
<1> DEFINE e == [d EXCEPT !.box = NoteTransmit(d.box, seq)]
<1>1. d \in DriverOf(C) /\ InStep(d)
  BY DEF Sound
<1>2. /\ NoteTransmit(d.box, seq) \in Box /\ NoteTransmit(d.box, seq).open = d.box.open
      /\ NoteTransmit(d.box, seq).pending = d.box.pending
  BY <1>1, NoteTransmitType DEF DriverOf
<1>3. /\ e \in DriverOf(C) /\ e.box = NoteTransmit(d.box, seq) /\ e.inflight = d.inflight
      /\ e.pending = d.pending /\ e.late = d.late /\ e.outcomes = d.outcomes
  BY <1>1, <1>2 DEF DriverOf
<1> HIDE DEF e
<1> QED
  BY <1>1, <1>2, <1>3, SameCommands DEF Sound, e

LEMMA TakeKeeps ==
  ASSUME NEW C \in SUBSET Command, NEW d, Sound(C, d)
  PROVE  LET e == [d EXCEPT !.outcomes = << >>]
         IN  /\ Sound(C, e) /\ Tracked(e) = Tracked(d)
             /\ e.inflight = d.inflight /\ e.outcomes = << >>
<1>1. << >> \in Seq(OutcomeOf(C))
  OBVIOUS
<1> QED
  BY <1>1 DEF Sound, DriverOf, InStep, Tracked

LEMMA FreshDriverSound ==
  ASSUME NEW C \in SUBSET Command
  PROVE  Sound(C, FreshDriver)
<1>1. << >> \in Seq(OutcomeOf(C)) /\ << >> \in Seq(C)
  OBVIOUS
<1>2. FreshBox \in Box
  BY DEF FreshBox, Box
<1>3. 0 \in 0 .. SettleAfter
  BY DriverAssumption
<1> QED
  BY <1>1, <1>2, <1>3 DEF Sound, DriverOf, InStep, FreshDriver, FreshBox

(* A sound driver knows only its own commands, and stays sound for more. *)
LEMMA KnowsItsOwn ==
  ASSUME NEW C \in SUBSET Command, NEW d, Sound(C, d), NEW id \in Nat \ {0}, Known(d, id)
  PROVE  \E command \in C : command.id = id
<1>1. /\ d.outcomes \in Seq(OutcomeOf(C))
      /\ {d.pending, d.inflight, d.late} \subseteq C \cup {NoCommand}
  BY DEF Sound, DriverOf
<1>2. CASE id \in Tracked(d)
  BY <1>1, <1>2, CommandsHaveIds DEF Tracked
<1>3. CASE About(d, id) # {}
  <2>1. PICK i \in About(d, id) : TRUE
    BY <1>3
  <2>2. d.outcomes[i] \in OutcomeOf(C) /\ d.outcomes[i].id = id
    BY <1>1, <2>1 DEF About
  <2> QED
    BY <2>2 DEF OutcomeOf
<1> QED
  BY <1>2, <1>3 DEF Known

LEMMA SoundForMore ==
  ASSUME NEW C \in SUBSET Command, NEW D \in SUBSET Command, C \subseteq D,
         NEW d, Sound(C, d)
  PROVE  Sound(D, d)
<1>1. OutcomeOf(C) \subseteq OutcomeOf(D)
  BY DEF OutcomeOf
<1>2. d \in DriverOf(C) /\ InStep(d)
  BY DEF Sound
<1>3. d.due \in Seq(D) /\ d.outcomes \in Seq(OutcomeOf(D))
  BY <1>1, <1>2, SeqMonotonic DEF DriverOf
<1> QED
  BY <1>2, <1>3 DEF Sound, DriverOf

(* A reply ends the command in flight by acknowledging it, or not at all. *)
LEMMA ReplyAcknowledges ==
  ASSUME NEW C \in SUBSET Command, NEW d, Sound(C, d), NEW seq \in SeqNo, NEW hold \in Nat,
         d.inflight # NoCommand
  PROVE  LET e == Reply(d, seq, hold)
         IN  \/ e = d
             \/ /\ About(e, d.inflight.id) # {}
                /\ LastVerdict(e, d.inflight.id) = "acked"
<1> SUFFICES ASSUME Accepts(d.box, seq)
             PROVE  LET e == Reply(d, seq, hold)
                    IN  /\ About(e, d.inflight.id) # {}
                        /\ LastVerdict(e, d.inflight.id) = "acked"
  BY DEF Reply
<1> DEFINE t    == Tell(d, d.inflight, "acked")
           open == [[t EXCEPT !.inflight = NoCommand, !.age = 0, !.retransmitted = FALSE]
                       EXCEPT !.box = CloseOpen(t.box)]
           next == AfterPending(open, hold)
           e    == Reply(d, seq, hold)
           said == [id |-> d.inflight.id, verdict |-> "acked"]
           n    == Len(d.outcomes) + 1
<1>1. /\ d \in DriverOf(C) /\ d.inflight \in C /\ d.outcomes \in Seq(OutcomeOf(C))
      /\ said \in OutcomeOf(C)
  BY DEF Sound, DriverOf, OutcomeOf, Verdicts
<1>2. t = [d EXCEPT !.outcomes = Append(d.outcomes, said)]
  BY DEF Tell
<1> HIDE DEF said
<1>3. Append(d.outcomes, said) \in Seq(OutcomeOf(C))
  BY <1>1
<1>4. t \in DriverOf(C) /\ t.outcomes = Append(d.outcomes, said)
  BY <1>1, <1>2, <1>3 DEF DriverOf
<1> HIDE DEF t
<1>5. open.inflight = NoCommand /\ open.outcomes = t.outcomes
  BY <1>4 DEF DriverOf
<1>6. e = [next EXCEPT !.due = next.due \o Launched(open)]
  <2>1. [t EXCEPT !.inflight = NoCommand, !.age = 0, !.retransmitted = FALSE].box = t.box
    BY <1>4 DEF DriverOf
  <2> QED
    BY <2>1 DEF Reply, t
<1> HIDE DEF open
<1>7. next.outcomes = open.outcomes
  <2> DEFINE freed == [open EXCEPT !.box = OfferLaunched(open.box), !.pending = NoCommand]
  <2>1. freed.outcomes = open.outcomes /\ freed.inflight = NoCommand
    BY <1>5
  <2>2. CASE PendingGoes(open)
    <3>1. next = Launch(freed, open.pending, hold)
      BY <2>2 DEF AfterPending, PendingGoes
    <3> HIDE DEF freed
    <3>2. Tell(freed, freed.inflight, "superseded") = freed
      BY <2>1 DEF Tell
    <3> QED
      BY <2>1, <3>1, <3>2 DEF Launch
  <2>3. CASE ~PendingGoes(open)
    BY <2>1, <2>3 DEF AfterPending
  <2> QED
    BY <2>2, <2>3
<1>8. e.outcomes = Append(d.outcomes, said)
  <2> HIDE DEF next
  <2> QED
    BY <1>4, <1>5, <1>6, <1>7
<1> HIDE DEF e
<1>9. /\ n \in Nat /\ DOMAIN e.outcomes = 1 .. n /\ e.outcomes[n] = said
  BY <1>1, <1>8
<1>10. n \in About(e, d.inflight.id) /\ \A i \in About(e, d.inflight.id) : i <= n
  BY <1>9 DEF About, said
<1>11. (CHOOSE i \in About(e, d.inflight.id) : \A j \in About(e, d.inflight.id) : j <= i) = n
  <2> DEFINE last == CHOOSE i \in About(e, d.inflight.id) :
                       \A j \in About(e, d.inflight.id) : j <= i
  <2>1. last \in About(e, d.inflight.id) /\ \A j \in About(e, d.inflight.id) : j <= last
    BY <1>10
  <2>2. last \in Nat /\ n <= last /\ last <= n
    BY <1>9, <1>10, <2>1 DEF About
  <2> HIDE DEF last
  <2>3. last = n
    BY <1>9, <2>2
  <2> QED
    BY <2>3 DEF last
<1>12. About(e, d.inflight.id) # {} /\ LastVerdict(e, d.inflight.id) = "acked"
  <2>1. LastVerdict(e, d.inflight.id) = e.outcomes[n].verdict
    BY <1>11, Zenon DEF LastVerdict
  <2>2. said.verdict = "acked"
    BY DEF said
  <2> QED
    BY <1>9, <1>10, <2>1, <2>2
<1> QED
  BY <1>12 DEF e

(* A tick does not touch what is in flight before the settle window is over. *)
LEMMA TickHoldsPlace ==
  ASSUME NEW C \in SUBSET Command, NEW d \in DriverOf(C),
         d.inflight # NoCommand, ~(d.age >= SettleAfter), NEW hold
  PROVE  Tick(d, FALSE, hold).inflight = d.inflight
<1> DEFINE f    == SettledOrRetransmitted(d)
           next == [f EXCEPT !.due = << >>]
<1>1. f \in DriverOf(C) /\ f.inflight = d.inflight
  BY DEF SettledOrRetransmitted, Settles, RetransmitsNow, DriverOf
<1> HIDE DEF f
<1>2. next.inflight = d.inflight
  BY <1>1 DEF DriverOf
<1>3. Blocked(next, FALSE)
  BY <1>2 DEF Blocked
<1> QED
  BY <1>2, <1>3 DEF Tick, f
-----------------------------------------------------------------------------
(***************************************************************************)
(* What each operation does, field by field: what it puts in flight, what  *)
(* it hands over to be sent, and what it says.                             *)
(***************************************************************************)
Said(outcomes, command, verdict) ==
  IF command = NoCommand
  THEN outcomes
  ELSE Append(outcomes, [id |-> command.id, verdict |-> verdict])

(* The command whose generation the mailbox has open. *)
OpenOf(d) == IF d.inflight # NoCommand THEN d.inflight ELSE d.late

LEMMA TellIs ==
  ASSUME NEW C \in SUBSET Command, NEW d \in DriverOf(C), NEW command, NEW verdict
  PROVE  LET e == Tell(d, command, verdict)
         IN  /\ e = [d EXCEPT !.outcomes = Said(d.outcomes, command, verdict)]
             /\ e.outcomes = Said(d.outcomes, command, verdict)
             /\ e.box = d.box /\ e.inflight = d.inflight /\ e.age = d.age
             /\ e.retransmitted = d.retransmitted /\ e.pending = d.pending
             /\ e.late = d.late /\ e.due = d.due
<1>1. Tell(d, command, verdict) = [d EXCEPT !.outcomes = Said(d.outcomes, command, verdict)]
  <2>1. d = [d EXCEPT !.outcomes = d.outcomes]
    BY DEF DriverOf
  <2> QED
    BY <2>1 DEF Tell, Said
<1> DEFINE said == Said(d.outcomes, command, verdict)
<1> HIDE DEF said
<1>2. LET e == [d EXCEPT !.outcomes = said]
      IN  /\ e.outcomes = said
          /\ e.box = d.box /\ e.inflight = d.inflight /\ e.age = d.age
          /\ e.retransmitted = d.retransmitted /\ e.pending = d.pending
          /\ e.late = d.late /\ e.due = d.due
  BY DEF DriverOf
<1> QED
  BY <1>1, <1>2 DEF said

LEMMA LaunchIs ==
  ASSUME NEW C \in SUBSET Command, NEW d \in DriverOf(C), NEW command, NEW hold \in Nat
  PROVE  LET e == Launch(d, command, hold)
         IN  /\ e.inflight = command /\ ~e.retransmitted
             /\ e.pending = d.pending /\ e.late = d.late /\ e.due = d.due
             /\ e.outcomes = Said(d.outcomes, d.inflight, "superseded")
             /\ e.box.seqs = {} /\ e.box.open = "waiting"
<1> DEFINE t == Tell(d, d.inflight, "superseded")
           e == Launch(d, command, hold)
<1>1. /\ t = [d EXCEPT !.outcomes = Said(d.outcomes, d.inflight, "superseded")]
      /\ t.outcomes = Said(d.outcomes, d.inflight, "superseded")
      /\ t.box = d.box /\ t.pending = d.pending /\ t.late = d.late /\ t.due = d.due
  BY TellIs
<1>2. e = [t EXCEPT !.box = BeginLaunch(t.box, hold), !.inflight = command, !.age = 0,
                    !.retransmitted = FALSE]
  BY DEF Launch
<1>3. BeginLaunch(d.box, hold).seqs = {} /\ BeginLaunch(d.box, hold).open = "waiting"
  BY DEF BeginLaunch, SupersedeOpen, DriverOf, Box
<1>4. DOMAIN t = {"box", "inflight", "age", "retransmitted", "pending", "late", "due",
                  "outcomes"}
  <2> HIDE DEF t
  <2> QED
    BY <1>1 DEF DriverOf
<1> HIDE DEF t, e
<1>5. /\ e.box = BeginLaunch(t.box, hold) /\ e.inflight = command /\ ~e.retransmitted
      /\ e.pending = t.pending /\ e.late = t.late /\ e.due = t.due /\ e.outcomes = t.outcomes
  BY <1>2, <1>4
<1> QED
  BY <1>1, <1>3, <1>5 DEF e

(* A fired command becomes the pending one.                                  *)
Holds(d, e, command) ==
  /\ e.inflight = d.inflight /\ e.retransmitted = d.retransmitted
  /\ e.pending = command /\ e.late = d.late /\ e.due = d.due
  /\ e.outcomes = d.outcomes
  /\ e.box.seqs = d.box.seqs

(* A fired command is launched, over whatever the opcode had in hand.        *)
PutsInFlight(d, e, command) ==
  /\ e.inflight = command /\ ~e.retransmitted
  /\ e.pending = NoCommand /\ e.late = NoCommand /\ e.due = d.due
  /\ e.outcomes = Said(d.outcomes, OpenOf(d), "superseded")
  /\ e.box.seqs = {}

(* A reply closes what was open; the pending command may take its place.     *)
IsAnswered(d, e, seq) ==
  /\ seq \in d.box.seqs /\ OpenOf(d) # NoCommand
  /\ e.late = NoCommand /\ e.box.seqs = {}
  /\ \/ /\ e.due = d.due \o << >>
        /\ e.inflight = NoCommand /\ e.pending = d.pending
     \/ /\ d.inflight # NoCommand /\ d.pending # NoCommand
        /\ e.due = d.due \o << d.pending >>
        /\ e.inflight = d.pending /\ ~e.retransmitted /\ e.pending = NoCommand

LEMMA FireHeldIs ==
  ASSUME NEW C \in SUBSET Command, NEW d \in DriverOf(C), NEW command
  PROVE  Holds(d, FireHeld(d, command), command)
<1> DEFINE b == Coalesce(d.box, IsUrgent(command.kind))
           e == FireHeld(d, command)
<1>1. b.seqs = d.box.seqs /\ b.open = d.box.open
  BY DEF Coalesce, DriverOf, Box
<1>2. e = [d EXCEPT !.box = b, !.pending = command]
  BY DEF FireHeld
<1> HIDE DEF b, e
<1>3. /\ e.inflight = d.inflight /\ e.retransmitted = d.retransmitted
      /\ e.pending = command /\ e.late = d.late /\ e.due = d.due
      /\ e.outcomes = d.outcomes /\ e.box = b
  BY <1>2 DEF DriverOf
<1>4. Holds(d, e, command)
  BY <1>1, <1>3 DEF Holds
<1> QED
  BY <1>4 DEF e

LEMMA FireLaunchedIs ==
  ASSUME NEW C \in SUBSET Command, NEW d, Sound(C, d), NEW command, NEW hold \in Nat
  PROVE  PutsInFlight(d, FireLaunched(d, command, hold), command)
<1> DEFINE t == Tell(d, d.late, "superseded")
           f == [t EXCEPT !.box = OfferLaunched(t.box), !.late = NoCommand,
                          !.pending = NoCommand]
           e == FireLaunched(d, command, hold)
<1>1. /\ d \in DriverOf(C) /\ d.late \in C \cup {NoCommand} /\ "superseded" \in Verdicts
      /\ d.inflight = NoCommand \/ d.late = NoCommand
  BY DEF Sound, DriverOf, Verdicts, InStep
<1>2. /\ t \in DriverOf(C) /\ t.outcomes = Said(d.outcomes, d.late, "superseded")
      /\ t.due = d.due /\ t.inflight = d.inflight
  BY <1>1, TellSays, TellIs
<1> HIDE DEF t
<1>3. OfferLaunched(t.box) \in Box
  BY <1>2, OfferType DEF DriverOf
<1>4. /\ f \in DriverOf(C) /\ f.late = NoCommand /\ f.pending = NoCommand
      /\ f.outcomes = t.outcomes /\ f.due = t.due /\ f.inflight = t.inflight
  BY <1>2, <1>3 DEF DriverOf
<1>5. e = Launch(f, command, hold)
  BY DEF FireLaunched, t
<1> HIDE DEF f, e
<1>6. /\ e.inflight = command /\ ~e.retransmitted
      /\ e.pending = f.pending /\ e.late = f.late /\ e.due = f.due
      /\ e.outcomes = Said(f.outcomes, f.inflight, "superseded")
      /\ e.box.seqs = {} /\ e.box.open = "waiting"
  BY <1>4, <1>5, LaunchIs
<1>7. Said(Said(d.outcomes, d.late, "superseded"), d.inflight, "superseded")
        = Said(d.outcomes, OpenOf(d), "superseded")
  BY <1>1 DEF Said, OpenOf
<1>8. PutsInFlight(d, e, command)
  BY <1>2, <1>4, <1>6, <1>7 DEF PutsInFlight
<1> QED
  BY <1>8 DEF e

(* The pending command is in flight now, and what it replaced was told so.   *)
Released(d, e) ==
  /\ d.pending # NoCommand
  /\ e.inflight = d.pending /\ ~e.retransmitted /\ e.pending = NoCommand
  /\ d.late = NoCommand /\ e.late = NoCommand
  /\ e.outcomes = Said(d.outcomes, d.inflight, "superseded")
  /\ e.box.seqs = {} /\ e.box.open = "waiting"

(* Nothing was launched, and nothing was said.                               *)
Kept(d, e) ==
  /\ e.inflight = d.inflight /\ e.retransmitted = d.retransmitted
  /\ e.pending = d.pending /\ e.late = d.late /\ e.outcomes = d.outcomes
  /\ e.box.seqs = d.box.seqs /\ e.box.open = d.box.open

LEMMA AfterPendingIs ==
  ASSUME NEW C \in SUBSET Command, NEW d, Sound(C, d), NEW hold \in Nat
  PROVE  LET e == AfterPending(d, hold)
         IN  /\ e.due = d.due
             /\ \/ Launched(d) = << d.pending >> /\ Released(d, e)
                \/ Launched(d) = << >> /\ Kept(d, e)
<1> DEFINE freed == [d EXCEPT !.box = OfferLaunched(d.box), !.pending = NoCommand]
           e     == AfterPending(d, hold)
<1>1. d \in DriverOf(C) /\ InStep(d) /\ d.box \in Box
  BY DEF Sound, DriverOf
<1>2. /\ OfferLaunched(d.box) \in Box /\ OfferLaunched(d.box).open = d.box.open
      /\ OfferLaunched(d.box).seqs = d.box.seqs
  BY <1>1, OfferType DEF OfferLaunched, Box
<1>3. /\ freed \in DriverOf(C) /\ freed.pending = NoCommand
      /\ freed.inflight = d.inflight /\ freed.late = d.late /\ freed.due = d.due
      /\ freed.outcomes = d.outcomes /\ freed.retransmitted = d.retransmitted
      /\ freed.box = OfferLaunched(d.box)
  BY <1>1, <1>2 DEF DriverOf
<1>4. CASE PendingGoes(d)
  <2>1. d.pending # NoCommand /\ d.box.pending # "none" /\ d.late = NoCommand
    BY <1>1, <1>4 DEF PendingGoes, InStep
  <2>2. e = Launch(freed, d.pending, hold) /\ Launched(d) = << d.pending >>
    BY <1>4 DEF AfterPending, PendingGoes, Launched
  <2> HIDE DEF freed, e
  <2>3. /\ e.inflight = d.pending /\ ~e.retransmitted
        /\ e.pending = freed.pending /\ e.late = freed.late /\ e.due = freed.due
        /\ e.outcomes = Said(freed.outcomes, freed.inflight, "superseded")
        /\ e.box.seqs = {} /\ e.box.open = "waiting"
    BY <1>3, <2>2, LaunchIs
  <2> QED
    BY <1>3, <2>1, <2>2, <2>3 DEF Released, e
<1>5. CASE ~PendingGoes(d) /\ PendingLaunch(d.box) = "afterHold"
  BY <1>5 DEF AfterPending, Launched, Kept
<1>6. CASE ~PendingGoes(d) /\ PendingLaunch(d.box) # "afterHold"
  <2>1. e = freed /\ Launched(d) = << >>
    BY <1>6 DEF AfterPending, Launched
  <2>2. d.pending = NoCommand
    <3>1. PendingLaunch(d.box) \in {"none", "immediate"}
      BY <1>6 DEF PendingLaunch
    <3>2. d.box.pending = "none" \/ d.pending = NoCommand
      BY <1>6, <3>1 DEF PendingGoes, PendingLaunch
    <3> QED
      BY <1>1, <3>2 DEF InStep
  <2> HIDE DEF freed, e
  <2> QED
    BY <1>2, <1>3, <2>1, <2>2 DEF Kept, e
<1> QED
  BY <1>4, <1>5, <1>6

(* An accepted reply acknowledges the open command; the pending one may go.  *)
LEMMA ReplyIs ==
  ASSUME NEW C \in SUBSET Command, NEW d, Sound(C, d), NEW seq, NEW hold \in Nat
  PROVE  LET e == Reply(d, seq, hold)
         IN  \/ e = d
             \/ /\ IsAnswered(d, e, seq)
                /\ e.outcomes = Said(d.outcomes, OpenOf(d),
                                     IF d.inflight # NoCommand THEN "acked" ELSE "ackedLate")
<1> SUFFICES ASSUME Accepts(d.box, seq)
             PROVE  LET e == Reply(d, seq, hold)
                    IN  /\ IsAnswered(d, e, seq)
                        /\ e.outcomes = Said(d.outcomes, OpenOf(d),
                             IF d.inflight # NoCommand THEN "acked" ELSE "ackedLate")
  BY DEF Reply
<1> DEFINE verdict == IF d.inflight # NoCommand THEN "acked" ELSE "ackedLate"
           t       == Tell(d, OpenOf(d), verdict)
           closed  == IF d.inflight # NoCommand
                      THEN [t EXCEPT !.inflight = NoCommand, !.age = 0,
                                     !.retransmitted = FALSE]
                      ELSE [t EXCEPT !.late = NoCommand]
           open    == [closed EXCEPT !.box = CloseOpen(closed.box)]
           next    == AfterPending(open, hold)
           e       == Reply(d, seq, hold)
<1>1. /\ d \in DriverOf(C) /\ InStep(d) /\ d.box \in Box
      /\ OpenOf(d) \in C \cup {NoCommand} /\ verdict \in Verdicts
      /\ d.box.open # "none" /\ seq \in d.box.seqs
  BY DEF Sound, DriverOf, OpenOf, Verdicts, Accepts
<1>2. /\ OpenOf(d) # NoCommand /\ (d.inflight = NoCommand \/ d.late = NoCommand)
      /\ d.inflight = NoCommand => d.box.pending = "none" /\ d.pending = NoCommand
  BY <1>1 DEF InStep, OpenOf, Box
<1>3. /\ t \in DriverOf(C)
      /\ t.outcomes = Said(d.outcomes, OpenOf(d), verdict)
      /\ t.box = d.box /\ t.inflight = d.inflight /\ t.pending = d.pending
      /\ t.late = d.late /\ t.due = d.due
  BY <1>1, TellSays, TellIs
<1>4. e = [next EXCEPT !.due = next.due \o Launched(open)]
  BY <1>2 DEF Reply, OpenOf
<1> HIDE DEF t, e
<1>5. /\ closed \in DriverOf(C) /\ closed.inflight = NoCommand /\ closed.late = NoCommand
      /\ closed.box = d.box /\ closed.pending = d.pending /\ closed.due = d.due
      /\ closed.outcomes = t.outcomes
  <2>1. 0 \in 0 .. SettleAfter
    BY DriverAssumption
  <2>2. CASE d.inflight # NoCommand
    BY <1>2, <1>3, <2>1, <2>2 DEF DriverOf
  <2>3. CASE d.inflight = NoCommand
    BY <1>2, <1>3, <2>3 DEF DriverOf
  <2> QED
    BY <2>2, <2>3
<1> HIDE DEF closed
<1>6. /\ CloseOpen(closed.box) \in Box /\ CloseOpen(closed.box).open = "none"
      /\ CloseOpen(closed.box).pending = d.box.pending /\ CloseOpen(closed.box).seqs = {}
  BY <1>1, <1>5, CloseOpenType DEF CloseOpen, Box
<1>7. /\ open \in DriverOf(C) /\ open.box = CloseOpen(closed.box)
      /\ open.inflight = NoCommand /\ open.late = NoCommand
      /\ open.pending = d.pending /\ open.due = d.due /\ open.outcomes = t.outcomes
  BY <1>5, <1>6 DEF DriverOf
<1> HIDE DEF open
<1>8. InStep(open)
  BY <1>1, <1>6, <1>7 DEF InStep
<1>9. /\ next.due = open.due
      /\ \/ Launched(open) = << open.pending >> /\ Released(open, next)
         \/ Launched(open) = << >> /\ Kept(open, next)
      /\ next \in DriverOf(C)
  BY <1>7, <1>8, AfterPendingIs, AfterPendingKeeps DEF Sound
<1> HIDE DEF next
<1>10. /\ e.due = d.due \o Launched(open) /\ e.inflight = next.inflight
       /\ e.pending = next.pending /\ e.late = next.late /\ e.outcomes = next.outcomes
       /\ e.retransmitted = next.retransmitted /\ e.box = next.box
  BY <1>4, <1>7, <1>9 DEF DriverOf
<1>11. /\ e.late = NoCommand /\ e.box.seqs = {}
       /\ e.outcomes = Said(d.outcomes, OpenOf(d), verdict)
  BY <1>3, <1>6, <1>7, <1>9, <1>10 DEF Released, Kept, Said
<1>12. \/ /\ e.due = d.due \o << >>
          /\ e.inflight = NoCommand /\ e.pending = d.pending
       \/ /\ d.inflight # NoCommand /\ d.pending # NoCommand
          /\ e.due = d.due \o << d.pending >>
          /\ e.inflight = d.pending /\ ~e.retransmitted /\ e.pending = NoCommand
  BY <1>2, <1>7, <1>9, <1>10 DEF Released, Kept
<1>13. IsAnswered(d, e, seq)
  BY <1>1, <1>2, <1>11, <1>12 DEF IsAnswered
<1> QED
  BY <1>11, <1>13 DEF e

(* What a tick may repeat: a command that retransmits, and did not before.   *)
Repeats(d, repeat) ==
  \/ repeat = << >>
  \/ /\ repeat = << d.inflight >> /\ d.inflight # NoCommand
     /\ d.inflight.kind = "tap" /\ ~d.retransmitted

(* The four things a tick can do with an opcode.                             *)
Settled(d, e, sends) ==
  /\ d.inflight # NoCommand /\ d.pending = NoCommand
  /\ e.inflight = NoCommand /\ e.pending = NoCommand /\ e.late = d.inflight
  /\ e.outcomes = Said(d.outcomes, d.inflight, "unanswered")
  /\ e.box.seqs = d.box.seqs
  /\ sends = d.due \o << >> \o << >>

SettledForPending(d, e, sends) ==
  /\ d.inflight # NoCommand /\ d.pending # NoCommand
  /\ d.late = NoCommand /\ e.late = NoCommand
  /\ e.outcomes = Said(d.outcomes, d.inflight, "superseded")
  /\ e.box.seqs = {}
  /\ \/ /\ e.inflight = NoCommand /\ e.pending = d.pending
        /\ sends = d.due \o << >> \o << >>
     \/ /\ e.inflight = d.pending /\ ~e.retransmitted /\ e.pending = NoCommand
        /\ sends = d.due \o << >> \o << d.pending >>

StillWaits(d, e, sends) ==
  /\ e.inflight = d.inflight /\ e.pending = d.pending /\ e.late = d.late
  /\ e.outcomes = d.outcomes /\ e.box.seqs = d.box.seqs
  /\ \E repeat \in {<< >>, << d.inflight >>} :
       /\ Repeats(d, repeat)
       /\ e.retransmitted = (d.retransmitted \/ repeat # << >>)
       /\ sends = d.due \o repeat \o << >>

LetsPendingGo(d, e, pipelines, sends) ==
  /\ d.inflight = NoCommand \/ pipelines
  /\ Released(d, e)
  /\ \E repeat \in {<< >>, << d.inflight >>} :
       Repeats(d, repeat) /\ sends = d.due \o repeat \o << d.pending >>

LEMMA SettleIs ==
  ASSUME NEW C \in SUBSET Command, NEW d, Sound(C, d), d.inflight # NoCommand
  PROVE  LET e == Settle(d)
         IN  /\ e.inflight = NoCommand /\ e.pending = d.pending
             /\ d.late = NoCommand
             /\ d.pending = NoCommand =>
                  /\ e.late = d.inflight /\ e.box.seqs = d.box.seqs
                  /\ e.outcomes = Said(d.outcomes, d.inflight, "unanswered")
             /\ d.pending # NoCommand =>
                  /\ e.late = NoCommand /\ e.box.seqs = {}
                  /\ e.outcomes = Said(d.outcomes, d.inflight, "superseded")
<1> DEFINE idle == [d EXCEPT !.box = AfterTimeout(d.box), !.inflight = NoCommand,
                             !.age = 0, !.retransmitted = FALSE]
           e    == Settle(d)
<1>1. /\ d \in DriverOf(C) /\ InStep(d) /\ d.box \in Box /\ d.box.open = "waiting"
      /\ d.late = NoCommand /\ d.inflight \in C
      /\ "unanswered" \in Verdicts /\ "superseded" \in Verdicts /\ 0 \in 0 .. SettleAfter
      /\ (d.box.pending # "none") <=> (d.pending # NoCommand)
  BY DriverAssumption DEF Sound, DriverOf, InStep, Verdicts
<1>2. /\ AfterTimeout(d.box) \in Box
      /\ d.box.pending = "none" => TimeoutDecision(d.box) = "waitLate"
      /\ d.box.pending # "none" => TimeoutDecision(d.box) = "launchPending"
  BY <1>1, AfterTimeoutType
<1>3. /\ d.box.pending = "none" => AfterTimeout(d.box).seqs = d.box.seqs
      /\ d.box.pending # "none" => AfterTimeout(d.box).seqs = {}
  BY <1>1, <1>2 DEF AfterTimeout, SupersedeOpen, Box
<1>4. /\ idle \in DriverOf(C) /\ idle.box = AfterTimeout(d.box)
      /\ idle.inflight = NoCommand /\ idle.pending = d.pending /\ idle.late = d.late
      /\ idle.outcomes = d.outcomes
  BY <1>1, <1>2 DEF DriverOf
<1>5. CASE d.pending = NoCommand
  <2> DEFINE t == Tell(idle, d.inflight, "unanswered")
  <2>1. e = [t EXCEPT !.late = d.inflight]
    BY <1>1, <1>2, <1>5 DEF Settle
  <2> HIDE DEF idle, e
  <2>2. /\ t \in DriverOf(C) /\ t.outcomes = Said(idle.outcomes, d.inflight, "unanswered")
        /\ t.box = idle.box /\ t.inflight = idle.inflight /\ t.pending = idle.pending
    BY <1>1, <1>4, TellSays, TellIs
  <2> HIDE DEF t
  <2>3. /\ e.box = t.box /\ e.inflight = t.inflight /\ e.pending = t.pending
        /\ e.late = d.inflight /\ e.outcomes = t.outcomes
    BY <1>1, <2>1, <2>2 DEF DriverOf
  <2> QED
    BY <1>1, <1>3, <1>4, <1>5, <2>2, <2>3 DEF e
<1>6. CASE d.pending # NoCommand
  <2>1. e = Tell(idle, d.inflight, "superseded")
    BY <1>1, <1>2, <1>6 DEF Settle
  <2> HIDE DEF idle, e
  <2>2. /\ e.outcomes = Said(idle.outcomes, d.inflight, "superseded")
        /\ e.box = idle.box /\ e.inflight = idle.inflight /\ e.pending = idle.pending
        /\ e.late = idle.late
    BY <1>4, <2>1, TellIs
  <2> QED
    BY <1>1, <1>3, <1>4, <1>6, <2>2 DEF e
<1> QED
  BY <1>5, <1>6

LEMMA SettledOrRetransmittedIs ==
  ASSUME NEW C \in SUBSET Command, NEW d, Sound(C, d)
  PROVE  LET f == SettledOrRetransmitted(d)
         IN  \/ /\ d.inflight # NoCommand /\ f = Settle(d) /\ Retransmission(d) = << >>
             \/ /\ f.inflight = d.inflight /\ f.pending = d.pending /\ f.late = d.late
                /\ f.outcomes = d.outcomes /\ f.box = d.box
                /\ Retransmission(d) \in {<< >>, << d.inflight >>}
                /\ Repeats(d, Retransmission(d))
                /\ f.retransmitted = (d.retransmitted \/ Retransmission(d) # << >>)
<1> DEFINE f == SettledOrRetransmitted(d)
<1>0. d \in DriverOf(C)
  BY DEF Sound
<1>1. CASE Settles(d)
  BY <1>1 DEF SettledOrRetransmitted, Retransmission, RetransmitsNow, Settles
<1>2. CASE RetransmitsNow(d)
  <2>1. /\ d.inflight # NoCommand /\ d.inflight.kind = "tap" /\ ~d.retransmitted
        /\ Retransmission(d) = << d.inflight >> /\ << d.inflight >> # << >>
    BY <1>2 DEF RetransmitsNow, Retransmits, Retransmission
  <2>2. f = [d EXCEPT !.retransmitted = TRUE]
    BY <1>2 DEF SettledOrRetransmitted, RetransmitsNow
  <2> HIDE DEF f
  <2>3. /\ f.inflight = d.inflight /\ f.pending = d.pending /\ f.late = d.late
        /\ f.outcomes = d.outcomes /\ f.box = d.box /\ f.retransmitted = TRUE
    BY <1>0, <2>2 DEF DriverOf
  <2> QED
    BY <2>1, <2>3 DEF Repeats, f
<1>3. CASE ~Settles(d) /\ ~RetransmitsNow(d)
  <2>1. f = d /\ Retransmission(d) = << >>
    BY <1>3 DEF SettledOrRetransmitted, Retransmission
  <2>2. d.retransmitted \in BOOLEAN
    BY <1>0 DEF DriverOf
  <2> QED
    BY <2>1, <2>2 DEF Repeats
<1> QED
  BY <1>1, <1>2, <1>3

LEMMA TickIs ==
  ASSUME NEW C \in SUBSET Command, NEW d, Sound(C, d), NEW pipelines \in BOOLEAN,
         NEW hold \in Nat
  PROVE  LET e     == Tick(d, pipelines, hold)
             sends == TickSends(d, pipelines)
         IN  /\ e.due = << >>
             /\ \/ Settled(d, e, sends) \/ SettledForPending(d, e, sends)
                \/ StillWaits(d, e, sends) \/ LetsPendingGo(d, e, pipelines, sends)
<1> DEFINE f      == SettledOrRetransmitted(d)
           next   == [f EXCEPT !.due = << >>]
           e      == Tick(d, pipelines, hold)
           last   == IF Blocked(f, pipelines) THEN << >> ELSE Launched(f)
           repeat == Retransmission(d)
           sends  == TickSends(d, pipelines)
<1>1. Sound(C, f) /\ << >> \in Seq(C)
  BY SettledOrRetransmittedKeeps
<1>2. /\ e = IF Blocked(next, pipelines) THEN next ELSE AfterPending(next, hold)
      /\ sends = d.due \o repeat \o last
  BY DEF Tick, TickSends
<1>3. \/ /\ d.inflight # NoCommand /\ f = Settle(d) /\ repeat = << >>
      \/ /\ f.inflight = d.inflight /\ f.pending = d.pending /\ f.late = d.late
         /\ f.outcomes = d.outcomes /\ f.box = d.box
         /\ repeat \in {<< >>, << d.inflight >>}
         /\ Repeats(d, repeat)
         /\ f.retransmitted = (d.retransmitted \/ repeat # << >>)
  BY SettledOrRetransmittedIs
<1> HIDE DEF f, e, repeat, sends
<1>4. /\ next \in DriverOf(C) /\ next.box = f.box /\ next.inflight = f.inflight
      /\ next.pending = f.pending /\ next.late = f.late /\ next.outcomes = f.outcomes
      /\ next.retransmitted = f.retransmitted /\ next.due = << >>
  BY <1>1 DEF Sound, DriverOf
<1>5. Sound(C, next)
  BY <1>1, <1>4 DEF Sound, InStep
<1>6. /\ Blocked(next, pipelines) <=> Blocked(f, pipelines)
      /\ Launched(next) = Launched(f)
  BY <1>4 DEF Blocked, Launched, PendingGoes
<1> HIDE DEF next
<1>7. /\ e.due = << >>
      /\ \/ last = << f.pending >> /\ Released(f, e) /\ ~Blocked(f, pipelines)
         \/ last = << >> /\ Kept(f, e)
  <2>1. CASE Blocked(next, pipelines)
    BY <1>2, <1>4, <1>6, <2>1 DEF Kept
  <2>2. CASE ~Blocked(next, pipelines)
    <3>1. /\ e.due = next.due
          /\ \/ Launched(next) = << next.pending >> /\ Released(next, e)
             \/ Launched(next) = << >> /\ Kept(next, e)
      BY <1>2, <1>5, <2>2, AfterPendingIs
    <3> QED
      BY <1>4, <1>6, <2>2, <3>1 DEF Released, Kept
  <2> QED
    BY <2>1, <2>2
<1> HIDE DEF last
<1>8. ASSUME d.inflight # NoCommand /\ f = Settle(d) /\ repeat = << >>
      PROVE  Settled(d, e, sends) \/ SettledForPending(d, e, sends)
  <2>1. /\ f.inflight = NoCommand /\ f.pending = d.pending /\ d.late = NoCommand
        /\ d.pending = NoCommand =>
             /\ f.late = d.inflight /\ f.box.seqs = d.box.seqs
             /\ f.outcomes = Said(d.outcomes, d.inflight, "unanswered")
        /\ d.pending # NoCommand =>
             /\ f.late = NoCommand /\ f.box.seqs = {}
             /\ f.outcomes = Said(d.outcomes, d.inflight, "superseded")
    BY <1>8, SettleIs
  <2>2. CASE last = << >> /\ Kept(f, e)
    BY <1>2, <1>8, <2>1, <2>2 DEF Kept, Settled, SettledForPending
  <2>3. CASE last = << f.pending >> /\ Released(f, e)
    <3>1. e.outcomes = f.outcomes
      BY <2>1, <2>3 DEF Released, Said
    <3> QED
      BY <1>2, <1>8, <2>1, <2>3, <3>1 DEF Released, SettledForPending
  <2> QED
    BY <1>7, <2>2, <2>3
<1>9. ASSUME /\ f.inflight = d.inflight /\ f.pending = d.pending /\ f.late = d.late
             /\ f.outcomes = d.outcomes /\ f.box = d.box
             /\ repeat \in {<< >>, << d.inflight >>}
             /\ Repeats(d, repeat)
             /\ f.retransmitted = (d.retransmitted \/ repeat # << >>)
      PROVE  StillWaits(d, e, sends) \/ LetsPendingGo(d, e, pipelines, sends)
  <2>2. CASE last = << >> /\ Kept(f, e)
    BY <1>2, <1>9, <2>2 DEF Kept, StillWaits
  <2>3. CASE last = << f.pending >> /\ Released(f, e) /\ ~Blocked(f, pipelines)
    BY <1>2, <1>9, <2>3 DEF Released, LetsPendingGo, Blocked
  <2> QED
    BY <1>7, <2>2, <2>3
<1> QED
  BY <1>3, <1>7, <1>8, <1>9 DEF e, sends

=============================================================================
