--------------------------- MODULE SetPromiseProofs ---------------------------
(***************************************************************************)
(* SetSession implements LatestWins, for every value of the constants: the *)
(* drivers, their mailboxes, the queue, the clock and the network keep the *)
(* promise the operator is given about the SETs of an opcode.              *)
(* Then two histories: an acknowledged SET was heard, and a SET that left  *)
(* is followed up until a verdict on it or a rebuild.                      *)
(***************************************************************************)
EXTENDS SetWireProofs

(***************************************************************************)
(* The last thing said about a SET, by drivers D or else by what the shell *)
(* was told: the verdict that the promise is about.                        *)
(***************************************************************************)
VerdictIn(D, tale, id) ==
  LET from == {k \in Keys : About(D[k], id) # {}}
  IN  IF from = {} THEN tale[id] ELSE LastVerdict(D[CHOOSE k \in from : TRUE], id)

LEMMA VerdictIs ==
  /\ \A id : Verdict(id) = VerdictIn(driver, told, id)
  /\ \A D : TakeOutcomes(D) => told' = [id \in Ids |-> VerdictIn(D, told, id)]
BY DEF Verdict, VerdictIn, TakeOutcomes

LEMMA NoneTells ==
  ASSUME NEW D, NEW tale, NEW id, \A k \in Keys : About(D[k], id) = {}
  PROVE  VerdictIn(D, tale, id) = tale[id]
BY DEF VerdictIn

LEMMA OneTells ==
  ASSUME NEW D, NEW tale, NEW id, NEW k \in Keys, About(D[k], id) # {},
         \A j \in Keys \ {k} : About(D[j], id) = {}
  PROVE  VerdictIn(D, tale, id) = LastVerdict(D[k], id)
<1> DEFINE from == {j \in Keys : About(D[j], id) # {}}
<1>1. from = {k}
  OBVIOUS
<1>2. (CHOOSE j \in from : TRUE) = k
  BY <1>1
<1> QED
  BY <1>1, <1>2 DEF VerdictIn

(* A verdict more, at the end of the list, is the last one about its SET. *)
Adds(d, e, c, v) ==
  /\ \A id : c = NoCommand \/ id # c.id =>
       /\ About(e, id) = About(d, id)
       /\ About(d, id) # {} => LastVerdict(e, id) = LastVerdict(d, id)
  /\ c # NoCommand => About(e, c.id) # {} /\ LastVerdict(e, c.id) = v

LEMMA SaidIs ==
  ASSUME NEW S, NEW d, NEW e, d.outcomes \in Seq(S), NEW c, NEW v,
         e.outcomes = Said(d.outcomes, c, v)
  PROVE  Adds(d, e, c, v)
<1>1. CASE c = NoCommand
  BY <1>1 DEF Adds, Said, About, LastVerdict
<1>2. CASE c # NoCommand
  <2>r. PICK r : r = [id |-> c.id, verdict |-> v]
    OBVIOUS
  <2>q. PICK q : q = e.outcomes
    OBVIOUS
  <2>n. PICK n : n = Len(d.outcomes)
    OBVIOUS
  <2>1. q = Append(d.outcomes, r)
    BY <1>2, <2>r, <2>q DEF Said
  <2>2. /\ n \in Nat /\ DOMAIN d.outcomes = 1 .. n /\ DOMAIN q = 1 .. n + 1
        /\ \A i \in 1 .. n : q[i] = d.outcomes[i]
        /\ q[n + 1] = r
    <3>1. d.outcomes \in Seq(S \cup {r}) /\ r \in S \cup {r}
      OBVIOUS
    <3>2. Len(q) = n + 1 /\ q \in Seq(S \cup {r})
      BY <2>1, <2>n, <3>1
    <3> QED
      BY <2>1, <2>n, <3>1, <3>2
  <2>3. \A id : id # c.id => About(e, id) = About(d, id)
    <3> SUFFICES ASSUME NEW id, id # c.id
                 PROVE  About(e, id) = About(d, id)
      OBVIOUS
    <3>1. q[n + 1].id # id
      BY <2>2, <2>r
    <3> QED
      BY <2>2, <2>q, <3>1 DEF About
  <2>4. ASSUME NEW id, id # c.id, About(d, id) # {}
        PROVE  LastVerdict(e, id) = LastVerdict(d, id)
    <3>1. About(e, id) = About(d, id)
      BY <2>3, <2>4
    <3>m. PICK m : m = CHOOSE i \in About(d, id) : \A j \in About(d, id) : j <= i
      OBVIOUS
    <3>2. About(d, id) \in SUBSET (1 .. n)
      BY <2>2 DEF About
    <3>3. \E i \in About(d, id) : \A j \in About(d, id) : j <= i
      BY <2>2, <2>4, <3>2, HasMaximum
    <3>4. m \in About(d, id)
      BY <3>m, <3>3
    <3>5. q[m] = d.outcomes[m]
      BY <2>2, <3>2, <3>4
    <3>6. LastVerdict(e, id) = q[m].verdict /\ LastVerdict(d, id) = d.outcomes[m].verdict
      BY <2>q, <3>1, <3>m DEF LastVerdict
    <3> QED
      BY <3>5, <3>6
  <2>5. About(e, c.id) # {} /\ LastVerdict(e, c.id) = v
    <3>1. n + 1 \in About(e, c.id) /\ \A j \in About(e, c.id) : j <= n + 1
      BY <2>2, <2>q, <2>r DEF About
    <3>m. PICK m : m = CHOOSE i \in About(e, c.id) : \A j \in About(e, c.id) : j <= i
      OBVIOUS
    <3>2. m \in About(e, c.id) /\ \A j \in About(e, c.id) : j <= m
      BY <3>1, <3>m
    <3>3. m = n + 1
      <4>1. m \in Nat /\ m <= n + 1 /\ n + 1 <= m
        BY <2>2, <2>q, <3>1, <3>2 DEF About
      <4> QED
        BY <2>2, <4>1
    <3>4. LastVerdict(e, c.id) = q[m].verdict
      BY <2>q, <3>m DEF LastVerdict
    <3> QED
      BY <2>2, <2>r, <3>1, <3>3, <3>4
  <2> QED
    BY <1>2, <2>3, <2>4, <2>5 DEF Adds
<1> QED
  BY <1>1, <1>2

-----------------------------------------------------------------------------
(***************************************************************************)
(* Every step but a reopen brings the drivers to D, and then either leaves *)
(* what they have to say with them or tells it to the shell.               *)
(***************************************************************************)
SameInHand(d, e) ==
  e.pending = d.pending /\ e.inflight = d.inflight /\ e.late = d.late

SameSaid(d, e) == SameInHand(d, e) /\ e.outcomes = d.outcomes

Brings(D) ==
  /\ \A k \in Keys : D[k] \in DriverOf(Fired)
  /\ \A k \in Keys : SameInHand(D[k], driver'[k])
  /\ (driver' = D /\ told' = told) \/ TakeOutcomes(D)

(* How they get there: nothing is said or moved, or one opcode does one thing. *)
Rests(D) == fired' = fired /\ \A k \in Keys : SameSaid(driver[k], D[k])

NextId(command) == command.id = fired + 1 /\ fired' = fired + 1

FiresAndHolds(k, D) ==
  \E command \in Fired : /\ NextId(command)
                         /\ driver[k].late = NoCommand
                         /\ Holds(driver[k], D[k], command)

FiresAndLaunches(k, D) ==
  \E command \in Fired : /\ NextId(command)
                         /\ driver[k].inflight = NoCommand \/ k \in Pipelined
                         /\ PutsInFlight(driver[k], D[k], command)

Answers(k, D) ==
  /\ fired' = fired
  /\ \E answer \in answers : answer.key = k /\ IsAnswered(driver[k], D[k], answer.seq)
  /\ D[k].outcomes = Said(driver[k].outcomes, OpenOf(driver[k]),
                          IF driver[k].inflight # NoCommand THEN "acked" ELSE "ackedLate")

TicksOver(k, D) ==
  /\ fired' = fired
  /\ \E sends : \/ Settled(driver[k], D[k], sends)
                \/ SettledForPending(driver[k], D[k], sends)
                \/ LetsPendingGo(driver[k], D[k], k \in Pipelined, sends)

Changes(D) ==
  \/ Rests(D)
  \/ \E k \in Keys :
       /\ \A j \in Keys \ {k} : SameSaid(driver[j], D[j])
       /\ FiresAndHolds(k, D) \/ FiresAndLaunches(k, D) \/ Answers(k, D) \/ TicksOver(k, D)

LEMMA QuietChanges ==
  ASSUME IInv, IInv', Quiet \/ Dispatch
  PROVE  \E D : Brings(D) /\ Changes(D)
<1>1. \A k \in Keys : driver[k] \in DriverOf(Fired)
  BY DriversAre
<1>2. fired' = fired
  BY DEF Quiet, Dispatch, StartPoll, HandshakeReply, BeginTick, EndDispatch, KeepDatalink,
     Elapse, CameraHears, network, vars
<1>3. CASE BeginTick
  <2>1. TakeOutcomes(driver)
    BY <1>3 DEF BeginTick
  <2>2. \A k \in Keys : driver'[k] = [driver[k] EXCEPT !.outcomes = << >>]
    BY <2>1 DEF TakeOutcomes
  <2>3. \A k \in Keys : SameInHand(driver[k], driver'[k])
    BY <1>1, <2>2 DEF SameInHand, DriverOf
  <2>4. Brings(driver)
    BY <1>1, <2>1, <2>3 DEF Brings
  <2>5. Changes(driver)
    BY <1>2 DEF Changes, Rests, SameSaid, SameInHand
  <2> QED
    BY <2>4, <2>5
<1>4. ASSUME told' = told, \A k \in Keys : SameSaid(driver[k], driver'[k])
      PROVE  \E D : Brings(D) /\ Changes(D)
  <2>1. Brings(driver')
    BY <1>4 DEF Brings, SameInHand, IInv, DriversSound
  <2>2. Changes(driver')
    BY <1>2, <1>4 DEF Changes, Rests
  <2> QED
    BY <2>1, <2>2
<1>5. CASE Elapse
  <2>1. told' = told /\ \A k \in Keys : driver'[k] = Age(driver[k])
    BY <1>5 DEF Elapse
  <2>2. \A k \in Keys : SameSaid(driver[k], driver'[k])
    BY <1>1, <2>1 DEF SameSaid, SameInHand, DriverOf, Age
  <2> QED
    BY <1>4, <2>1, <2>2
<1>6. CASE Dispatch
  <2>1. driver \in [Keys -> DriverOf(Fired)] /\ told' = told
    BY <1>6, DriversAre DEF Dispatch
  <2>2. \A k \in Keys : driver'[k] = IF k = Head(queue).key
                                     THEN [driver[k] EXCEPT !.box = NoteTransmit(@, nextSeq)]
                                     ELSE driver[k]
    BY <1>6, <2>1 DEF Dispatch
  <2>3. \A k \in Keys : SameSaid(driver[k], driver'[k])
    BY <1>1, <2>2 DEF SameSaid, SameInHand, DriverOf
  <2> QED
    BY <1>4, <2>1, <2>3
<1>7. CASE UNCHANGED <<driver, told>>
  BY <1>4, <1>7 DEF SameSaid, SameInHand
<1> QED
  BY <1>3, <1>5, <1>6, <1>7 DEF Quiet, StartPoll, HandshakeReply, EndDispatch, KeepDatalink,
     CameraHears, vars

LEMMA StepChanges ==
  ASSUME IInv, [Next]_vars
  PROVE  Reopen \/ \E D : Brings(D) /\ Changes(D)
<1>i. IInv'
  BY StepSound
<1>0. /\ \A k \in Keys : driver'[k] \in DriverOf(Fired)
      /\ driver \in [Keys -> DriverOf(Fired)]
      /\ \A k \in Keys : Sound(Fired, driver[k]) /\ driver[k] \in DriverOf(Fired)
  BY <1>i, DriversAre DEF IInv, DriversSound
<1>1. ASSUME NEW k \in Keys, NEW kind \in KindsOf(k), Fire(k, kind)
      PROVE  Brings(driver') /\ Changes(driver')
  <2>c. PICK command : command = [id |-> fired + 1, kind |-> kind]
    OBVIOUS
  <2>1. /\ command \in Fired /\ command.id = fired + 1 /\ fired' = fired + 1 /\ told' = told
        /\ \A j \in Keys \ {k} : driver'[j] = driver[j]
        /\ \/ /\ Holds(driver[k], driver'[k], command)
              /\ driver[k].late = NoCommand
           \/ /\ PutsInFlight(driver[k], driver'[k], command)
              /\ driver[k].inflight = NoCommand \/ k \in Pipelined
    BY <1>1, <2>c, FireIs
  <2>2. Brings(driver')
    BY <1>0, <2>1 DEF Brings, SameInHand
  <2>3. \A j \in Keys \ {k} : SameSaid(driver[j], driver'[j])
    BY <2>1 DEF SameSaid, SameInHand
  <2>4. FiresAndHolds(k, driver') \/ FiresAndLaunches(k, driver')
    BY <2>1 DEF FiresAndHolds, FiresAndLaunches, NextId
  <2> QED
    BY <2>2, <2>3, <2>4 DEF Changes
<1>2. ASSUME NEW answer \in answers, Receive(answer)
      PROVE  \E D : Brings(D) /\ Changes(D)
  <2> DEFINE key == answer.key
  <2>d. PICK D : D = [driver EXCEPT ![key] = Reply(@, answer.seq, Hold(key))]
    OBVIOUS
  <2>1. key \in Keys /\ answer.seq \in SeqNo /\ Hold(key) \in Nat
    BY DriversAre, HoldType DEF Typed, Answer
  <2>2. TakeOutcomes(D) /\ fired' = fired
    BY <1>2, <2>d DEF Receive
  <2>3. /\ \A j \in Keys \ {key} : D[j] = driver[j]
        /\ D[key] = Reply(driver[key], answer.seq, Hold(key))
    BY <1>0, <2>1, <2>d
  <2>4. \A j \in Keys : D[j] \in DriverOf(Fired)
    <3>1. D[key] \in DriverOf(Fired)
      BY <1>0, <2>1, <2>3, FiredCommands, ReplyKeeps DEF Sound
    <3> QED
      BY <1>0, <2>3, <3>1
  <2>5. \A j \in Keys : driver'[j] = [D[j] EXCEPT !.outcomes = << >>]
    BY <2>2 DEF TakeOutcomes
  <2>6. \A j \in Keys : SameInHand(D[j], driver'[j])
    BY <2>4, <2>5 DEF SameInHand, DriverOf
  <2>7. \A j \in Keys \ {key} : SameSaid(driver[j], D[j])
    BY <2>3 DEF SameSaid, SameInHand
  <2>8. SameSaid(driver[key], D[key]) \/ Answers(key, D)
    <3>1. PICK d : d = driver[key] /\ Sound(Fired, d)
      BY <1>0, <2>1
    <3>2. PICK e : e = Reply(d, answer.seq, Hold(key))
      OBVIOUS
    <3>3. \/ e = d
          \/ /\ IsAnswered(d, e, answer.seq)
             /\ e.outcomes = Said(d.outcomes, OpenOf(d),
                                  IF d.inflight # NoCommand THEN "acked" ELSE "ackedLate")
      BY <2>1, <3>1, <3>2, FiredCommands, ReplyIs
    <3> QED
      BY <2>2, <2>3, <3>1, <3>2, <3>3 DEF Answers, SameSaid, SameInHand
  <2>9. Brings(D)
    BY <2>2, <2>4, <2>6 DEF Brings
  <2>10. Changes(D)
    <3>1. CASE SameSaid(driver[key], D[key])
      BY <2>2, <2>7, <3>1 DEF Changes, Rests
    <3>2. CASE Answers(key, D)
      BY <2>1, <2>7, <3>2 DEF Changes
    <3> QED
      BY <2>8, <3>1, <3>2
  <2> QED
    BY <2>9, <2>10
<1>3. ASSUME NEW k \in Keys, TickKey(k)
      PROVE  Brings(driver') /\ Changes(driver')
  <2>1. /\ told' = told /\ fired' = fired
        /\ \A j \in Keys \ {k} : driver'[j] = driver[j]
        /\ \E sends : Ticks(driver[k], driver'[k], k \in Pipelined, sends)
    BY <1>3, TickKeyIs
  <2>2. Brings(driver')
    BY <1>0, <2>1 DEF Brings, SameInHand
  <2>3. \A j \in Keys \ {k} : SameSaid(driver[j], driver'[j])
    BY <2>1 DEF SameSaid, SameInHand
  <2>4. PICK sends : Ticks(driver[k], driver'[k], k \in Pipelined, sends)
    BY <2>1
  <2>5. CASE StillWaits(driver[k], driver'[k], sends)
    <3>1. SameSaid(driver[k], driver'[k])
      BY <2>5 DEF StillWaits, SameSaid, SameInHand
    <3> QED
      BY <2>1, <2>2, <2>3, <3>1 DEF Changes, Rests
  <2>6. CASE \/ Settled(driver[k], driver'[k], sends)
             \/ SettledForPending(driver[k], driver'[k], sends)
             \/ LetsPendingGo(driver[k], driver'[k], k \in Pipelined, sends)
    <3>1. TicksOver(k, driver')
      BY <2>1, <2>6 DEF TicksOver
    <3> QED
      BY <2>2, <2>3, <3>1 DEF Changes
  <2> QED
    BY <2>4, <2>5, <2>6 DEF Ticks
<1> QED
  BY <1>i, <1>1, <1>2, <1>3, QuietChanges, StepIsOneOf

-----------------------------------------------------------------------------
(***************************************************************************)
(* What a step says, and what that does to the verdicts.                   *)
(***************************************************************************)
LEMMA VerdictAfter ==
  ASSUME IInv, NEW D, Brings(D)
  PROVE  /\ \A id \in Ids : Verdict(id)' = VerdictIn(D, told, id)
         /\ \A k \in Keys : \A id : About(driver'[k], id) # {} =>
              About(D[k], id) # {} /\ told' = told
         /\ \A id \in Ids : told'[id] = told[id] \/ told'[id] = VerdictIn(D, told, id)
         /\ \A k \in Keys : Tracked(driver'[k]) = Tracked(D[k])
<1>0. \A k \in Keys : Tracked(driver'[k]) = Tracked(D[k])
  BY DEF Brings, SameInHand, Tracked
<1>1. CASE driver' = D /\ told' = told
  <2>1. \A id : Verdict(id)' = VerdictIn(D, told, id)
    BY <1>1 DEF Verdict, VerdictIn
  <2> QED
    BY <1>0, <1>1, <2>1
<1>2. CASE TakeOutcomes(D)
  <2>1. told' = [id \in Ids |-> VerdictIn(D, told, id)]
    BY <1>2, VerdictIs
  <2>2. \A k \in Keys : driver'[k] = [D[k] EXCEPT !.outcomes = << >>]
    BY <1>2 DEF TakeOutcomes
  <2>3. \A k \in Keys : driver'[k].outcomes = << >>
    BY <2>2 DEF Brings, DriverOf
  <2>4. \A k \in Keys : \A id : About(driver'[k], id) = {}
    BY <2>3 DEF About
  <2>5. \A id : Verdict(id)' = told'[id]
    BY <2>4 DEF Verdict
  <2> QED
    BY <1>0, <2>1, <2>4, <2>5
<1> QED
  BY <1>1, <1>2 DEF Brings

(* What is said is only said of the one SET. *)
LEMMA VerdictSaid ==
  ASSUME IInv, Apart, NEW k \in Keys, NEW D,
         \A j \in Keys \ {k} : SameSaid(driver[j], D[j]),
         NEW c, c # NoCommand => c.id \in Tracked(driver[k]),
         NEW v, D[k].outcomes = Said(driver[k].outcomes, c, v), NEW id \in Ids
  PROVE  VerdictIn(D, told, id) = IF c # NoCommand /\ id = c.id THEN v ELSE Verdict(id)
<1>1. Adds(driver[k], D[k], c, v)
  <2>1. driver[k].outcomes \in Seq(OutcomeOf(Fired))
    BY DriversAre DEF DriverOf
  <2> QED
    BY <2>1, SaidIs
<1>2. \A j \in Keys \ {k} : /\ About(D[j], id) = About(driver[j], id)
                            /\ LastVerdict(D[j], id) = LastVerdict(driver[j], id)
  BY DEF SameSaid, About, LastVerdict
<1>3. Verdict(id) = VerdictIn(driver, told, id)
  BY VerdictIs
<1>4. CASE c # NoCommand /\ id = c.id
  <2>1. Known(driver[k], id)
    BY <1>4 DEF Known
  <2>2. \A j \in Keys \ {k} : About(D[j], id) = {}
    BY <1>2, <2>1, KnownOnce DEF Known
  <2> QED
    <3>1. About(D[k], id) # {} /\ LastVerdict(D[k], id) = v
      BY <1>1, <1>4 DEF Adds
    <3>2. VerdictIn(D, told, id) = LastVerdict(D[k], id)
      BY <2>2, <3>1, OneTells
    <3> QED
      BY <1>4, <3>1, <3>2
<1>5. CASE c = NoCommand \/ id # c.id
  <2>1. \A j \in Keys : /\ About(D[j], id) = About(driver[j], id)
                        /\ About(driver[j], id) # {} =>
                             LastVerdict(D[j], id) = LastVerdict(driver[j], id)
    BY <1>1, <1>2, <1>5 DEF Adds
  <2>2. CASE \E j \in Keys : About(driver[j], id) # {}
    <3>1. PICK j \in Keys : About(driver[j], id) # {}
      BY <2>2
    <3>2. \A i \in Keys \ {j} : About(driver[i], id) = {}
      BY <3>1, KnownOnce DEF Known
    <3>3. Verdict(id) = LastVerdict(driver[j], id)
      BY <1>3, <3>1, <3>2, OneTells
    <3>4. VerdictIn(D, told, id) = LastVerdict(D[j], id)
      <4>1. About(D[j], id) # {} /\ \A i \in Keys \ {j} : About(D[i], id) = {}
        BY <2>1, <3>1, <3>2
      <4> QED
        BY <4>1, OneTells
    <3> QED
      BY <1>5, <2>1, <3>1, <3>3, <3>4
  <2>3. CASE \A j \in Keys : About(driver[j], id) = {}
    <3>1. Verdict(id) = told[id]
      BY <1>3, <2>3, NoneTells
    <3>2. VerdictIn(D, told, id) = told[id]
      BY <2>1, <2>3, NoneTells
    <3> QED
      BY <1>5, <3>1, <3>2
  <2> QED
    BY <2>2, <2>3
<1> QED
  BY <1>4, <1>5

LEMMA VerdictRests ==
  ASSUME NEW D, \A k \in Keys : SameSaid(driver[k], D[k]), NEW id
  PROVE  VerdictIn(D, told, id) = Verdict(id)
<1>1. \A k \in Keys : /\ About(D[k], id) = About(driver[k], id)
                      /\ LastVerdict(D[k], id) = LastVerdict(driver[k], id)
  BY DEF SameSaid, About, LastVerdict
<1>2. {k \in Keys : About(D[k], id) # {}} = {k \in Keys : About(driver[k], id) # {}}
  BY <1>1
<1>3. CASE {k \in Keys : About(driver[k], id) # {}} = {}
  BY <1>2, <1>3 DEF VerdictIn, Verdict
<1>4. CASE {k \in Keys : About(driver[k], id) # {}} # {}
  <2>k. PICK k : k = CHOOSE j \in {i \in Keys : About(driver[i], id) # {}} : TRUE
    OBVIOUS
  <2>1. k \in Keys
    BY <1>4, <2>k
  <2>2. Verdict(id) = LastVerdict(driver[k], id)
    BY <1>4, <2>k DEF Verdict
  <2>3. VerdictIn(D, told, id) = LastVerdict(D[k], id)
    BY <1>2, <1>4, <2>k DEF VerdictIn
  <2> QED
    BY <1>1, <2>1, <2>2, <2>3
<1> QED
  BY <1>3, <1>4

-----------------------------------------------------------------------------
(***************************************************************************)
(* A verdict stands.  Nothing is said of a SET before it is fired, and the *)
(* only verdict that is ever revised is "unanswered": a SET in a driver's  *)
(* hands has none of the others, and neither has one about which a driver  *)
(* has something to say that the shell was not told yet.                   *)
(***************************************************************************)
Tentative == {"nothing", "unanswered"}

VerdictsStand ==
  /\ \A id \in Ids : id > fired => told[id] = "nothing"
  /\ \A k \in Keys : \A id \in Ids :
       /\ About(driver[k], id) # {} => told[id] \in Tentative
       /\ id \in Tracked(driver[k]) => Verdict(id) \in Tentative

LEMMA KnownWasFired ==
  ASSUME IInv, Apart, NEW k \in Keys, NEW id \in Ids, Known(driver[k], id)
  PROVE  id <= fired
<1>1. PICK share \in [Keys -> SUBSET (1 .. fired)] : SharedOut(share)
  BY DEF Apart
<1>2. id \in Nat \ {0}
  BY FiredCommands
<1>3. Sound(Of(share[k]), driver[k])
  BY <1>1 DEF SharedOut
<1>4. \E c \in Of(share[k]) : c.id = id
  BY <1>2, <1>3, OfIsCommands, KnowsItsOwn
<1> QED
  BY <1>1, <1>4 DEF Of

Acks == {"acked", "ackedLate"}

(* What is said of a SET in hand is "unanswered", or it is out of hand, and *)
(* only an answer makes it an acknowledgement, of what was open.            *)
Speaks(k, D, c, v) ==
  /\ v \in Acks => Answers(k, D) /\ c = OpenOf(driver[k])
  /\ c # NoCommand => c \in Fired /\ c.id \in Tracked(driver[k])
  /\ D[k].outcomes = Said(driver[k].outcomes, c, v)
  /\ c # NoCommand /\ c.id \in Tracked(D[k]) => v \in Tentative
  /\ \A id \in Ids : id \in Tracked(D[k]) =>
       id \in Tracked(driver[k]) \/ (id = fired + 1 /\ fired' = fired + 1)

LEMMA ChangeSays ==
  ASSUME IInv, Apart, InOrder, NEW k \in Keys, NEW D,
         FiresAndHolds(k, D) \/ FiresAndLaunches(k, D) \/ Answers(k, D) \/ TicksOver(k, D)
  PROVE  \E c, v : Speaks(k, D, c, v)
<1>d. PICK d : d = driver[k]
  OBVIOUS
<1>e. PICK e : e = D[k]
  OBVIOUS
<1>0. /\ d \in DriverOf(Fired) /\ Sound(Fired, d) /\ fired \in Nat
      /\ d.inflight \in Fired \cup {NoCommand} /\ d.pending \in Fired \cup {NoCommand}
      /\ d.late \in Fired \cup {NoCommand}
      /\ d.inflight # NoCommand /\ d.pending # NoCommand => d.inflight.id < d.pending.id
  BY <1>d, DriversAre, SessionAssumption DEF DriverOf, InOrder, DriverAhead, Typed
<1>1. /\ d.inflight.id \in Nat /\ d.pending.id \in Nat /\ d.late.id \in Nat
      /\ \A c \in Fired : c.id \in Nat \ {0} /\ c.id \in Ids
      /\ NoCommand.id = 0 /\ 0 \notin Ids
  BY <1>0, FiredCommands, FiredIds DEF NoCommand, Fired
<1>2. /\ d.late # NoCommand => d.inflight = NoCommand /\ d.pending = NoCommand
      /\ OpenOf(d) \in Fired \cup {NoCommand} /\ OpenOf(d).id \in Tracked(d)
  BY <1>0 DEF Sound, InStep, OpenOf, Tracked
<1>3. CASE FiresAndHolds(k, D)
  <2>1. Speaks(k, D, NoCommand, "nothing")
    BY <1>1, <1>d, <1>e, <1>3 DEF FiresAndHolds, NextId, Holds, Speaks, Said, Tracked, Acks
  <2> QED
    BY <2>1
<1>4. CASE FiresAndLaunches(k, D)
  <2>1. /\ e.outcomes = Said(d.outcomes, OpenOf(d), "superseded")
        /\ Tracked(e) = {0, fired + 1} /\ fired' = fired + 1
    BY <1>1, <1>e, <1>d, <1>4 DEF FiresAndLaunches, NextId, PutsInFlight, Tracked
  <2>2. OpenOf(d) # NoCommand => OpenOf(d).id <= fired
    <3>1. OpenOf(d) # NoCommand => OpenOf(d).id \in Ids /\ Known(driver[k], OpenOf(d).id)
      BY <1>d, <1>1, <1>2 DEF Known
    <3> QED
      BY <3>1, KnownWasFired
  <2>3. OpenOf(d) # NoCommand => OpenOf(d).id \notin Tracked(e)
    <3>1. OpenOf(d) # NoCommand => OpenOf(d).id \in Nat \ {0}
      BY <1>1, <1>2
    <3> QED
      BY <1>0, <2>1, <2>2, <3>1
  <2>4. \A id \in Ids : id \in Tracked(e) => id = fired + 1
    BY <1>1, <2>1
  <2>5. Speaks(k, D, OpenOf(d), "superseded")
    BY <1>d, <1>e, <1>2, <2>1, <2>3, <2>4 DEF Speaks, Acks
  <2> QED
    BY <2>5
<1>5. ASSUME NEW c \in {d.inflight, OpenOf(d)}, NEW v,
             e.outcomes = Said(d.outcomes, c, v),
             v \in Acks => Answers(k, D) /\ c = OpenOf(d),
             e.late = NoCommand,
             \A i \in {e.inflight, e.pending} : i \in {NoCommand, d.pending}
      PROVE  Speaks(k, D, c, v)
  <2>1. \A id \in Tracked(e) : id = 0 \/ (id = d.pending.id /\ d.pending # NoCommand)
    BY <1>1, <1>5 DEF Tracked
  <2>2. c # NoCommand => /\ c \in Fired /\ c.id \in Tracked(d) /\ c.id # 0
                         /\ d.pending # NoCommand => c.id < d.pending.id
    BY <1>0, <1>1, <1>2, <1>5 DEF OpenOf, Tracked
  <2>3. c # NoCommand => c.id \notin Tracked(e)
    BY <1>1, <2>1, <2>2
  <2>4. \A id \in Ids : id \in Tracked(e) => id \in Tracked(d)
    BY <1>1, <2>1 DEF Tracked
  <2> QED
    BY <1>5, <1>d, <1>e, <2>2, <2>3, <2>4 DEF Speaks
<1>6. CASE Answers(k, D)
  <2>v. PICK v : e.outcomes = Said(d.outcomes, OpenOf(d), v)
    BY <1>6, <1>d, <1>e DEF Answers
  <2>1. PICK seq : IsAnswered(d, e, seq)
    BY <1>6, <1>d, <1>e DEF Answers
  <2>2. Speaks(k, D, OpenOf(d), v)
    BY <1>5, <1>6, <2>v, <2>1 DEF IsAnswered
  <2> QED
    BY <2>2
<1>7. CASE TicksOver(k, D)
  <2>1. PICK sends : \/ Settled(d, e, sends) \/ SettledForPending(d, e, sends)
                     \/ LetsPendingGo(d, e, k \in Pipelined, sends)
    BY <1>7, <1>d, <1>e DEF TicksOver
  <2>2. CASE Settled(d, e, sends)
    <3>1. Speaks(k, D, d.inflight, "unanswered")
      BY <1>0, <1>1, <1>d, <1>e, <2>2 DEF Settled, Speaks, Tracked, Tentative, Acks
    <3> QED
      BY <3>1
  <2>3. CASE SettledForPending(d, e, sends)
    <3>1. Speaks(k, D, d.inflight, "superseded")
      BY <1>5, <2>3 DEF SettledForPending, Acks
    <3> QED
      BY <3>1
  <2>4. CASE LetsPendingGo(d, e, k \in Pipelined, sends)
    <3>1. Speaks(k, D, d.inflight, "superseded")
      BY <1>5, <2>4 DEF LetsPendingGo, Released, Acks
    <3> QED
      BY <3>1
  <2> QED
    BY <2>1, <2>2, <2>3, <2>4
<1> QED
  BY <1>3, <1>4, <1>6, <1>7

LEMMA ChangeStands ==
  ASSUME IInv, Apart, InOrder, VerdictsStand, NEW D, Brings(D), Changes(D)
  PROVE  VerdictsStand'
<1>0. /\ \A id \in Ids : Verdict(id)' = VerdictIn(D, told, id)
      /\ \A k \in Keys : \A id : About(driver'[k], id) # {} =>
           About(D[k], id) # {} /\ told' = told
      /\ \A id \in Ids : told'[id] = told[id] \/ told'[id] = VerdictIn(D, told, id)
      /\ \A k \in Keys : Tracked(driver'[k]) = Tracked(D[k])
  BY VerdictAfter
<1>n. /\ fired \in Nat /\ \A id \in Ids : id \in Nat
  BY DriversAre, SessionAssumption, FiredCommands DEF Typed
<1>1. ASSUME NEW id \in Ids, id > fired
      PROVE  (\A k \in Keys : ~Known(driver[k], id)) /\ Verdict(id) = "nothing"
  <2>1. \A k \in Keys : ~Known(driver[k], id)
    BY <1>1, <1>n, KnownWasFired
  <2>2. Verdict(id) = told[id]
    BY <2>1, VerdictIs, NoneTells DEF Known
  <2> QED
    BY <1>1, <2>1, <2>2 DEF VerdictsStand
<1>2. ASSUME NEW k \in Keys, NEW id \in Ids, Known(driver[k], id)
      PROVE  About(driver[k], id) # {} \/ Verdict(id) = told[id]
  <2>1. \A j \in Keys \ {k} : About(driver[j], id) = {}
    BY <1>2, KnownOnce DEF Known
  <2>2. About(driver[k], id) = {} => \A j \in Keys : About(driver[j], id) = {}
    BY <2>1
  <2> QED
    BY <2>2, VerdictIs, NoneTells
<1>3. ASSUME NEW k \in Keys, NEW id \in Ids, id \in Tracked(driver[k])
      PROVE  told[id] \in Tentative
  BY <1>2, <1>3 DEF Known, VerdictsStand
<1>4. CASE Rests(D)
  <2>1. \A id : VerdictIn(D, told, id) = Verdict(id)
    BY <1>4, VerdictRests DEF Rests
  <2>2. \A k \in Keys : /\ Tracked(D[k]) = Tracked(driver[k])
                        /\ \A id : About(D[k], id) = About(driver[k], id)
    BY <1>4 DEF Rests, SameSaid, SameInHand, Tracked, About
  <2>3. \A id \in Ids : id > fired' => told'[id] = "nothing"
    BY <1>0, <1>1, <1>4, <2>1 DEF Rests, VerdictsStand
  <2>4. \A k \in Keys : \A id \in Ids : About(driver'[k], id) # {} => told'[id] \in Tentative
    BY <1>0, <2>2 DEF VerdictsStand
  <2>5. \A k \in Keys : \A id \in Ids : id \in Tracked(driver'[k]) => Verdict(id)' \in Tentative
    BY <1>0, <2>1, <2>2 DEF VerdictsStand
  <2> QED
    BY <2>3, <2>4, <2>5 DEF VerdictsStand
<1>5. ASSUME NEW k \in Keys, \A j \in Keys \ {k} : SameSaid(driver[j], D[j]),
             FiresAndHolds(k, D) \/ FiresAndLaunches(k, D) \/ Answers(k, D) \/ TicksOver(k, D)
      PROVE  VerdictsStand'
  <2>1. PICK c, v : Speaks(k, D, c, v)
    BY <1>5, ChangeSays
  <2>2. /\ c # NoCommand => c \in Fired /\ c.id \in Ids /\ c.id \in Tracked(driver[k])
        /\ D[k].outcomes = Said(driver[k].outcomes, c, v)
    BY <2>1, FiredIds DEF Speaks
  <2>3. \A id \in Ids :
          VerdictIn(D, told, id) = IF c # NoCommand /\ id = c.id THEN v ELSE Verdict(id)
    BY <1>5, <2>2, VerdictSaid
  <2>4. fired' \in {fired, fired + 1}
    BY <1>5 DEF FiresAndHolds, FiresAndLaunches, Answers, TicksOver, NextId
  <2>5. ASSUME NEW id \in Ids, id > fired'
        PROVE  told'[id] = "nothing"
    <3>1. id > fired
      BY <1>n, <2>4, <2>5
    <3>2. ~(c # NoCommand /\ id = c.id)
      BY <1>1, <2>2, <3>1 DEF Known
    <3> QED
      BY <1>0, <1>1, <2>3, <3>1, <3>2 DEF VerdictsStand
  <2>6. ASSUME NEW j \in Keys, NEW id \in Ids, About(driver'[j], id) # {}
        PROVE  told'[id] \in Tentative
    <3>1. told' = told /\ About(D[j], id) # {}
      BY <1>0, <2>6
    <3>2. CASE j # k
      <4>1. About(D[j], id) = About(driver[j], id)
        BY <1>5, <3>2 DEF SameSaid, About
      <4> QED
        BY <3>1, <4>1 DEF VerdictsStand
    <3>3. CASE j = k /\ c # NoCommand /\ id = c.id
      BY <1>3, <2>2, <3>1, <3>3
    <3>4. CASE j = k /\ ~(c # NoCommand /\ id = c.id)
      <4>1. driver[k].outcomes \in Seq(OutcomeOf(Fired))
        BY DriversAre DEF DriverOf
      <4>2. Adds(driver[k], D[k], c, v)
        BY <2>2, <4>1, SaidIs
      <4>3. About(D[k], id) = About(driver[k], id)
        BY <3>4, <4>2 DEF Adds
      <4> QED
        BY <3>1, <3>4, <4>3 DEF VerdictsStand
    <3> QED
      BY <3>2, <3>3, <3>4
  <2>7. ASSUME NEW j \in Keys, NEW id \in Ids, id \in Tracked(driver'[j])
        PROVE  Verdict(id)' \in Tentative
    <3>1. id \in Tracked(D[j]) /\ Verdict(id)' = VerdictIn(D, told, id)
      BY <1>0, <2>7
    <3>2. j # k => id \in Tracked(driver[j])
      BY <1>5, <3>1 DEF SameSaid, SameInHand, Tracked
    <3>3. CASE c # NoCommand /\ id = c.id
      <4>1. j = k
        BY <2>2, <3>2, <3>3, KnownOnce DEF Known
      <4>2. v \in Tentative
        BY <2>1, <3>1, <3>3, <4>1 DEF Speaks
      <4> QED
        BY <2>3, <3>1, <3>3, <4>2
    <3>4. CASE ~(c # NoCommand /\ id = c.id)
      <4>1. VerdictIn(D, told, id) = Verdict(id)
        BY <2>3, <3>4
      <4>2. id \in Tracked(driver[j]) \/ id = fired + 1
        BY <2>1, <3>1, <3>2 DEF Speaks
      <4>3. id = fired + 1 => Verdict(id) = "nothing"
        BY <1>1, <1>n
      <4> QED
        BY <3>1, <4>1, <4>2, <4>3 DEF VerdictsStand, Tentative
    <3> QED
      BY <3>3, <3>4
  <2> QED
    BY <2>5, <2>6, <2>7 DEF VerdictsStand
<1> QED
  BY <1>4, <1>5 DEF Changes

LEMMA StepStands == IInv /\ Apart /\ InOrder /\ VerdictsStand /\ [Next]_vars => VerdictsStand'
<1> SUFFICES ASSUME IInv, Apart, InOrder, VerdictsStand, [Next]_vars
             PROVE  VerdictsStand'
  OBVIOUS
<1>1. CASE Reopen
  <2>1. /\ fired' = fired /\ told' = told
        /\ \A k \in Keys : driver'[k].outcomes = << >> /\ Tracked(driver'[k]) = {0}
    BY <1>1, ReopenIs DEF FreshDriver, NoCommand, Tracked
  <2>2. \A k \in Keys : \A id : About(driver'[k], id) = {}
    BY <2>1 DEF About
  <2>3. 0 \notin Ids
    BY FiredCommands
  <2> QED
    BY <2>1, <2>2, <2>3 DEF VerdictsStand
<1>2. ASSUME NEW D, Brings(D), Changes(D)
      PROVE  VerdictsStand'
  BY <1>2, ChangeStands
<1> QED
  BY <1>1, <1>2, StepChanges

LEMMA AlwaysStands == Spec => []VerdictsStand
<1>1. Init => VerdictsStand
  <2> SUFFICES ASSUME Init
               PROVE  VerdictsStand
    OBVIOUS
  <2>1. /\ \A id \in Ids : told[id] = "nothing"
        /\ \A k \in Keys : driver[k].outcomes = << >> /\ Tracked(driver[k]) = {0}
    BY DEF Init, FreshDriver, NoCommand, Tracked
  <2>2. \A k \in Keys : \A id : About(driver[k], id) = {}
    BY <2>1 DEF About
  <2>3. 0 \notin Ids
    BY FiredCommands
  <2> QED
    BY <2>1, <2>2, <2>3 DEF VerdictsStand
<1> QED
  BY <1>1, AlwaysSound, AlwaysApart, AlwaysInOrder, StepStands, PTL DEF Spec

-----------------------------------------------------------------------------
(***************************************************************************)
(* The refinement.  What the promise is about, as the drivers have it.     *)
(***************************************************************************)
HeldIds == [k \in Keys |-> driver[k].pending.id]

OpenIds == [k \in Keys |-> driver[k].inflight.id]

LateIds == [k \in Keys |-> driver[k].late.id]

VerdictOf == [id \in Ids |-> Verdict(id)]

Moves(k, h, o, l) ==
  /\ HeldIds' = [HeldIds EXCEPT ![k] = h]
  /\ OpenIds' = [OpenIds EXCEPT ![k] = o]
  /\ LateIds' = [LateIds EXCEPT ![k] = l]

LEMMA MapIs ==
  \A k \in Keys : /\ HeldIds[k] = driver[k].pending.id
                  /\ OpenIds[k] = driver[k].inflight.id
                  /\ LateIds[k] = driver[k].late.id
BY DEF HeldIds, OpenIds, LateIds

LEMMA HandsMove ==
  ASSUME NEW D, Brings(D), NEW k \in Keys, \A j \in Keys \ {k} : SameSaid(driver[j], D[j])
  PROVE  Moves(k, D[k].pending.id, D[k].inflight.id, D[k].late.id)
<1>1. \A j \in Keys : /\ driver'[j].pending = D[j].pending
                      /\ driver'[j].inflight = D[j].inflight
                      /\ driver'[j].late = D[j].late
  BY DEF Brings, SameInHand
<1>2. \A j \in Keys \ {k} : /\ driver'[j].pending = driver[j].pending
                            /\ driver'[j].inflight = driver[j].inflight
                            /\ driver'[j].late = driver[j].late
  BY <1>1 DEF SameSaid, SameInHand
<1>3. HeldIds' = [HeldIds EXCEPT ![k] = D[k].pending.id]
  BY <1>1, <1>2 DEF HeldIds
<1>4. OpenIds' = [OpenIds EXCEPT ![k] = D[k].inflight.id]
  BY <1>1, <1>2 DEF OpenIds
<1>5. LateIds' = [LateIds EXCEPT ![k] = D[k].late.id]
  BY <1>1, <1>2 DEF LateIds
<1> QED
  BY <1>3, <1>4, <1>5 DEF Moves

(* Saying v of one command, as the promise has it. *)
LEMMA VerdictMoves ==
  ASSUME IInv, Apart, NEW D, Brings(D), NEW k \in Keys,
         \A j \in Keys \ {k} : SameSaid(driver[j], D[j]),
         NEW c \in Fired \cup {NoCommand}, c.id \in Tracked(driver[k]),
         NEW v, D[k].outcomes = Said(driver[k].outcomes, c, v)
  PROVE  VerdictOf' = [id \in Ids |-> IF id \in {c.id} \ {0} THEN v ELSE VerdictOf[id]]
<1>1. \A id \in Ids : Verdict(id)' = VerdictIn(D, told, id)
  BY VerdictAfter
<1>2. \A id \in Ids :
        VerdictIn(D, told, id) = IF c # NoCommand /\ id = c.id THEN v ELSE Verdict(id)
  BY VerdictSaid
<1>3. \A id \in Ids : (c # NoCommand /\ id = c.id) <=> id \in {c.id} \ {0}
  BY FiredCommands, FiredIds DEF NoCommand
<1> QED
  BY <1>1, <1>2, <1>3 DEF VerdictOf

(* The promise's actions, in these terms. *)
LEMMA PromisedSteps ==
  ASSUME NEW k \in Keys, NEW h, NEW o, NEW l, Moves(k, h, o, l)
  PROVE  /\ /\ fired + 1 \in Ids /\ fired' = fired + 1 /\ LateIds[k] = 0
            /\ h = fired + 1 /\ o = OpenIds[k] /\ l = LateIds[k] /\ VerdictOf' = VerdictOf
            => Promise!Hold(k)
         /\ /\ fired + 1 \in Ids /\ fired' = fired + 1
            /\ OpenIds[k] = 0 \/ k \in Pipelined
            /\ h = 0 /\ o = fired + 1 /\ l = 0
            /\ VerdictOf' = [id \in Ids |-> IF id \in {OpenIds[k], LateIds[k]} \ {0}
                                            THEN "superseded" ELSE VerdictOf[id]]
            => Promise!Launch(k)
         /\ /\ fired' = fired /\ HeldIds[k] # 0
            /\ OpenIds[k] = 0 \/ k \in Pipelined
            /\ h = 0 /\ o = HeldIds[k] /\ l = LateIds[k]
            /\ VerdictOf' = [id \in Ids |-> IF id \in {OpenIds[k]} \ {0}
                                            THEN "superseded" ELSE VerdictOf[id]]
            => Promise!Release(k)
         /\ /\ fired' = fired /\ OpenIds[k] # 0
            /\ (h = HeldIds[k] /\ o = 0) \/ (h = 0 /\ o = HeldIds[k])
            /\ l = LateIds[k]
            => /\ VerdictOf' = [id \in Ids |-> IF id \in {OpenIds[k]} \ {0}
                                               THEN "acked" ELSE VerdictOf[id]]
                  => Promise!Answered(k)
               /\ /\ HeldIds[k] # 0
                  /\ VerdictOf' = [id \in Ids |-> IF id \in {OpenIds[k]} \ {0}
                                                  THEN "superseded" ELSE VerdictOf[id]]
                  => Promise!GivenUp(k)
         /\ /\ fired' = fired /\ LateIds[k] # 0
            /\ h = HeldIds[k] /\ o = OpenIds[k] /\ l = 0
            /\ VerdictOf' = [id \in Ids |-> IF id \in {LateIds[k]} \ {0}
                                            THEN "ackedLate" ELSE VerdictOf[id]]
            => Promise!AnsweredLate(k)
         /\ /\ fired' = fired /\ OpenIds[k] # 0 /\ HeldIds[k] = 0
            /\ h = 0 /\ o = 0 /\ l = OpenIds[k]
            /\ VerdictOf' = [id \in Ids |-> IF id \in {OpenIds[k]} \ {0}
                                            THEN "unanswered" ELSE VerdictOf[id]]
            => Promise!Unanswered(k)
<1>1. /\ HeldIds = [HeldIds EXCEPT ![k] = HeldIds[k]]
      /\ OpenIds = [OpenIds EXCEPT ![k] = OpenIds[k]]
      /\ LateIds = [LateIds EXCEPT ![k] = LateIds[k]]
  BY DEF HeldIds, OpenIds, LateIds
<1>2. /\ HeldIds' = [HeldIds EXCEPT ![k] = h]
      /\ OpenIds' = [OpenIds EXCEPT ![k] = o]
      /\ LateIds' = [LateIds EXCEPT ![k] = l]
  BY DEF Moves
<1>3. /\ h = HeldIds[k] => HeldIds' = HeldIds
      /\ o = OpenIds[k] => OpenIds' = OpenIds
      /\ l = LateIds[k] => LateIds' = LateIds
  BY <1>1, <1>2
<1>4. ASSUME fired + 1 \in Ids, fired' = fired + 1, LateIds[k] = 0,
             h = fired + 1, o = OpenIds[k], l = LateIds[k], VerdictOf' = VerdictOf
      PROVE  Promise!Hold(k)
  BY <1>2, <1>3, <1>4 DEF Promise!Hold, HeldIds, OpenIds, LateIds, VerdictOf
<1>5. ASSUME fired + 1 \in Ids, fired' = fired + 1, OpenIds[k] = 0 \/ k \in Pipelined,
             h = 0, o = fired + 1, l = 0,
             VerdictOf' = [id \in Ids |-> IF id \in {OpenIds[k], LateIds[k]} \ {0}
                                          THEN "superseded" ELSE VerdictOf[id]]
      PROVE  Promise!Launch(k)
  BY <1>2, <1>5 DEF Promise!Launch, Promise!MayLaunch, Promise!Says,
     HeldIds, OpenIds, LateIds, VerdictOf
<1>6. ASSUME fired' = fired, HeldIds[k] # 0, OpenIds[k] = 0 \/ k \in Pipelined,
             h = 0, o = HeldIds[k], l = LateIds[k],
             VerdictOf' = [id \in Ids |-> IF id \in {OpenIds[k]} \ {0}
                                          THEN "superseded" ELSE VerdictOf[id]]
      PROVE  Promise!Release(k)
  BY <1>2, <1>3, <1>6 DEF Promise!Release, Promise!MayLaunch, Promise!Says,
     HeldIds, OpenIds, LateIds, VerdictOf
<1>7. ASSUME fired' = fired, OpenIds[k] # 0, l = LateIds[k],
             (h = HeldIds[k] /\ o = 0) \/ (h = 0 /\ o = HeldIds[k])
      PROVE  /\ VerdictOf' = [id \in Ids |-> IF id \in {OpenIds[k]} \ {0}
                                             THEN "acked" ELSE VerdictOf[id]]
                => Promise!Answered(k)
             /\ /\ HeldIds[k] # 0
                /\ VerdictOf' = [id \in Ids |-> IF id \in {OpenIds[k]} \ {0}
                                                THEN "superseded" ELSE VerdictOf[id]]
                => Promise!GivenUp(k)
  <2>1. Promise!HeldMayFollow(k)
    BY <1>2, <1>3, <1>7 DEF Promise!HeldMayFollow, HeldIds, OpenIds
  <2> QED
    BY <1>3, <1>7, <2>1 DEF Promise!Answered, Promise!GivenUp, Promise!Says,
       HeldIds, OpenIds, LateIds, VerdictOf
<1>8. ASSUME fired' = fired, LateIds[k] # 0, h = HeldIds[k], o = OpenIds[k], l = 0,
             VerdictOf' = [id \in Ids |-> IF id \in {LateIds[k]} \ {0}
                                          THEN "ackedLate" ELSE VerdictOf[id]]
      PROVE  Promise!AnsweredLate(k)
  BY <1>2, <1>3, <1>8 DEF Promise!AnsweredLate, Promise!Says,
     HeldIds, OpenIds, LateIds, VerdictOf
<1>9. ASSUME fired' = fired, OpenIds[k] # 0, HeldIds[k] = 0, h = 0, o = 0, l = OpenIds[k],
             VerdictOf' = [id \in Ids |-> IF id \in {OpenIds[k]} \ {0}
                                          THEN "unanswered" ELSE VerdictOf[id]]
      PROVE  Promise!Unanswered(k)
  BY <1>2, <1>3, <1>9 DEF Promise!Unanswered, Promise!Says,
     HeldIds, OpenIds, LateIds, VerdictOf
<1> QED
  BY <1>4, <1>5, <1>6, <1>7, <1>8, <1>9

(* What one opcode does to its SETs is a step the promise allows. *)
LEMMA KeyKeepsPromise ==
  ASSUME IInv, Apart, InOrder, NEW D, Brings(D), NEW k \in Keys,
         \A j \in Keys \ {k} : SameSaid(driver[j], D[j]),
         FiresAndHolds(k, D) \/ FiresAndLaunches(k, D) \/ Answers(k, D) \/ TicksOver(k, D)
  PROVE  Promise!Next
<1>d. PICK d : d = driver[k]
  OBVIOUS
<1>e. PICK e : e = D[k]
  OBVIOUS
<1>0. /\ d.inflight \in Fired \cup {NoCommand} /\ d.pending \in Fired \cup {NoCommand}
      /\ d.late \in Fired \cup {NoCommand}
      /\ d.late # NoCommand => d.inflight = NoCommand /\ d.pending = NoCommand
  <2>1. d \in DriverOf(Fired) /\ Sound(Fired, d)
    BY <1>d, DriversAre
  <2> QED
    BY <2>1 DEF DriverOf, Sound, InStep
<1>1. /\ \A c \in Fired : c # NoCommand /\ c.id # 0
      /\ NoCommand.id = 0
  BY FiredCommands, FiredIds DEF NoCommand
<1>2. \A c \in Fired \cup {NoCommand} : c = NoCommand <=> c.id = 0
  BY <1>1
<1>3. HeldIds[k] = d.pending.id /\ OpenIds[k] = d.inflight.id /\ LateIds[k] = d.late.id
  BY <1>d, MapIs
<1>4. Moves(k, e.pending.id, e.inflight.id, e.late.id)
  BY <1>e, HandsMove
<1>5. ASSUME NEW c \in {d.inflight, d.late, NoCommand}, NEW v,
             e.outcomes = Said(d.outcomes, c, v)
      PROVE  VerdictOf' = [id \in Ids |-> IF id \in {c.id} \ {0} THEN v ELSE VerdictOf[id]]
  <2>1. CASE c = NoCommand
    <3>1. D[k].outcomes = driver[k].outcomes
      BY <1>d, <1>e, <1>5, <2>1 DEF Said
    <3>2. \A id \in Ids : Verdict(id)' = VerdictIn(D, told, id)
      BY VerdictAfter
    <3>3. \A id \in Ids : VerdictIn(D, told, id) = Verdict(id)
      BY <1>5, <1>d, <1>e, <2>1, VerdictSaid
    <3> QED
      BY <1>1, <2>1, <3>2, <3>3 DEF VerdictOf
  <2>2. CASE c # NoCommand
    <3>1. c \in Fired \cup {NoCommand} /\ c.id \in Tracked(driver[k])
      BY <1>0, <1>5, <1>d, <2>2 DEF Tracked
    <3>2. D[k].outcomes = Said(driver[k].outcomes, c, v)
      BY <1>5, <1>d, <1>e
    <3> QED
      BY <3>1, <3>2, VerdictMoves
  <2> QED
    BY <2>1, <2>2
<1>6. OpenOf(d) \in {d.inflight, d.late, NoCommand}
  BY DEF OpenOf
<1>7. ASSUME NEW v, e.outcomes = Said(d.outcomes, OpenOf(d), v)
      PROVE  VerdictOf' = [id \in Ids |-> IF id \in {OpenOf(d).id} \ {0} THEN v ELSE VerdictOf[id]]
  BY <1>5, <1>6, <1>7
<1>8. CASE FiresAndHolds(k, D)
  <2>1. PICK command \in Fired : /\ NextId(command)
                                 /\ d.late = NoCommand
                                 /\ Holds(d, e, command)
    BY <1>8, <1>d, <1>e DEF FiresAndHolds
  <2>2. fired + 1 \in Ids /\ fired' = fired + 1 /\ command.id = fired + 1
    BY <2>1, FiredIds DEF NextId
  <2>3. /\ e.pending.id = fired + 1 /\ e.inflight.id = OpenIds[k]
        /\ e.late.id = LateIds[k] /\ LateIds[k] = 0
    BY <1>1, <1>3, <2>1, <2>2 DEF Holds
  <2>4. VerdictOf' = VerdictOf
    <3>1. e.outcomes = Said(d.outcomes, NoCommand, "nothing")
      BY <2>1 DEF Holds, Said
    <3>2. VerdictOf' = [id \in Ids |-> IF id \in {NoCommand.id} \ {0} THEN "nothing"
                                       ELSE VerdictOf[id]]
      BY <1>5, <3>1
    <3>3. {NoCommand.id} \ {0} = {}
      BY <1>1
    <3> QED
      BY <3>2, <3>3 DEF VerdictOf
  <2>5. Promise!Hold(k)
    BY <1>4, <2>2, <2>3, <2>4, PromisedSteps
  <2> QED
    BY <2>5 DEF Promise!Next
<1>9. CASE FiresAndLaunches(k, D)
  <2>1. PICK command \in Fired : /\ NextId(command)
                                 /\ d.inflight = NoCommand \/ k \in Pipelined
                                 /\ PutsInFlight(d, e, command)
    BY <1>9, <1>d, <1>e DEF FiresAndLaunches
  <2>2. fired + 1 \in Ids /\ fired' = fired + 1 /\ command.id = fired + 1
    BY <2>1, FiredIds DEF NextId
  <2>3. /\ e.pending.id = 0 /\ e.inflight.id = fired + 1 /\ e.late.id = 0
        /\ OpenIds[k] = 0 \/ k \in Pipelined
    BY <1>1, <1>3, <2>1, <2>2 DEF PutsInFlight
  <2>4. {OpenOf(d).id} \ {0} = {OpenIds[k], LateIds[k]} \ {0}
    BY <1>0, <1>1, <1>3 DEF OpenOf
  <2>5. VerdictOf' = [id \in Ids |-> IF id \in {OpenIds[k], LateIds[k]} \ {0}
                                     THEN "superseded" ELSE VerdictOf[id]]
    BY <1>7, <2>1, <2>4 DEF PutsInFlight
  <2>6. Promise!Launch(k)
    BY <1>4, <2>2, <2>3, <2>5, PromisedSteps
  <2> QED
    BY <2>6 DEF Promise!Next
<1>10. CASE Answers(k, D)
  <2>1. PICK seq : IsAnswered(d, e, seq)
    BY <1>10, <1>d, <1>e DEF Answers
  <2>2. /\ fired' = fired
        /\ e.outcomes = Said(d.outcomes, OpenOf(d),
                             IF d.inflight # NoCommand THEN "acked" ELSE "ackedLate")
    BY <1>10, <1>d, <1>e DEF Answers
  <2>3. CASE d.inflight # NoCommand
    <3>1. OpenOf(d) = d.inflight /\ OpenIds[k] # 0 /\ d.late = NoCommand
      BY <1>0, <1>2, <1>3, <2>3 DEF OpenOf
    <3>2. VerdictOf' = [id \in Ids |-> IF id \in {OpenIds[k]} \ {0} THEN "acked"
                                       ELSE VerdictOf[id]]
      BY <1>3, <1>7, <2>2, <2>3, <3>1
    <3>3. /\ e.late.id = LateIds[k]
          /\ \/ e.pending.id = HeldIds[k] /\ e.inflight.id = 0
             \/ e.pending.id = 0 /\ e.inflight.id = HeldIds[k]
      BY <1>1, <1>3, <2>1, <3>1 DEF IsAnswered
    <3>4. Promise!Answered(k)
      BY <1>4, <2>2, <3>1, <3>2, <3>3, PromisedSteps
    <3> QED
      BY <3>4 DEF Promise!Next
  <2>4. CASE d.inflight = NoCommand
    <3>1. OpenOf(d) = d.late /\ d.late # NoCommand /\ LateIds[k] # 0
      BY <1>0, <1>2, <1>3, <2>1, <2>4 DEF OpenOf, IsAnswered
    <3>2. VerdictOf' = [id \in Ids |-> IF id \in {LateIds[k]} \ {0} THEN "ackedLate"
                                       ELSE VerdictOf[id]]
      BY <1>3, <1>7, <2>2, <2>4, <3>1
    <3>3. e.late.id = 0 /\ e.pending.id = HeldIds[k] /\ e.inflight.id = OpenIds[k]
      BY <1>1, <1>3, <2>1, <2>4 DEF IsAnswered
    <3>4. Promise!AnsweredLate(k)
      BY <1>4, <2>2, <3>1, <3>2, <3>3, PromisedSteps
    <3> QED
      BY <3>4 DEF Promise!Next
  <2> QED
    BY <2>3, <2>4
<1>11. CASE TicksOver(k, D)
  <2>1. PICK sends : \/ Settled(d, e, sends) \/ SettledForPending(d, e, sends)
                     \/ LetsPendingGo(d, e, k \in Pipelined, sends)
    BY <1>11, <1>d, <1>e DEF TicksOver
  <2>2. fired' = fired
    BY <1>11 DEF TicksOver
  <2>3. CASE Settled(d, e, sends)
    <3>1. /\ OpenIds[k] # 0 /\ HeldIds[k] = 0
          /\ e.pending.id = 0 /\ e.inflight.id = 0 /\ e.late.id = OpenIds[k]
      BY <1>0, <1>2, <1>3, <2>3 DEF Settled
    <3>2. VerdictOf' = [id \in Ids |-> IF id \in {OpenIds[k]} \ {0} THEN "unanswered"
                                       ELSE VerdictOf[id]]
      BY <1>3, <1>5, <2>3 DEF Settled
    <3>3. Promise!Unanswered(k)
      BY <1>4, <2>2, <3>1, <3>2, PromisedSteps
    <3> QED
      BY <3>3 DEF Promise!Next
  <2>4. CASE SettledForPending(d, e, sends)
    <3>1. /\ OpenIds[k] # 0 /\ HeldIds[k] # 0 /\ e.late.id = LateIds[k]
          /\ \/ e.pending.id = HeldIds[k] /\ e.inflight.id = 0
             \/ e.pending.id = 0 /\ e.inflight.id = HeldIds[k]
      BY <1>0, <1>1, <1>2, <1>3, <2>4 DEF SettledForPending
    <3>2. VerdictOf' = [id \in Ids |-> IF id \in {OpenIds[k]} \ {0} THEN "superseded"
                                       ELSE VerdictOf[id]]
      BY <1>3, <1>5, <2>4 DEF SettledForPending
    <3>3. Promise!GivenUp(k)
      BY <1>4, <2>2, <3>1, <3>2, PromisedSteps
    <3> QED
      BY <3>3 DEF Promise!Next
  <2>5. CASE LetsPendingGo(d, e, k \in Pipelined, sends)
    <3>1. /\ HeldIds[k] # 0
          /\ OpenIds[k] = 0 \/ k \in Pipelined
          /\ e.pending.id = 0 /\ e.inflight.id = HeldIds[k] /\ e.late.id = LateIds[k]
      BY <1>0, <1>1, <1>2, <1>3, <2>5 DEF LetsPendingGo, Released
    <3>2. VerdictOf' = [id \in Ids |-> IF id \in {OpenIds[k]} \ {0} THEN "superseded"
                                       ELSE VerdictOf[id]]
      BY <1>3, <1>5, <2>5 DEF LetsPendingGo, Released
    <3>3. Promise!Release(k)
      BY <1>4, <2>2, <3>1, <3>2, PromisedSteps
    <3> QED
      BY <3>3 DEF Promise!Next
  <2> QED
    BY <2>1, <2>3, <2>4, <2>5
<1> QED
  BY <1>8, <1>9, <1>10, <1>11

(* Nothing the promise is about changes. *)
LEMMA RestKeepsPromise ==
  ASSUME IInv, NEW D, Brings(D), Rests(D)
  PROVE  UNCHANGED Promise!vars
<1>1. \A k \in Keys : SameInHand(driver[k], driver'[k])
  BY DEF Rests, Brings, SameSaid, SameInHand
<1>2. \A id \in Ids : Verdict(id)' = Verdict(id)
  BY VerdictAfter, VerdictRests DEF Rests
<1>3. HeldIds' = HeldIds /\ OpenIds' = OpenIds /\ LateIds' = LateIds
  BY <1>1 DEF SameInHand, HeldIds, OpenIds, LateIds
<1>4. VerdictOf' = VerdictOf
  BY <1>2 DEF VerdictOf
<1>5. fired' = fired
  BY DEF Rests
<1> QED
  BY <1>3, <1>4, <1>5 DEF Promise!vars, HeldIds, OpenIds, LateIds, VerdictOf

(* A new datalink: a verdict that was given stays, but for one not yet told. *)
LEMMA ReopenKeepsPromise ==
  ASSUME IInv, VerdictsStand, Reopen
  PROVE  Promise!Forget
<1>1. fired' = fired /\ told' = told /\ \A k \in Keys : driver'[k] = FreshDriver
  BY ReopenIs
<1>2. \A k \in Keys : \A id : About(driver'[k], id) = {}
  BY <1>1 DEF About, FreshDriver
<1>3. \A id \in Ids : Verdict(id)' = told[id]
  BY <1>1, <1>2 DEF Verdict
<1>4. ASSUME NEW id \in Ids
      PROVE  told[id] \in {Verdict(id), "nothing", "unanswered"}
  <2>1. CASE \A k \in Keys : About(driver[k], id) = {}
    BY <2>1, VerdictIs, NoneTells
  <2>2. CASE \E k \in Keys : About(driver[k], id) # {}
    BY <2>2 DEF VerdictsStand, Tentative
  <2> QED
    BY <2>1, <2>2
<1>5. \A id \in Ids : told[id] \in {"nothing", "acked", "ackedLate", "unanswered", "superseded"}
  BY DriversAre DEF Typed, Verdicts
<1>6. /\ HeldIds' = [k \in Keys |-> 0]
      /\ OpenIds' = [k \in Keys |-> 0]
      /\ LateIds' = [k \in Keys |-> 0]
  BY <1>1 DEF HeldIds, OpenIds, LateIds, FreshDriver, NoCommand
<1>7. /\ VerdictOf' \in [Ids -> {"nothing", "acked", "ackedLate", "unanswered", "superseded"}]
      /\ \A id \in Ids : VerdictOf'[id] \in {VerdictOf[id], "nothing", "unanswered"}
  BY <1>3, <1>4, <1>5 DEF VerdictOf
<1> QED
  BY <1>1, <1>6, <1>7 DEF Promise!Forget, HeldIds, OpenIds, LateIds, VerdictOf

LEMMA StepKeepsPromise ==
  IInv /\ Apart /\ InOrder /\ VerdictsStand /\ [Next]_vars => [Promise!Next]_(Promise!vars)
<1> SUFFICES ASSUME IInv, Apart, InOrder, VerdictsStand, [Next]_vars
             PROVE  [Promise!Next]_(Promise!vars)
  OBVIOUS
<1>1. CASE Reopen
  <2>1. Promise!Forget
    BY <1>1, ReopenKeepsPromise
  <2> QED
    BY <2>1 DEF Promise!Next
<1>2. ASSUME NEW D, Brings(D), Changes(D)
      PROVE  [Promise!Next]_(Promise!vars)
  <2>1. CASE Rests(D)
    BY <1>2, <2>1, RestKeepsPromise
  <2>2. CASE ~Rests(D)
    <3>1. PICK k \in Keys :
            /\ \A j \in Keys \ {k} : SameSaid(driver[j], D[j])
            /\ FiresAndHolds(k, D) \/ FiresAndLaunches(k, D) \/ Answers(k, D) \/ TicksOver(k, D)
      BY <1>2, <2>2 DEF Changes
    <3>2. Promise!Next
      BY <1>2, <3>1, KeyKeepsPromise
    <3> QED
      BY <3>2
  <2> QED
    BY <2>1, <2>2
<1> QED
  BY <1>1, <1>2, StepChanges

LEMMA PromiseStarts == Init => Promise!Init
<1> SUFFICES ASSUME Init
             PROVE  Promise!Init
  OBVIOUS
<1>1. \A k \in Keys : driver[k] = FreshDriver
  BY DEF Init
<1>2. \A id \in Ids : Verdict(id) = "nothing"
  <2>1. \A k \in Keys : \A id \in Ids : About(driver[k], id) = {}
    BY <1>1 DEF About, FreshDriver
  <2> QED
    BY <2>1 DEF Verdict, Init
<1>3. [id \in Ids |-> Verdict(id)] = [id \in Ids |-> "nothing"]
  BY <1>2
<1>4. fired = 0
  BY DEF Init
<1>5. /\ [k \in Keys |-> driver[k].pending.id] = [k \in Keys |-> 0]
      /\ [k \in Keys |-> driver[k].inflight.id] = [k \in Keys |-> 0]
      /\ [k \in Keys |-> driver[k].late.id] = [k \in Keys |-> 0]
  BY <1>1 DEF FreshDriver, NoCommand
<1> QED
  BY <1>3, <1>4, <1>5 DEF Promise!Init

(***************************************************************************)
(* SetSession implements LatestWins: fire_set, the replies, the ticks and  *)
(* reopen_datalink, over any network and at any pace of the worker, do to  *)
(* the SETs of an opcode only what the promise to the operator allows.     *)
(***************************************************************************)
THEOREM ImplementsThePromise == Spec => KeepsPromise
<1> QED
  BY PromiseStarts, StepKeepsPromise, AlwaysSound, AlwaysApart, AlwaysInOrder, AlwaysStands, PTL
     DEF Spec, KeepsPromise, Promise!Spec

-----------------------------------------------------------------------------
(***************************************************************************)
(* Acknowledgements.  A number is used once: the datagrams of a datalink   *)
(* are numbered from 0 as they leave, and while no SET leaves more than    *)
(* twice, there are too few of them to come round to 0 again.              *)
(***************************************************************************)
Numbered ==
  /\ nextSeq = Cardinality(wire)
  /\ \A n \in wire : n.seq < nextSeq
  /\ \A m, n \in wire : m.seq = n.seq => m = n

LEMMA ThreeAre ==
  ASSUME NEW a, NEW b, NEW c, a # b, a # c, b # c
  PROVE  IsFiniteSet({a, b, c}) /\ Cardinality({a, b, c}) = 3
<1>1. IsFiniteSet({}) /\ Cardinality({}) = 0
  BY FS_EmptySet
<1>2. IsFiniteSet({} \cup {a}) /\ Cardinality({} \cup {a}) = 1
  BY <1>1, FS_AddElement
<1>3. IsFiniteSet(({} \cup {a}) \cup {b}) /\ Cardinality(({} \cup {a}) \cup {b}) = 2
  BY <1>2, FS_AddElement
<1>4. /\ IsFiniteSet((({} \cup {a}) \cup {b}) \cup {c})
      /\ Cardinality((({} \cup {a}) \cup {b}) \cup {c}) = 3
  BY <1>3, FS_AddElement
<1>5. (({} \cup {a}) \cup {b}) \cup {c} = {a, b, c}
  OBVIOUS
<1> QED
  BY <1>4, <1>5

LEMMA TwoEach ==
  ASSUME NEW w, IsFiniteSet(w), \A n \in w : n.id \in Ids /\ n.seq \in Nat,
         \A m, n \in w : m.seq = n.seq => m = n,
         \A id \in Ids : CopiesIn(w, id) <= 2
  PROVE  Cardinality(w) <= 2 * MaxFires
<1> DEFINE First(m) == \A n \in w : n.id = m.id => m.seq <= n.seq
           f == [m \in w |-> IF First(m) THEN 2 * m.id ELSE 2 * m.id - 1]
<1>1. MaxFires \in Nat /\ \A id \in Ids : id \in Nat /\ 1 <= id /\ id <= MaxFires
  BY SessionAssumption DEF Ids
<1>2. \A m \in w : f[m] \in 1 .. 2 * MaxFires
  BY <1>1
<1>3. f \in [w -> 1 .. 2 * MaxFires]
  BY <1>2
<1>4. ASSUME NEW m \in w, NEW n \in w, f[m] = f[n]
      PROVE  m = n
  <2>1. m.id = n.id /\ (First(m) <=> First(n))
    <3>1. m.id \in Nat /\ n.id \in Nat
      BY <1>1
    <3>2. PICK x \in Nat, y \in Nat : x = m.id /\ y = n.id
      BY <3>1
    <3>3. (IF First(m) THEN 2 * x ELSE 2 * x - 1) = (IF First(n) THEN 2 * y ELSE 2 * y - 1)
      BY <1>4, <3>2
    <3> HIDE DEF First
    <3> QED
      BY <3>2, <3>3
  <2>2. CASE First(m)
    <3>1. m.seq <= n.seq /\ n.seq <= m.seq
      BY <2>1, <2>2
    <3> QED
      BY <3>1
  <2>3. CASE ~First(m)
    <3> SUFFICES ASSUME m # n
                 PROVE  FALSE
      OBVIOUS
    <3>1. PICK a \in w : a.id = m.id /\ a.seq < m.seq
      BY <2>3
    <3>2. PICK b \in w : b.id = m.id /\ b.seq < n.seq
      BY <2>1, <2>3
    <3>3. m.seq < n.seq \/ n.seq < m.seq
      OBVIOUS
    <3>4. PICK c \in w : c.id = m.id /\ c # m /\ c # n
      BY <3>1, <3>2, <3>3
    <3>5. IsFiniteSet({p \in w : p.id = m.id})
      BY FS_Subset
    <3>6. {m, n, c} \in SUBSET {p \in w : p.id = m.id}
      BY <2>1, <3>4
    <3>7. Cardinality({m, n, c}) = 3
      BY <3>4, ThreeAre
    <3>8. 3 <= Cardinality({p \in w : p.id = m.id})
      BY <3>5, <3>6, <3>7, FS_Subset
    <3>9. Cardinality({p \in w : p.id = m.id}) <= 2
      BY DEF CopiesIn
    <3>10. Cardinality({p \in w : p.id = m.id}) \in Nat
      BY <3>5, FS_CardinalityType
    <3> QED
      BY <3>8, <3>9, <3>10
  <2> QED
    BY <2>2, <2>3
<1> HIDE DEF f
<1>5. f \in Injection(w, 1 .. 2 * MaxFires)
  BY <1>3, <1>4 DEF Injection, IsInjective
<1>6. IsFiniteSet(1 .. 2 * MaxFires) /\ Cardinality(1 .. 2 * MaxFires) = 2 * MaxFires
  BY <1>1, FS_Interval
<1> QED
  BY <1>5, <1>6, FS_Injection

(* The numbers of a wire that carries no SET more than twice fit in 16 bits. *)
LEMMA StepNumbered ==
  ASSUME 2 * MaxFires < SeqModulus, IInv, Counted, Counted', IInv', Numbered, [Next]_vars
  PROVE  Numbered'
<1>1. CASE UNCHANGED <<nextSeq, wire>>
  BY <1>1 DEF Numbered
<1>2. CASE Reopen
  BY <1>2, ReopenIs, FS_EmptySet DEF Numbered
<1>3. CASE Dispatch
  <2>m. PICK m : m = [key |-> Head(queue).key, seq |-> nextSeq, id |-> Head(queue).command.id]
    OBVIOUS
  <2>1. wire' = wire \cup {m} /\ nextSeq' = (nextSeq + 1) % SeqModulus
    BY <1>3, <2>m, DispatchIs
  <2>2. /\ IsFiniteSet(wire) /\ nextSeq \in Nat /\ MaxFires \in Nat /\ SeqModulus \in Nat
        /\ m.seq = nextSeq /\ \A n \in wire : n.seq \in Nat
    BY <2>m, SessionAssumption, MailboxAssumption, DriversAre
       DEF Counted, Typed, SeqNo
  <2>3. \A p, n \in wire' : p.seq = n.seq => p = n
    BY <2>1, <2>2 DEF Numbered
  <2>4. IsFiniteSet(wire') /\ Cardinality(wire') = nextSeq + 1
    <3>1. m \notin wire
      BY <2>2 DEF Numbered
    <3> QED
      BY <2>1, <2>2, <3>1, FS_AddElement DEF Numbered
  <2>5. \A n \in wire' : n.id \in Ids /\ n.seq \in Nat
    BY DEF IInv, Typed, SeqNo
  <2>6. \A id \in Ids : CopiesIn(wire', id) <= 2
    <3> SUFFICES ASSUME NEW id \in Ids
                 PROVE  CopiesIn(wire', id) <= 2
      OBVIOUS
    <3>1. queue' \in Seq(Entry)
      BY DEF IInv, Typed
    <3>2. Load'[id] = CopiesIn(wire', id) + WaitingIn(queue', id)
      BY <2>4, <3>1, LoadNext
    <3>3. CopiesIn(wire', id) \in Nat /\ WaitingIn(queue', id) \in Nat
      BY <2>4, <3>1, LoadIs
    <3>4. Load'[id] <= 2
      BY DEF Counted
    <3> QED
      BY <3>2, <3>3, <3>4
  <2>7. nextSeq + 1 <= 2 * MaxFires
    BY <2>3, <2>4, <2>5, <2>6, TwoEach
  <2>8. nextSeq' = nextSeq + 1
    BY <2>1, <2>2, <2>7
  <2>9. \A n \in wire' : n.seq < nextSeq'
    BY <2>1, <2>2, <2>8 DEF Numbered
  <2> QED
    BY <2>3, <2>4, <2>8, <2>9 DEF Numbered
<1>4. CASE \E k \in Keys : \E kind \in KindsOf(k) : Fire(k, kind)
  BY <1>1, <1>4, FireIs
<1>5. CASE \E answer \in answers : Receive(answer)
  BY <1>1, <1>5, ReceiveIs
<1>6. CASE \E k \in Keys : TickKey(k)
  BY <1>1, <1>6, TickKeyIs
<1>7. CASE Quiet
  BY <1>1, <1>7, QuietIs
<1> QED
  BY <1>2, <1>3, <1>4, <1>5, <1>6, <1>7, StepIsOneOf

-----------------------------------------------------------------------------
(***************************************************************************)
(* What the numbers are credited to.  A transmission of an opcode is one   *)
(* of the SET that is open there, or that SET is crowded; so are those in  *)
(* the queue when something is open.  Outside a tick what waits there was  *)
(* launched by a fire, and no number of that generation is known yet.      *)
(***************************************************************************)
Meant(k, id) == OpenOf(driver[k]).id \in {id} \cup crowded

Credited(k) ==
  \A s \in driver[k].box.seqs : \E n \in wire : n.key = k /\ n.seq = s /\ Meant(k, n.id)

QueueMeant(k) ==
  \A i \in DOMAIN queue : queue[i].key = k =>
    /\ OpenOf(driver[k]) # NoCommand => Meant(k, queue[i].command.id)
    /\ at \in {"commands", "receive"} => driver[k].box.seqs = {}
    /\ driver[k].due = << >>

Attributed ==
  /\ \A k \in Keys : Credited(k) /\ QueueMeant(k)
  /\ at = "recover" => queue = << >>

LEMMA SameOpen ==
  ASSUME NEW d, NEW e, SameHands(d, e)
  PROVE  OpenOf(e) = OpenOf(d)
BY DEF SameHands, OpenOf

(* A generation keeps its numbers, or begins with none. *)
LEMMA CreditStays ==
  ASSUME wire \subseteq wire', crowded \subseteq crowded', NEW k \in Keys, Credited(k),
         \/ driver'[k].box.seqs = {}
         \/ /\ driver'[k].box.seqs = driver[k].box.seqs
            /\ OpenOf(driver'[k]) = OpenOf(driver[k])
  PROVE  Credited(k)'
BY DEF Credited, Meant

(* What waits for an opcode is what waited. *)
LEMMA WaitStays ==
  ASSUME NEW k \in Keys, QueueMeant(k), crowded \subseteq crowded',
         \A i \in DOMAIN queue' : queue'[i].key = k =>
           \E j \in DOMAIN queue : queue[j] = queue'[i],
         driver'[k].due = driver[k].due \/ driver'[k].due = << >>,
         OpenOf(driver'[k]) = OpenOf(driver[k]) \/ OpenOf(driver'[k]) = NoCommand,
         \/ at' \notin {"commands", "receive"}
         \/ at \in {"commands", "receive"} /\ driver'[k].box.seqs = driver[k].box.seqs
  PROVE  QueueMeant(k)'
<1> SUFFICES ASSUME NEW i \in DOMAIN queue', queue'[i].key = k
             PROVE  /\ OpenOf(driver'[k]) # NoCommand =>
                         OpenOf(driver'[k]).id \in {queue'[i].command.id} \cup crowded'
                    /\ at' \in {"commands", "receive"} => driver'[k].box.seqs = {}
                    /\ driver'[k].due = << >>
  BY DEF QueueMeant, Meant
<1>1. PICK j \in DOMAIN queue : queue[j] = queue'[i]
  OBVIOUS
<1>2. /\ OpenOf(driver[k]) # NoCommand =>
           OpenOf(driver[k]).id \in {queue[j].command.id} \cup crowded
      /\ at \in {"commands", "receive"} => driver[k].box.seqs = {}
      /\ driver[k].due = << >>
  BY <1>1 DEF QueueMeant, Meant
<1> QED
  BY <1>1, <1>2

(* The last to join the queue is crowded, if anything else waits for its opcode. *)
LEMMA LastIsCrowded ==
  ASSUME NEW k \in Keys, NEW s \in Seq(Fired), Len(s) >= 1, queue' \in Seq(Entry),
         IsJoined(queue, k, s, queue'), crowded' = crowded \cup Crowded(queue'),
         NEW i \in DOMAIN queue', queue'[i].key = k
  PROVE  s[Len(s)].id \in {queue'[i].command.id} \cup crowded'
<1>1. Len(s) \in DOMAIN s /\ Len(s) \in Nat /\ Len(queue) \in Nat
  BY DEF IsJoined
<1>p. PICK p : p = Len(s) + Len(queue)
  OBVIOUS
<1>2. /\ p \in DOMAIN queue' /\ queue'[p] = [key |-> k, command |-> s[Len(s)]]
      /\ p = Len(queue') /\ DOMAIN queue' = 1 .. p /\ p \in Nat
  BY <1>1, <1>p DEF IsJoined
<1>3. CASE i = p
  BY <1>2, <1>3
<1>4. CASE i # p /\ queue'[i].command.id # s[Len(s)].id
  <2>1. i \in 1 .. p - 1
    BY <1>2, <1>4
  <2>2. \E h \in 1 .. p - 1 : /\ queue'[h].key = queue'[p].key
                              /\ queue'[h].command.id # queue'[p].command.id
    BY <1>2, <1>4, <2>1
  <2>3. queue'[p].command.id \in Crowded(queue')
    BY <1>2, <2>2 DEF Crowded
  <2> QED
    BY <1>2, <2>3
<1> QED
  BY <1>3, <1>4

(* Commands of another opcode join the queue. *)
LEMMA OthersWait ==
  ASSUME NEW k \in Keys, NEW s \in Seq(Fired), IsJoined(queue, k, s, queue'),
         NEW j \in Keys \ {k}
  PROVE  \A i \in DOMAIN queue' : queue'[i].key = j =>
           \E h \in DOMAIN queue : queue[h] = queue'[i]
<1> SUFFICES ASSUME NEW i \in DOMAIN queue', queue'[i].key = j
             PROVE  i \in DOMAIN queue /\ queue[i] = queue'[i]
  OBVIOUS
<1>1. ASSUME NEW h \in DOMAIN s, i = h + Len(queue)
      PROVE  FALSE
  <2>1. queue'[i] = [key |-> k, command |-> s[h]]
    BY <1>1 DEF IsJoined
  <2> QED
    BY <2>1
<1> QED
  BY <1>1 DEF IsJoined

LEMMA FireAttributed ==
  ASSUME IInv, Due, Attributed, NEW k \in Keys, NEW kind \in KindsOf(k), Fire(k, kind)
  PROVE  Attributed'
<1>c. PICK command : command = [id |-> fired + 1, kind |-> kind]
  OBVIOUS
<1>1. /\ command \in Fired /\ at = "commands" /\ UNCHANGED <<at, wire>>
      /\ \A j \in Keys \ {k} : driver'[j] = driver[j]
      /\ \/ /\ Holds(driver[k], driver'[k], command) /\ UNCHANGED <<queue, crowded>>
         \/ /\ PutsInFlight(driver[k], driver'[k], command)
            /\ Enqueue(Entries(k, << command >>))
  BY <1>c, FireIs
<1>2. CASE Holds(driver[k], driver'[k], command) /\ UNCHANGED <<queue, crowded>>
  <2>1. \A j \in Keys : /\ OpenOf(driver'[j]) = OpenOf(driver[j])
                        /\ driver'[j].due = driver[j].due
                        /\ driver'[j].box.seqs = driver[j].box.seqs
    BY <1>1, <1>2 DEF Holds, OpenOf
  <2>2. \A j \in Keys : Credited(j)' /\ QueueMeant(j)'
    BY <1>1, <1>2, <2>1, CreditStays, WaitStays DEF Attributed
  <2> QED
    BY <1>1, <2>2 DEF Attributed
<1>3. CASE /\ PutsInFlight(driver[k], driver'[k], command)
           /\ Enqueue(Entries(k, << command >>))
  <2>s. PICK s : s = << command >>
    OBVIOUS
  <2>1. /\ queue' = queue \o Entries(k, s)
        /\ crowded' = crowded \cup Crowded(queue')
        /\ queue \in Seq(Entry) /\ s \in Seq(Fired)
        /\ Len(s) = 1 /\ s[1] = command
    BY <1>1, <1>3, <2>s, DriversAre DEF Enqueue, Typed
  <2>2. IsJoined(queue, k, s, queue')
    BY <2>1, JoinedAre
  <2>3. ASSUME NEW j \in Keys \ {k}
        PROVE  Credited(j)' /\ QueueMeant(j)'
    <3>1. driver'[j] = driver[j] /\ crowded \subseteq crowded' /\ wire \subseteq wire'
      BY <1>1, <2>1
    <3>2. Credited(j)'
      BY <3>1, CreditStays DEF Attributed
    <3>3. \A i \in DOMAIN queue' : queue'[i].key = j =>
            \E h \in DOMAIN queue : queue[h] = queue'[i]
      BY <2>1, <2>2, OthersWait
    <3>4. QueueMeant(j)'
      BY <1>1, <3>1, <3>3, WaitStays DEF Attributed
    <3> QED
      BY <3>2, <3>4
  <2>4. Credited(k)' /\ driver'[k].box.seqs = {}
    BY <1>3 DEF Credited, PutsInFlight
  <2>5. OpenOf(driver'[k]) = command
    BY <1>1, <1>3, FiredIds DEF OpenOf, PutsInFlight
  <2>6. driver'[k].due = << >>
    BY <1>1, <1>3, NothingDue DEF PutsInFlight
  <2>7. \A i \in DOMAIN queue' : queue'[i].key = k =>
          command.id \in {queue'[i].command.id} \cup crowded'
    <3>1. queue' \in Seq(Entry)
      BY <2>2 DEF IsJoined
    <3>2. ASSUME NEW i \in DOMAIN queue', queue'[i].key = k
          PROVE  s[Len(s)].id \in {queue'[i].command.id} \cup crowded'
      <4>1. s \in Seq(Fired) /\ Len(s) >= 1 /\ queue' \in Seq(Entry)
        BY <2>1, <3>1
      <4>2. IsJoined(queue, k, s, queue') /\ crowded' = crowded \cup Crowded(queue')
        BY <2>1, <2>2
      <4> QED
        BY <3>2, <4>1, <4>2, LastIsCrowded
    <3> QED
      BY <2>1, <3>2
  <2>8. QueueMeant(k)'
    BY <2>4, <2>5, <2>6, <2>7 DEF QueueMeant, Meant
  <2> QED
    BY <1>1, <2>3, <2>4, <2>8 DEF Attributed
<1> QED
  BY <1>1, <1>2, <1>3

LEMMA ReceiveAttributed ==
  ASSUME IInv, Attributed, NEW answer \in answers, Receive(answer)
  PROVE  Attributed'
<1> DEFINE k == answer.key
<1>1. /\ k \in Keys /\ at = "receive" /\ UNCHANGED <<at, queue, wire, crowded>>
      /\ \A j \in Keys \ {k} :
           SameHands(driver[j], driver'[j]) /\ driver'[j].box = driver[j].box
      /\ \/ SameHands(driver[k], driver'[k]) /\ driver'[k].box = driver[k].box
         \/ IsAnswered(driver[k], driver'[k], answer.seq)
  BY ReceiveIs
<1>2. ASSUME NEW j \in Keys, SameHands(driver[j], driver'[j]), driver'[j].box = driver[j].box
      PROVE  Credited(j)' /\ QueueMeant(j)'
  <2>1. OpenOf(driver'[j]) = OpenOf(driver[j]) /\ driver'[j].due = driver[j].due
    BY <1>2, SameOpen DEF SameHands
  <2> QED
    BY <1>1, <1>2, <2>1, CreditStays, WaitStays DEF Attributed
<1>3. CASE IsAnswered(driver[k], driver'[k], answer.seq)
  <2>1. driver[k].box.seqs # {} /\ driver'[k].box.seqs = {}
    BY <1>3 DEF IsAnswered
  <2>2. \A i \in DOMAIN queue : queue[i].key # k
    BY <1>1, <2>1 DEF Attributed, QueueMeant
  <2>3. Credited(k)' /\ QueueMeant(k)'
    BY <1>1, <2>1, <2>2 DEF Credited, QueueMeant
  <2> QED
    BY <1>1, <1>2, <2>3 DEF Attributed
<1>4. CASE SameHands(driver[k], driver'[k]) /\ driver'[k].box = driver[k].box
  BY <1>1, <1>2, <1>4 DEF Attributed
<1> QED
  BY <1>1, <1>3, <1>4

(* A tick leaves what is open and its numbers alone, closes it, or launches *)
(* the held SET, which is then the last it sends.                           *)
LEMMA TickOpens ==
  ASSUME NEW d, NEW e, NEW pipelines, NEW sends, Ticks(d, e, pipelines, sends),
         NEW again, NEW last, TickBrief(d, e, again, last)
  PROVE  \/ /\ last = << >> /\ OpenOf(e) = OpenOf(d)
            /\ e.box.seqs = d.box.seqs
         \/ /\ last = << >> /\ OpenOf(e) = NoCommand
            /\ e.box.seqs = {}
         \/ /\ last = << d.pending >> /\ d.pending # NoCommand /\ OpenOf(e) = d.pending
            /\ e.box.seqs = {}
<1>1. CASE last = << >> /\ e.pending = d.pending
  <2>1. CASE Settled(d, e, sends)
    BY <1>1, <2>1 DEF Settled, OpenOf
  <2>2. CASE SettledForPending(d, e, sends)
    BY <1>1, <2>2 DEF SettledForPending, OpenOf
  <2>3. CASE StillWaits(d, e, sends)
    BY <1>1, <2>3 DEF StillWaits, OpenOf
  <2>4. CASE LetsPendingGo(d, e, pipelines, sends)
    BY <1>1, <2>4 DEF LetsPendingGo, Released
  <2> QED
    BY <2>1, <2>2, <2>3, <2>4 DEF Ticks
<1>2. CASE /\ last = << d.pending >> /\ d.pending # NoCommand
           /\ e.inflight = d.pending /\ e.pending = NoCommand
  <2>1. OpenOf(e) = d.pending
    BY <1>2 DEF OpenOf
  <2>2. e.box.seqs = {}
    BY <1>2 DEF Ticks, Settled, SettledForPending, StillWaits, LetsPendingGo, Released
  <2> QED
    BY <1>2, <2>1, <2>2
<1> QED
  BY <1>1, <1>2 DEF TickBrief

LEMMA TickAttributed ==
  ASSUME IInv, Due, InOrder, Attributed, NEW k \in Keys, TickKey(k)
  PROVE  Attributed'
<1>d. PICK d : d = driver[k]
  OBVIOUS
<1>e. PICK e : e = driver'[k]
  OBVIOUS
<1>1. PICK s : s = TickSends(d, k \in Pipelined)
  OBVIOUS
<1>2. /\ s \in Seq(Fired) /\ queue' = queue \o Entries(k, s) /\ wire' = wire
      /\ crowded' = crowded \cup Crowded(queue')
      /\ at' \in {"tick", "dispatch"}
      /\ \A j \in Keys \ {k} : driver'[j] = driver[j]
      /\ Ticks(d, e, k \in Pipelined, s) /\ e.due = << >>
  BY <1>1, <1>d, <1>e, TickKeyIs DEF Enqueue, Ticks
<1>3. PICK again, last : TickBrief(d, e, again, last) /\ s = d.due \o again \o last
  BY <1>2, TickInBrief
<1>4. /\ d \in DriverOf(Fired) /\ d.inflight \in Fired \cup {NoCommand}
      /\ d.pending \in Fired \cup {NoCommand} /\ d.due \in Seq(Fired)
      /\ d.due = << >> \/ (d.inflight # NoCommand /\ d.due = << d.inflight >>)
      /\ d.inflight # NoCommand /\ d.pending # NoCommand => d.inflight.id < d.pending.id
      /\ queue \in Seq(Entry)
  BY <1>d, DriversAre DEF Due, InOrder, DriverAhead, Typed, DriverOf
<1>5. \A a \in DOMAIN s : \/ s[a] = d.inflight /\ d.inflight # NoCommand
                          \/ s[a] = d.pending /\ last # << >>
  <2>1. s = SendsOf(d, again, last)
    BY <1>3 DEF SendsOf
  <2> QED
    BY <1>3, <1>4, <2>1, SendsInOrder
<1>6. IsJoined(queue, k, s, queue')
  BY <1>2, <1>4, JoinedAre, Zenon
<1>7. \/ /\ last = << >> /\ OpenOf(e) = OpenOf(d)
         /\ e.box.seqs = d.box.seqs
      \/ /\ last = << >> /\ OpenOf(e) = NoCommand
         /\ e.box.seqs = {}
      \/ /\ last = << d.pending >> /\ d.pending # NoCommand /\ OpenOf(e) = d.pending
         /\ e.box.seqs = {}
  BY <1>2, <1>3, TickOpens
<1>8. ASSUME NEW j \in Keys \ {k}
      PROVE  Credited(j)' /\ QueueMeant(j)'
  <2>1. driver'[j] = driver[j] /\ crowded \subseteq crowded' /\ wire \subseteq wire'
    BY <1>2
  <2>2. Credited(j)'
    BY <2>1, CreditStays DEF Attributed
  <2>3. \A i \in DOMAIN queue' : queue'[i].key = j =>
          \E h \in DOMAIN queue : queue[h] = queue'[i]
    BY <1>2, <1>6, OthersWait
  <2>4. QueueMeant(j)'
    BY <1>2, <2>1, <2>3, WaitStays DEF Attributed
  <2> QED
    BY <2>2, <2>4
<1>9. Credited(k)'
  <2>1. crowded \subseteq crowded' /\ wire \subseteq wire' /\ Credited(k)
    BY <1>2 DEF Attributed
  <2> QED
    BY <1>d, <1>e, <1>7, <2>1, CreditStays
<1>10. ASSUME OpenOf(e) # NoCommand, NEW i \in DOMAIN queue', queue'[i].key = k
       PROVE  OpenOf(e).id \in {queue'[i].command.id} \cup crowded'
  <2>1. CASE last = << >> /\ OpenOf(e) = OpenOf(d)
    <3>1. CASE i \in DOMAIN queue
      <4>1. queue[i] = queue'[i]
        BY <1>6, <3>1 DEF IsJoined
      <4>2. OpenOf(d).id \in {queue[i].command.id} \cup crowded
        BY <1>d, <1>10, <2>1, <3>1, <4>1 DEF Attributed, QueueMeant, Meant
      <4> QED
        BY <1>2, <2>1, <4>1, <4>2
    <3>2. CASE i \notin DOMAIN queue
      <4>1. PICK a \in DOMAIN s : i = a + Len(queue)
        BY <1>6, <3>2 DEF IsJoined
      <4>2. queue'[i] = [key |-> k, command |-> s[a]]
        BY <1>6, <4>1 DEF IsJoined
      <4>3. s[a] = OpenOf(d)
        BY <1>5, <2>1 DEF OpenOf
      <4> QED
        BY <2>1, <4>2, <4>3
    <3> QED
      BY <3>1, <3>2
  <2>2. CASE last = << d.pending >> /\ d.pending # NoCommand /\ OpenOf(e) = d.pending
    <3>t. PICK t : t = d.due \o again
      OBVIOUS
    <3>1. again \in Seq(Fired)
      <4>1. again = << >> \/ (again = << d.inflight >> /\ d.inflight \in Fired)
        BY <1>3, <1>4 DEF TickBrief, Repeats
      <4>2. CASE again = << >>
        BY <4>2
      <4>3. CASE again = << d.inflight >> /\ d.inflight \in Fired
        BY <4>3, CountOne
      <4> QED
        BY <4>1, <4>2, <4>3
    <3>2. t \in Seq(Fired) /\ last \in Seq(Fired)
      BY <1>4, <2>2, <3>1, <3>t, ConcatIs
    <3>3. Len(last) = 1 /\ last[1] = d.pending
      BY <2>2
    <3>4. s = t \o last
      BY <1>3, <3>t
    <3>5. /\ Len(t) \in Nat /\ DOMAIN s = 1 .. Len(t) + 1
          /\ s[Len(t) + 1] = d.pending
      <4>1. 1 \in 1 .. Len(last)
        BY <3>3
      <4>2. /\ Len(t) \in Nat /\ DOMAIN s = 1 .. Len(t) + Len(last)
            /\ s[Len(t) + 1] = last[1]
        BY <3>2, <3>4, <4>1, ConcatIs
      <4> QED
        BY <3>3, <4>2
    <3>6. Len(s) = Len(t) + 1
      <4>1. Len(s) \in Nat /\ DOMAIN s = 1 .. Len(s)
        BY <1>2
      <4> QED
        BY <3>5, <4>1
    <3>7. Len(s) >= 1 /\ s[Len(s)] = d.pending
      BY <3>5, <3>6
    <3>8. queue' \in Seq(Entry)
      BY <1>6 DEF IsJoined
    <3>9. s[Len(s)].id \in {queue'[i].command.id} \cup crowded'
      BY <1>2, <1>6, <1>10, <3>7, <3>8, LastIsCrowded
    <3> QED
      BY <2>2, <3>7, <3>9
  <2> QED
    BY <1>7, <1>10, <2>1, <2>2
<1>11. QueueMeant(k)'
  BY <1>2, <1>e, <1>10 DEF QueueMeant, Meant
<1> QED
  BY <1>2, <1>8, <1>9, <1>11 DEF Attributed

LEMMA DispatchAttributed ==
  ASSUME IInv, Attributed, Dispatch
  PROVE  Attributed'
<1>h. PICK h : h = Head(queue)
  OBVIOUS
<1>m. PICK m : m = [key |-> h.key, seq |-> nextSeq, id |-> h.command.id]
  OBVIOUS
<1>1. /\ at = "dispatch" /\ at' = at /\ crowded' = crowded
      /\ queue # << >> /\ queue' = Tail(queue) /\ h \in Entry
      /\ wire' = wire \cup {m}
      /\ \A k \in Keys : SameHands(driver[k], driver'[k])
      /\ \A k \in Keys : driver'[k].box = IF k = h.key
                                          THEN NoteTransmit(driver[k].box, nextSeq)
                                          ELSE driver[k].box
  BY <1>h, <1>m, DispatchIs
<1>2. queue \in Seq(Entry) /\ Len(queue) \in Nat /\ DOMAIN queue = 1 .. Len(queue)
  BY DriversAre DEF Typed
<1>3. /\ 1 \in DOMAIN queue /\ queue[1] = h
      /\ \A i \in DOMAIN queue' : i + 1 \in DOMAIN queue /\ queue'[i] = queue[i + 1]
  BY <1>1, <1>2, <1>h
<1>4. \A k \in Keys : OpenOf(driver'[k]) = OpenOf(driver[k]) /\ driver'[k].due = driver[k].due
  BY <1>1, SameOpen DEF SameHands
<1>5. ASSUME NEW k \in Keys
      PROVE  QueueMeant(k)'
  <2>1. \A i \in DOMAIN queue' : \E j \in DOMAIN queue : queue[j] = queue'[i]
    BY <1>3
  <2> QED
    BY <1>1, <1>4, <2>1, WaitStays DEF Attributed
<1>6. ASSUME NEW k \in Keys
      PROVE  Credited(k)'
  <2>1. CASE driver'[k].box.seqs = driver[k].box.seqs
    BY <1>1, <1>4, <2>1, CreditStays DEF Attributed
  <2>2. CASE driver'[k].box.seqs # driver[k].box.seqs
    <3>b. PICK b : b = driver[k].box
      OBVIOUS
    <3>1. b \in Box /\ InStep(driver[k]) /\ driver'[k].box # b
      BY <2>2, <3>b, DriversAre DEF Sound, DriverOf
    <3>2. k = h.key /\ b.open # "none" /\ driver'[k].box.seqs = b.seqs \cup {nextSeq}
      BY <1>1, <3>1, <3>b DEF NoteTransmit, Box
    <3>3. OpenOf(driver[k]) # NoCommand
      BY <3>1, <3>2, <3>b DEF InStep, OpenOf, Box
    <3>4. OpenOf(driver[k]).id \in {m.id} \cup crowded
      BY <1>1, <1>3, <1>m, <3>2, <3>3 DEF Attributed, QueueMeant, Meant
    <3>5. m.key = k /\ m.seq = nextSeq /\ m \in wire'
      BY <1>1, <1>m, <3>2
    <3> SUFFICES ASSUME NEW s \in driver'[k].box.seqs
                 PROVE  \E n \in wire' : /\ n.key = k /\ n.seq = s
                                         /\ OpenOf(driver'[k]).id \in {n.id} \cup crowded'
      BY DEF Credited, Meant
    <3>6. CASE s = nextSeq
      BY <1>1, <1>4, <3>4, <3>5, <3>6
    <3>7. CASE s \in b.seqs
      <4>1. PICK n \in wire : /\ n.key = k /\ n.seq = s
                              /\ OpenOf(driver[k]).id \in {n.id} \cup crowded
        BY <3>7, <3>b DEF Attributed, Credited, Meant
      <4> QED
        BY <1>1, <1>4, <4>1
    <3> QED
      BY <3>2, <3>6, <3>7
  <2> QED
    BY <2>1, <2>2
<1> QED
  BY <1>1, <1>5, <1>6 DEF Attributed

LEMMA QuietAttributed ==
  ASSUME IInv, Attributed, Quiet
  PROVE  Attributed'
<1>1. /\ UNCHANGED <<queue, wire, crowded>>
      /\ \A k \in Keys : /\ SameHands(driver[k], driver'[k])
                         /\ driver'[k].box.seqs = driver[k].box.seqs
  BY QuietIs
<1>2. /\ at' = "recover" => queue = << >>
      /\ at' \in {"commands", "receive"} => at \in {"commands", "receive"} \/ queue = << >>
  BY DEF Quiet, StartPoll, HandshakeReply, BeginTick, EndDispatch, KeepDatalink, Elapse,
         CameraHears, vars, Attributed
<1>3. \A k \in Keys : OpenOf(driver'[k]) = OpenOf(driver[k]) /\ driver'[k].due = driver[k].due
  BY <1>1, SameOpen DEF SameHands
<1>4. ASSUME NEW k \in Keys
      PROVE  Credited(k)' /\ QueueMeant(k)'
  <2>1. Credited(k)'
    BY <1>1, <1>3, CreditStays DEF Attributed
  <2>2. CASE queue = << >>
    BY <1>1, <2>1, <2>2 DEF QueueMeant
  <2>3. CASE at' \in {"commands", "receive"} => at \in {"commands", "receive"}
    BY <1>1, <1>3, <2>1, <2>3, WaitStays DEF Attributed
  <2> QED
    BY <1>2, <2>2, <2>3
<1> QED
  BY <1>1, <1>2, <1>4 DEF Attributed

LEMMA StepAttributed ==
  IInv /\ Due /\ InOrder /\ Attributed /\ [Next]_vars => Attributed'
<1> SUFFICES ASSUME IInv, Due, InOrder, Attributed, [Next]_vars
             PROVE  Attributed'
  OBVIOUS
<1>1. CASE Reopen
  BY <1>1, ReopenIs DEF Attributed, Credited, QueueMeant, FreshDriver, FreshBox
<1> QED
  BY <1>1, FireAttributed, ReceiveAttributed, TickAttributed, DispatchAttributed,
     QuietAttributed, StepIsOneOf

-----------------------------------------------------------------------------
(***************************************************************************)
(* Every answer is to a datagram the camera heard, and so is every SET     *)
(* that is reported as acknowledged, or about to be, unless it is crowded. *)
(***************************************************************************)
AnswersHeard ==
  \A a \in answers : \E n \in wire : n.key = a.key /\ n.seq = a.seq /\ n.id \in heard

AcksHeard ==
  \A id \in Ids \ crowded : told[id] \in Acks \/ Verdict(id) \in Acks => id \in heard

(* But for a reopen, the histories and the wire only grow. *)
LEMMA Grows ==
  ASSUME IInv, [Next]_vars, ~Reopen
  PROVE  /\ wire \subseteq wire' /\ heard \subseteq heard' /\ crowded \subseteq crowded'
         /\ answers' = answers \/ \E datagram \in wire : CameraHears(datagram)
<1>1. CASE \E k \in Keys : \E kind \in KindsOf(k) : Fire(k, kind)
  BY <1>1, FireIs DEF Enqueue
<1>2. CASE \E answer \in answers : Receive(answer)
  BY <1>2, ReceiveIs
<1>3. CASE \E k \in Keys : TickKey(k)
  BY <1>3, TickKeyIs DEF Enqueue
<1>4. CASE Dispatch
  BY <1>4, DispatchIs
<1>5. CASE Quiet
  <2>1. UNCHANGED <<wire, crowded>>
    BY <1>5, QuietIs
  <2>2. heard \subseteq heard'
    BY <1>5 DEF Quiet, StartPoll, HandshakeReply, BeginTick, EndDispatch, KeepDatalink,
       Elapse, CameraHears, network, vars
  <2>3. answers' = answers \/ \E datagram \in wire : CameraHears(datagram)
    BY <1>5 DEF Quiet, StartPoll, HandshakeReply, BeginTick, EndDispatch, KeepDatalink,
       Elapse, network, vars
  <2> QED
    BY <2>1, <2>2, <2>3
<1> QED
  BY <1>1, <1>2, <1>3, <1>4, <1>5, StepIsOneOf

LEMMA StepAnswersHeard == IInv /\ AnswersHeard /\ [Next]_vars => AnswersHeard'
<1> SUFFICES ASSUME IInv, AnswersHeard, [Next]_vars
             PROVE  AnswersHeard'
  OBVIOUS
<1>1. CASE Reopen
  BY <1>1, ReopenIs DEF AnswersHeard
<1>2. CASE ~Reopen
  <2>1. /\ wire \subseteq wire' /\ heard \subseteq heard'
        /\ answers' = answers \/ \E datagram \in wire : CameraHears(datagram)
    BY <1>2, Grows
  <2>2. CASE answers' = answers
    BY <2>1, <2>2 DEF AnswersHeard
  <2>3. ASSUME NEW datagram \in wire, CameraHears(datagram)
        PROVE  AnswersHeard'
    BY <2>1, <2>3 DEF AnswersHeard, CameraHears
  <2> QED
    BY <2>1, <2>2, <2>3
<1> QED
  BY <1>1, <1>2

(* The one answer an acknowledgement is based on is to the SET itself. *)
LEMMA AnswerIsToIt ==
  ASSUME Numbered, Attributed, AnswersHeard, NEW k \in Keys, NEW D, Answers(k, D)
  PROVE  OpenOf(driver[k]).id \in heard \cup crowded
<1>1. PICK answer \in answers : answer.key = k /\ answer.seq \in driver[k].box.seqs
  BY DEF Answers, IsAnswered
<1>2. PICK n \in wire : n.seq = answer.seq /\ OpenOf(driver[k]).id \in {n.id} \cup crowded
  BY <1>1 DEF Attributed, Credited, Meant
<1>3. PICK m \in wire : m.seq = answer.seq /\ m.id \in heard
  BY <1>1 DEF AnswersHeard
<1>4. m = n
  BY <1>2, <1>3 DEF Numbered
<1> QED
  BY <1>2, <1>3, <1>4

LEMMA StepAcksHeard ==
  ASSUME IInv, Apart, InOrder, Numbered, Attributed, AnswersHeard, AcksHeard, [Next]_vars
  PROVE  AcksHeard'
<1>1. CASE Reopen
  <2>1. UNCHANGED <<told, heard, crowded>> /\ \A k \in Keys : driver'[k] = FreshDriver
    BY <1>1, ReopenIs
  <2>2. \A k \in Keys : \A id : About(driver'[k], id) = {}
    BY <2>1 DEF About, FreshDriver
  <2>3. \A id : Verdict(id)' = told[id]
    BY <2>1, <2>2 DEF Verdict
  <2> QED
    BY <2>1, <2>3 DEF AcksHeard
<1>2. ASSUME ~Reopen, NEW D, Brings(D), Changes(D)
      PROVE  AcksHeard'
  <2>1. heard \subseteq heard' /\ crowded \subseteq crowded'
    BY <1>2, Grows
  <2>2. \A id \in Ids : /\ Verdict(id)' = VerdictIn(D, told, id)
                        /\ told'[id] = told[id] \/ told'[id] = VerdictIn(D, told, id)
    BY <1>2, VerdictAfter
  <2>3. ASSUME NEW id \in Ids, VerdictIn(D, told, id) \in Acks
        PROVE  Verdict(id) \in Acks \/ id \in heard \cup crowded
    <3>1. CASE Rests(D)
      BY <2>3, <3>1, VerdictRests DEF Rests
    <3>2. CASE ~Rests(D)
      <4>1. PICK k \in Keys :
              /\ \A j \in Keys \ {k} : SameSaid(driver[j], D[j])
              /\ FiresAndHolds(k, D) \/ FiresAndLaunches(k, D) \/ Answers(k, D) \/ TicksOver(k, D)
        BY <1>2, <3>2 DEF Changes
      <4>2. PICK c, v : Speaks(k, D, c, v)
        BY <4>1, ChangeSays
      <4>3. /\ c # NoCommand => c.id \in Tracked(driver[k])
            /\ D[k].outcomes = Said(driver[k].outcomes, c, v)
            /\ v \in Acks => Answers(k, D) /\ c = OpenOf(driver[k])
        BY <4>2 DEF Speaks
      <4>4. VerdictIn(D, told, id) = IF c # NoCommand /\ id = c.id THEN v ELSE Verdict(id)
        BY <4>1, <4>3, VerdictSaid
      <4>5. CASE c # NoCommand /\ id = c.id
        BY <2>3, <4>3, <4>4, <4>5, AnswerIsToIt
      <4> QED
        BY <2>3, <4>4, <4>5
    <3> QED
      BY <3>1, <3>2
  <2>4. ASSUME NEW id \in Ids \ crowded', told'[id] \in Acks \/ Verdict(id)' \in Acks
        PROVE  id \in heard'
    <3>1. told[id] \in Acks \/ VerdictIn(D, told, id) \in Acks
      BY <2>2, <2>4
    <3>2. told[id] \in Acks \/ Verdict(id) \in Acks \/ id \in heard \cup crowded
      BY <2>3, <3>1
    <3> QED
      BY <2>1, <2>4, <3>2 DEF AcksHeard
  <2> QED
    BY <2>4 DEF AcksHeard
<1> QED
  BY <1>1, <1>2, StepChanges

(***************************************************************************)
(* An acknowledgement the shell is told of was earned: the camera received *)
(* that SET, not an older one of its opcode or one from before a reopen.   *)
(* For every number of opcodes and reopens, any network, any pace of the   *)
(* worker, and any number of SETs that the 16 bits of the sequence number  *)
(* tell apart; with more of them on one datalink a number would come back. *)
(***************************************************************************)
THEOREM AcksAreEarned ==
  ASSUME 2 * MaxFires < SeqModulus
  PROVE  Spec => []AckedWasHeardUnlessCrowded
<1> DEFINE Earned == Numbered /\ Attributed /\ AnswersHeard /\ AcksHeard
<1>1. Init => Earned
  <2> SUFFICES ASSUME Init
               PROVE  Earned
    OBVIOUS
  <2>1. Numbered /\ AnswersHeard
    BY FS_EmptySet DEF Init, Numbered, AnswersHeard
  <2>2. Attributed
    BY DEF Init, Attributed, Credited, QueueMeant, FreshDriver, FreshBox
  <2>3. AcksHeard
    <3>1. \A k \in Keys : \A id \in Ids : About(driver[k], id) = {}
      BY DEF Init, About, FreshDriver
    <3> QED
      BY <3>1 DEF Init, AcksHeard, Acks, Verdict
  <2> QED
    BY <2>1, <2>2, <2>3
<1>2. IInv /\ IInv' /\ Apart /\ Due /\ InOrder /\ Counted /\ Counted' /\ Earned /\ [Next]_vars
        => Earned'
  BY StepNumbered, StepAttributed, StepAnswersHeard, StepAcksHeard
<1>3. Earned => AckedWasHeardUnlessCrowded
  BY DEF AcksHeard, Acks, AckedWasHeardUnlessCrowded
<1> QED
  BY <1>1, <1>2, <1>3, AlwaysSound, AlwaysApart, AlwaysDue, AlwaysInOrder, AlwaysCounted, PTL
     DEF Spec

-----------------------------------------------------------------------------
(***************************************************************************)
(* What left, or is about to leave, is known to its driver or was told.    *)
(***************************************************************************)
Heeded(k, id) == Known(driver[k], id) \/ told[id] # "nothing"

GoneIsHeeded == \A k \in Keys : \A id \in Gone(k) : Heeded(k, id)

(* What left has the number of a SET.                                        *)
LEMMA GoneIds ==
  ASSUME IInv, NEW k \in Keys, NEW id \in Gone(k)
  PROVE  id \in Ids /\ id \in Nat \ {0}
<1>1. Typed
  BY DriversAre
<1>2. \A n \in wire : n.id \in Ids
  <2> TAKE n \in wire
  <2>1. n \in [key : Keys, seq : SeqNo, id : sent] /\ sent \subseteq Ids
    BY <1>1 DEF Typed
  <2> QED
    BY <2>1
<1>3. \A i \in DOMAIN queue : queue[i].command.id \in Ids
  <2> TAKE i \in DOMAIN queue
  <2>1. queue[i] \in Entry
    BY <1>1 DEF Typed
  <2> QED
    BY <2>1 DEF Entry, Fired
<1>4. id \in Ids
  BY <1>2, <1>3, GoneAre
<1> QED
  BY <1>4, FiredCommands

(* One driver changes and nothing is told: what it drops it has a verdict on. *)
LEMMA OneDriverHeeds ==
  ASSUME IInv, UNCHANGED told, NEW j \in Keys, NEW e, Follows(driver[j], e),
         driver' = [driver EXCEPT ![j] = e],
         NEW k \in Keys, NEW id \in Ids, Heeded(k, id)
  PROVE  Heeded(k, id)'
<1>1. driver \in [Keys -> DriverOf(Fired)]
  BY DriversAre
<1>2. driver'[k] = IF k = j THEN e ELSE driver[k]
  BY <1>1
<1>3. id \in Nat \ {0}
  BY FiredCommands
<1> QED
  BY <1>2, <1>3 DEF Heeded, Follows

(* No step but a fire and a rebuild lets go of a SET without a verdict.      *)
LEMMA StepHeeds ==
  ASSUME IInv, [Next]_vars, UNCHANGED <<fired, reopens>>,
         NEW k \in Keys, NEW id \in Ids, Heeded(k, id)
  PROVE  Heeded(k, id)'
<1>1. /\ Typed /\ driver \in [Keys -> DriverOf(Fired)]
      /\ \A j \in Keys : Sound(Fired, driver[j])
      /\ told \in [Ids -> Verdicts \cup {"nothing"}]
      /\ id \in Nat \ {0}
  BY DriversAre, FiredCommands DEF Typed
<1>2. ASSUME NEW j \in Keys, NEW kind \in KindsOf(j), Fire(j, kind)
      PROVE  FALSE
  BY <1>1, <1>2 DEF Fire, Typed
<1>3. ASSUME NEW answer \in answers, Receive(answer)
      PROVE  Heeded(k, id)'
  <2> DEFINE key == answer.key
             e   == Reply(driver[key], answer.seq, Hold(key))
             D   == [driver EXCEPT ![key] = e]
  <2>1. key \in Keys /\ answer.seq \in SeqNo /\ Hold(key) \in Nat
    BY <1>1, HoldType DEF Typed, Answer
  <2>2. Sound(Fired, e) /\ Follows(driver[key], e)
    BY <1>1, <2>1, FiredCommands, ReplyKeeps
  <2>3. TakeOutcomes(D)
    BY <1>3 DEF Receive
  <2> HIDE DEF e
  <2>4. /\ D \in [Keys -> DriverOf(Fired)]
        /\ \A j \in Keys : Sound(Fired, D[j])
        /\ \A j \in Keys : D[j] = IF j = key THEN e ELSE driver[j]
    BY <1>1, <2>1, <2>2, OneDriverChanges
  <2>5. Known(D[k], id) \/ told[id] # "nothing"
    BY <1>1, <2>2, <2>4 DEF Heeded, Follows
  <2> HIDE DEF D
  <2> QED
    BY <1>1, <2>3, <2>4, <2>5, TakingOutcomes DEF Heeded
<1>4. CASE BeginTick
  <2>1. TakeOutcomes(driver)
    BY <1>4 DEF BeginTick
  <2> QED
    BY <1>1, <2>1, TakingOutcomes DEF Heeded
<1>5. ASSUME NEW j \in Keys, TickKey(j)
      PROVE  Heeded(k, id)'
  <2> DEFINE pipelines == j \in Pipelined
             e         == Tick(driver[j], pipelines, Hold(j))
  <2>1. driver' = [driver EXCEPT ![j] = e] /\ UNCHANGED told
    BY <1>5 DEF TickKey
  <2>2. Follows(driver[j], e)
    <3>1. pipelines \in BOOLEAN
      OBVIOUS
    <3> HIDE DEF pipelines
    <3> QED
      BY <1>1, <3>1, HoldType, FiredCommands, TickKeeps
  <2> HIDE DEF e
  <2> QED
    BY <2>1, <2>2, OneDriverHeeds
<1>6. CASE Dispatch
  <2> DEFINE j == Head(queue).key
             e == [driver[j] EXCEPT !.box = NoteTransmit(driver[j].box, nextSeq)]
  <2>1. driver' = [driver EXCEPT ![j] = e] /\ UNCHANGED told
    BY <1>6 DEF Dispatch
  <2>2. j \in Keys
    BY <1>6, DispatchIs DEF Entry
  <2>3. Follows(driver[j], e)
    BY <1>1, <2>2, FiredCommands, CreditKeeps DEF Typed
  <2> HIDE DEF e, j
  <2> QED
    BY <2>1, <2>2, <2>3, OneDriverHeeds
<1>7. CASE Reopen
  BY <1>1, <1>7 DEF Reopen, Typed
<1>8. CASE Elapse
  <2>1. driver'[k] = Age(driver[k]) /\ UNCHANGED told
    BY <1>8 DEF Elapse
  <2>2. Follows(driver[k], Age(driver[k]))
    BY <1>1, FiredCommands, AgeKeeps
  <2> QED
    BY <1>1, <2>1, <2>2 DEF Heeded, Follows
<1>9. CASE \/ StartPoll \/ HandshakeReply \/ EndDispatch \/ KeepDatalink \/ UNCHANGED vars
           \/ \E datagram \in wire : CameraHears(datagram)
  <2>1. UNCHANGED <<driver, told>>
    BY <1>9 DEF StartPoll, HandshakeReply, EndDispatch, KeepDatalink, CameraHears, vars
  <2> QED
    BY <2>1 DEF Heeded
<1> QED
  BY <1>2, <1>3, <1>4, <1>5, <1>6, <1>7, <1>8, <1>9 DEF Next

(* A fire lets go of the SET that was held, which has not left.              *)
LEMMA FireHeeds ==
  ASSUME IInv, Catalogued, InOrder, GoneIsHeeded,
         NEW j \in Keys, NEW kind \in KindsOf(j), Fire(j, kind)
  PROVE  GoneIsHeeded'
<1>c. PICK command : command = [id |-> fired + 1, kind |-> kind]
  OBVIOUS
<1>1. /\ command \in Fired /\ command.id = fired + 1
      /\ wire' = wire /\ told' = told
      /\ \A k \in Keys \ {j} : driver'[k] = driver[k]
      /\ \/ Holds(driver[j], driver'[j], command) /\ queue' = queue
         \/ /\ PutsInFlight(driver[j], driver'[j], command)
            /\ queue' = queue \o Entries(j, << command >>)
  BY <1>c, FireIs DEF Enqueue
<1>2. /\ queue \in Seq(Entry) /\ driver[j] \in DriverOf(Fired) /\ Sound(Fired, driver[j])
  BY DriversAre DEF Typed
<1>3. ASSUME NEW id \in Gone(j)
      PROVE  /\ id \in Nat \ {0} /\ id # driver[j].pending.id
             /\ \/ driver[j].inflight # NoCommand /\ id = driver[j].inflight.id
                \/ driver[j].late # NoCommand /\ id = driver[j].late.id
                \/ About(driver[j], id) # {}
                \/ told[id] # "nothing"
  <2>1. id \in Nat \ {0} /\ Heeded(j, id)
    BY GoneIds DEF GoneIsHeeded
  <2>2. driver[j].pending # NoCommand => id < driver[j].pending.id
    BY DEF InOrder, DriverAhead
  <2>3. /\ driver[j].pending.id \in Nat
        /\ NoCommand.id = 0
    BY <1>2, FiredIds DEF DriverOf, NoCommand
  <2>4. id # driver[j].pending.id
    BY <2>1, <2>2, <2>3
  <2> QED
    BY <2>1, <2>3, <2>4 DEF Heeded, Known, Tracked
<1>4. CASE Holds(driver[j], driver'[j], command) /\ queue' = queue
  <2> SUFFICES ASSUME NEW k \in Keys, NEW id \in Gone(k)'
               PROVE  Heeded(k, id)'
    BY DEF GoneIsHeeded
  <2>1. id \in Gone(k)
    BY <1>1, <1>4, SameGone
  <2>2. CASE k = j
    BY <1>1, <1>3, <1>4, <2>1, <2>2 DEF Holds, Heeded, Known, Tracked, About
  <2>3. CASE k # j
    BY <1>1, <2>1, <2>3 DEF GoneIsHeeded, Heeded
  <2> QED
    BY <2>2, <2>3
<1>5. CASE /\ PutsInFlight(driver[j], driver'[j], command)
           /\ queue' = queue \o Entries(j, << command >>)
  <2> SUFFICES ASSUME NEW k \in Keys, NEW id \in Gone(k)'
               PROVE  Heeded(k, id)'
    BY DEF GoneIsHeeded
  <2>1. /\ << command >> \in Seq(Fired)
        /\ DOMAIN << command >> = {1} /\ << command >>[1] = command
    BY <1>1
  <2>2. IsJoined(queue, j, << command >>, queue')
    BY <1>2, <1>5, <2>1, JoinedAre, Zenon
  <2>3. id \in Gone(k) \/ (k = j /\ id = command.id)
    <3>1. \/ \E n \in wire : n.key = k /\ id = n.id
          \/ \E i \in DOMAIN queue' : queue'[i].key = k /\ id = queue'[i].command.id
      BY <1>1 DEF Gone
    <3>2. CASE \E n \in wire : n.key = k /\ id = n.id
      BY <3>2, GoneAre
    <3>3. CASE \E i \in DOMAIN queue' : queue'[i].key = k /\ id = queue'[i].command.id
      <4>1. PICK i \in DOMAIN queue' : queue'[i].key = k /\ id = queue'[i].command.id
        BY <3>3
      <4>2. \/ i \in DOMAIN queue /\ queue'[i] = queue[i]
            \/ queue'[i] = [key |-> j, command |-> command]
        <5>1. \/ i \in DOMAIN queue /\ queue'[i] = queue[i]
              \/ \E a \in DOMAIN << command >> :
                   queue'[i] = [key |-> j, command |-> << command >>[a]]
          BY <2>2 DEF IsJoined
        <5> QED
          BY <2>1, <5>1
      <4> QED
        BY <4>1, <4>2, GoneAre
    <3> QED
      BY <3>1, <3>2, <3>3
  <2>4. CASE k # j
    BY <1>1, <2>3, <2>4 DEF GoneIsHeeded, Heeded
  <2>5. CASE k = j /\ id = command.id
    BY <1>5, <2>5 DEF PutsInFlight, Heeded, Known, Tracked
  <2>6. CASE k = j /\ id \in Gone(j)
    <3>1. driver'[j].outcomes = Said(driver[j].outcomes, OpenOf(driver[j]), "superseded")
      BY <1>5 DEF PutsInFlight
    <3>2. /\ About(driver[j], id) # {} => About(driver'[j], id) # {}
          /\ OpenOf(driver[j]) # NoCommand /\ OpenOf(driver[j]).id = id
               => About(driver'[j], id) # {}
      <4>1. driver[j].outcomes \in Seq(OutcomeOf(Fired))
        BY <1>2 DEF DriverOf
      <4>2. Adds(driver[j], driver'[j], OpenOf(driver[j]), "superseded")
        BY <3>1, <4>1, SaidIs
      <4> QED
        BY <4>2 DEF Adds
    <3>3. /\ driver[j].inflight # NoCommand => OpenOf(driver[j]) = driver[j].inflight
          /\ driver[j].late # NoCommand => OpenOf(driver[j]) = driver[j].late
      BY <1>2 DEF OpenOf, Sound, InStep
    <3> QED
      BY <1>1, <1>3, <2>6, <3>2, <3>3 DEF Heeded, Known
  <2> QED
    BY <2>3, <2>4, <2>5, <2>6
<1> QED
  BY <1>1, <1>4, <1>5

(* A tick sends what the driver has in hand.                                  *)
LEMMA TickHeeds ==
  ASSUME IInv, Catalogued, Due, InOrder, GoneIsHeeded, [Next]_vars,
         NEW j \in Keys, TickKey(j)
  PROVE  GoneIsHeeded'
<1>d. PICK d : d = driver[j]
  OBVIOUS
<1>e. PICK e : e = driver'[j]
  OBVIOUS
<1>1. PICK s : s = TickSends(d, j \in Pipelined)
  OBVIOUS
<1>2. /\ s \in Seq(Fired) /\ queue' = queue \o Entries(j, s) /\ wire' = wire
      /\ Ticks(d, e, j \in Pipelined, s)
  BY <1>1, <1>d, <1>e, TickKeyIs DEF Enqueue
<1>3. PICK again, last : TickBrief(d, e, again, last) /\ s = d.due \o again \o last
  BY <1>2, TickInBrief
<1>4. /\ d \in DriverOf(Fired) /\ queue \in Seq(Entry)
      /\ d.due = << >> \/ (d.inflight # NoCommand /\ d.due = << d.inflight >>)
      /\ d.inflight # NoCommand /\ d.pending # NoCommand => d.inflight.id < d.pending.id
      /\ last # << >> => d.pending # NoCommand
  BY <1>d, <1>3, DriversAre DEF Due, InOrder, DriverAhead, Typed, TickBrief
<1>5. \A a \in DOMAIN s : s[a] \in {d.inflight, d.pending} /\ s[a] # NoCommand
  <2>1. s = SendsOf(d, again, last)
    BY <1>3 DEF SendsOf
  <2> QED
    BY <1>3, <1>4, <2>1, SendsInOrder
<1>6. \A a \in DOMAIN s : s[a].id \in Ids /\ Heeded(j, s[a].id)
  <2> TAKE a \in DOMAIN s
  <2>1. s[a] \in Fired
    BY <1>2
  <2> QED
    BY <1>5, <1>d, <2>1 DEF Fired, Heeded, Known, Tracked
<1>7. IsJoined(queue, j, s, queue')
  BY <1>2, <1>4, JoinedAre, Zenon
<1>8. ASSUME NEW k \in Keys, NEW id \in Gone(k)'
      PROVE  Heeded(k, id) /\ id \in Ids
  <2>1. \/ \E n \in wire : n.key = k /\ id = n.id
        \/ \E i \in DOMAIN queue' : queue'[i].key = k /\ id = queue'[i].command.id
    BY <1>2 DEF Gone
  <2>2. CASE id \in Gone(k)
    BY <2>2, GoneIds DEF GoneIsHeeded
  <2>3. CASE \E n \in wire : n.key = k /\ id = n.id
    BY <2>2, <2>3, GoneAre
  <2>4. CASE \E i \in DOMAIN queue' : queue'[i].key = k /\ id = queue'[i].command.id
    <3>1. PICK i \in DOMAIN queue' : queue'[i].key = k /\ id = queue'[i].command.id
      BY <2>4
    <3>2. \/ i \in DOMAIN queue /\ queue'[i] = queue[i]
          \/ \E a \in DOMAIN s : queue'[i] = [key |-> j, command |-> s[a]]
      BY <1>7 DEF IsJoined
    <3>3. CASE i \in DOMAIN queue /\ queue'[i] = queue[i]
      BY <2>2, <3>1, <3>3, GoneAre
    <3>4. CASE \E a \in DOMAIN s : queue'[i] = [key |-> j, command |-> s[a]]
      BY <1>6, <3>1, <3>4
    <3> QED
      BY <3>2, <3>3, <3>4
  <2> QED
    BY <2>1, <2>3, <2>4
<1>9. UNCHANGED <<fired, reopens>>
  BY DEF TickKey, network
<1> QED
  BY <1>8, <1>9, StepHeeds DEF GoneIsHeeded

(* A datagram that leaves was queued.                                        *)
LEMMA DispatchGone ==
  ASSUME IInv, Dispatch, NEW k \in Keys
  PROVE  Gone(k)' \subseteq Gone(k)
<1>h. PICK h : h = Head(queue)
  OBVIOUS
<1>1. /\ queue # << >> /\ queue' = Tail(queue)
      /\ wire' = wire \cup {[key |-> h.key, seq |-> nextSeq, id |-> h.command.id]}
  BY <1>h, DispatchIs
<1>2. queue \in Seq(Entry) /\ Len(queue) \in Nat /\ DOMAIN queue = 1 .. Len(queue)
  BY DriversAre DEF Typed
<1>3. /\ 1 \in DOMAIN queue /\ queue[1] = h
      /\ \A i \in DOMAIN queue' : i + 1 \in DOMAIN queue /\ queue'[i] = queue[i + 1]
  BY <1>1, <1>2, <1>h
<1>4. \A m \in wire' : m \in wire \/ (m.key = h.key /\ m.id = h.command.id)
  BY <1>1
<1> SUFFICES ASSUME NEW id \in Gone(k)'
             PROVE  id \in Gone(k)
  OBVIOUS
<1>5. \/ \E n \in wire' : n.key = k /\ id = n.id
      \/ \E i \in DOMAIN queue' : queue'[i].key = k /\ id = queue'[i].command.id
  BY DEF Gone
<1> QED
  BY <1>3, <1>4, <1>5, GoneAre

LEMMA StepGoneHeeded ==
  IInv /\ Catalogued /\ Due /\ InOrder /\ GoneIsHeeded /\ [Next]_vars => GoneIsHeeded'
<1> SUFFICES ASSUME IInv, Catalogued, Due, InOrder, GoneIsHeeded, [Next]_vars
             PROVE  GoneIsHeeded'
  OBVIOUS
<1>1. ASSUME UNCHANGED <<fired, reopens>>, \A k \in Keys : Gone(k)' \subseteq Gone(k)
      PROVE  GoneIsHeeded'
  BY <1>1, GoneIds, StepHeeds DEF GoneIsHeeded
<1>2. ASSUME NEW k \in Keys, NEW kind \in KindsOf(k), Fire(k, kind)
      PROVE  GoneIsHeeded'
  BY <1>2, FireHeeds
<1>3. ASSUME NEW answer \in answers, Receive(answer)
      PROVE  GoneIsHeeded'
  <2>1. UNCHANGED <<queue, wire, fired, reopens>>
    BY <1>3, ReceiveIs
  <2> QED
    BY <1>1, <2>1, SameGone
<1>4. ASSUME NEW k \in Keys, TickKey(k)
      PROVE  GoneIsHeeded'
  BY <1>4, TickHeeds
<1>5. CASE Dispatch
  BY <1>1, <1>5, DispatchGone, DispatchIs
<1>6. CASE Reopen
  <2>1. \A k \in Keys : Gone(k)' = {}
    BY <1>6, ReopenIs DEF Gone
  <2> QED
    BY <2>1 DEF GoneIsHeeded
<1>7. CASE Quiet
  <2>1. UNCHANGED <<queue, wire, fired, reopens>>
    BY <1>7, QuietIs
  <2> QED
    BY <1>1, <2>1, SameGone
<1> QED
  BY <1>2, <1>3, <1>4, <1>5, <1>6, <1>7, StepIsOneOf

LEMMA AlwaysHeeded == Spec => []GoneIsHeeded
<1>1. Init => GoneIsHeeded
  BY DEF Init, GoneIsHeeded, Gone
<1> QED
  BY <1>1, AlwaysSound, AlwaysCatalogued, AlwaysDue, AlwaysInOrder, StepGoneHeeded, PTL DEF Spec

(* What is heeded is in hand or has a verdict. *)
LEMMA HeededIs ==
  ASSUME IInv, NEW k \in Keys, NEW id \in Ids, Heeded(k, id), id \notin Tracked(driver[k])
  PROVE  Verdict(id) # "nothing"
<1> DEFINE From   == {j \in Keys : About(driver[j], id) # {}}
           teller == CHOOSE j \in From : TRUE
<1>1. About(driver[k], id) # {} \/ told[id] # "nothing"
  BY DEF Heeded, Known
<1>2. CASE From = {}
  <2>1. Verdict(id) = told[id]
    BY <1>2 DEF Verdict
  <2> QED
    BY <1>1, <1>2, <2>1
<1>3. CASE From # {}
  <2>1. teller \in From
    BY <1>3
  <2>2. Verdict(id) = LastVerdict(driver[teller], id)
    BY <1>3 DEF Verdict
  <2>3. driver[teller] \in DriverOf(Fired) /\ About(driver[teller], id) # {}
    BY <2>1, DriversAre
  <2> HIDE DEF teller
  <2>4. Verdict(id) \in Verdicts
    BY <2>2, <2>3, FiredCommands, LastVerdictType
  <2> QED
    BY <2>4 DEF Verdicts
<1> QED
  BY <1>2, <1>3

(***************************************************************************)
(* As long as a datalink lasts, a SET that left on it is in the driver's   *)
(* hands or has a verdict, whatever is fired, answered, lost or timed out, *)
(* and however many datalinks there were before.                           *)
(***************************************************************************)
THEOREM LeftIsKept == Spec => []LeftIsFollowedUp
<1>1. ASSUME IInv, GoneIsHeeded
      PROVE  LeftIsFollowedUp
  <2> SUFFICES ASSUME NEW m \in wire, m.id \notin Tracked(driver[m.key])
               PROVE  Verdict(m.id) # "nothing"
    BY DEF LeftIsFollowedUp
  <2>1. m.key \in Keys
    BY <1>1 DEF IInv, Typed
  <2>2. m.id \in Gone(m.key)
    BY <1>1, <2>1, GoneAre
  <2>3. m.id \in Ids /\ Heeded(m.key, m.id)
    BY <1>1, <2>1, <2>2, GoneIds DEF GoneIsHeeded
  <2> QED
    BY <1>1, <2>1, <2>3, HeededIs
<1> QED
  BY <1>1, AlwaysSound, AlwaysHeeded, PTL

(***************************************************************************)
(* It takes a rebuild to forget a SET that was sent: until the datalink is *)
(* reopened for the first time every SET that left is in the driver's      *)
(* hands or has a verdict.                                                 *)
(***************************************************************************)
THEOREM OnlyARebuildForgets == Spec => [](reopens = 0 => SentIsFollowedUp)
<1> DEFINE Left == reopens = 0 => sent = {m.id : m \in wire}
<1>1. Init => Left
  BY DEF Init
<1>2. IInv /\ Left /\ [Next]_vars => Left'
  <2> SUFFICES ASSUME IInv, Left, [Next]_vars
               PROVE  Left'
    OBVIOUS
  <2>1. CASE Dispatch
    <3> DEFINE id == Head(queue).command.id
               m  == [key |-> Head(queue).key, seq |-> nextSeq, id |-> id]
    <3>1. wire' = wire \cup {m} /\ sent' = sent \cup {id} /\ reopens' = reopens
      BY <2>1 DEF Dispatch
    <3>2. m.id = id
      OBVIOUS
    <3> HIDE DEF m, id
    <3>3. {n.id : n \in wire \cup {m}} = {n.id : n \in wire} \cup {id}
      BY <3>2
    <3> QED
      BY <3>1, <3>3
  <2>2. CASE Reopen
    <3>1. reopens \in Nat /\ reopens' = reopens + 1
      BY <2>2, SessionAssumption DEF Reopen, IInv, Typed
    <3> QED
      BY <3>1
  <2>3. UNCHANGED <<sent, wire, reopens>> \/ Dispatch \/ Reopen
    BY DEF Next, Fire, StartPoll, HandshakeReply, Receive, BeginTick, TickKey,
           EndDispatch, KeepDatalink, CameraHears, Elapse, network, vars
  <2> QED
    BY <2>1, <2>2, <2>3
<1>3. ASSUME IInv, Left, LeftIsFollowedUp, reopens = 0
      PROVE  SentIsFollowedUp
  <2> SUFFICES ASSUME NEW id \in sent, Verdict(id) = "nothing"
               PROVE  \E k \in Keys : id \in Tracked(driver[k])
    BY DEF SentIsFollowedUp
  <2>1. PICK m \in wire : id = m.id
    BY <1>3
  <2>2. m.key \in Keys
    BY <1>3 DEF IInv, Typed
  <2> QED
    BY <1>3, <2>1, <2>2 DEF LeftIsFollowedUp
<1>4. IInv /\ Left /\ LeftIsFollowedUp => (reopens = 0 => SentIsFollowedUp)
  BY <1>3
<1> HIDE DEF Left
<1> QED
  BY <1>1, <1>2, <1>4, AlwaysSound, LeftIsKept, PTL DEF Spec

=============================================================================
