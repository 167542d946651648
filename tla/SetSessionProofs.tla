--------------------------- MODULE SetSessionProofs ---------------------------
(***************************************************************************)
(* Proofs about SetSession for every value of its constants: any opcodes,  *)
(* any number of SETs and rebuilds, any clocks.                            *)
(***************************************************************************)
EXTENDS SetSession, SetDriverProofs, FiniteSetTheorems, WellFoundedInduction

(* The SETs the operator can have fired, and the queue entries of these. *)
Fired == [id : Ids, kind : Kinds]

Entry == [key : Keys, command : Fired]

(***************************************************************************)
(* The inductive invariant.  Beyond the types it knows that every command  *)
(* in the driver, the queue and on the wire is one the operator fired, and *)
(* that what is on the wire was recorded as sent; driver and mailbox are   *)
(* in step; and the newest SET of an opcode is in the driver's hands, has  *)
(* an outcome waiting, or was told about.                                  *)
(***************************************************************************)
Typed ==
  /\ at \in {"commands", "receive", "tick", "dispatch", "recover"}
  /\ todo \subseteq Keys
  /\ phase \in {"Handshaking", "Open"}
  /\ queue \in Seq(Entry)
  /\ nextSeq \in SeqNo
  /\ wire \subseteq [key : Keys, seq : SeqNo, id : sent]
  /\ answers \subseteq Answer
  /\ fired \in 0 .. MaxFires
  /\ reopens \in 0 .. MaxReopens
  /\ polled \in BOOLEAN
  /\ newest \in [Keys -> 0 .. MaxFires]
  /\ told \in [Ids -> Verdicts \cup {"nothing"}]
  /\ sent \subseteq Ids
  /\ heard \subseteq sent
  /\ crowded \subseteq Ids

DriversSound ==
  /\ driver \in [Keys -> DriverOf(Fired)]
  /\ \A k \in Keys : Sound(Fired, driver[k])

NewestIsKnown ==
  \A k \in Keys : newest[k] # 0 => \/ Known(driver[k], newest[k])
                                   \/ told[newest[k]] # "nothing"

IInv == Typed /\ DriversSound /\ NewestIsKnown

-----------------------------------------------------------------------------
LEMMA FiredCommands == Fired \in SUBSET Command /\ Ids \in SUBSET (Nat \ {0})
BY SessionAssumption DEF Fired, Command, Ids

LEMMA HoldType ==
  ASSUME NEW k \in Keys
  PROVE  Hold(k) \in Nat
BY SessionAssumption DEF Hold

(* A nonempty set of positions has a last one. *)
LEMMA HasMaximum ==
  ASSUME NEW n \in Nat, NEW S \in SUBSET (1 .. n), S # {}
  PROVE  \E i \in S : \A j \in S : j <= i
<1> DEFINE Above(i) == {j \in S : j > i}
           T == {Above(i) : i \in S}
<1>1. IsFiniteSet(S)
  <2>1. IsFiniteSet(1 .. n)
    BY FS_Interval
  <2> QED
    BY <2>1, FS_Subset
<1>2. IsWellFoundedOn(StrictSubsetOrdering(S), FiniteSubsetsOf(S))
  BY FS_StrictSubsetOrderingWellFounded
<1>3. T \subseteq FiniteSubsetsOf(S)
  BY <1>1, FS_Subset DEF FiniteSubsetsOf
<1>4. PICK x \in T : \A y \in T : ~ (<<y, x>> \in StrictSubsetOrdering(S))
  <2>1. T # {}
    OBVIOUS
  <2> HIDE DEF T
  <2> QED
    BY <1>2, <1>3, <2>1, WFMin
<1>5. PICK i \in S : x = Above(i)
  OBVIOUS
<1>6. ASSUME NEW j \in S, j > i
      PROVE  FALSE
  <2>1. Above(j) \subseteq Above(i)
    <3> SUFFICES ASSUME NEW k \in S, k > j
                 PROVE  k > i
      OBVIOUS
    <3>1. {i, j, k} \subseteq Nat
      OBVIOUS
    <3> QED
      BY <1>6, <3>1
  <2>2. j \in Above(i) /\ j \notin Above(j)
    BY <1>6
  <2>3. <<Above(j), x>> \in StrictSubsetOrdering(S)
    BY <1>5, <2>1, <2>2 DEF StrictSubsetOrdering
  <2> QED
    BY <1>4, <2>3
<1> QED
  BY <1>6

(* The last verdict on a SET is one of the verdicts. *)
LEMMA LastVerdictType ==
  ASSUME NEW C \in SUBSET Command, NEW d \in DriverOf(C), NEW id, About(d, id) # {}
  PROVE  LastVerdict(d, id) \in Verdicts
<1>1. /\ d.outcomes \in Seq(OutcomeOf(C)) /\ Len(d.outcomes) \in Nat
      /\ DOMAIN d.outcomes = 1 .. Len(d.outcomes)
  BY DEF DriverOf
<1>2. About(d, id) \in SUBSET (1 .. Len(d.outcomes))
  BY <1>1 DEF About
<1>3. \E i \in About(d, id) : \A j \in About(d, id) : j <= i
  BY <1>1, <1>2, HasMaximum
<1> DEFINE last == CHOOSE i \in About(d, id) : \A j \in About(d, id) : j <= i
<1>4. last \in About(d, id)
  BY <1>3
<1>5. d.outcomes[last] \in OutcomeOf(C)
  <2> HIDE DEF last
  <2> QED
    BY <1>1, <1>2, <1>4, ElementOfSeq
<1> QED
  BY <1>5 DEF LastVerdict, OutcomeOf

(* Changing one driver for a sound one. *)
LEMMA OneDriverChanges ==
  ASSUME NEW D \in [Keys -> DriverOf(Fired)], \A j \in Keys : Sound(Fired, D[j]),
         NEW k \in Keys, NEW e, Sound(Fired, e)
  PROVE  /\ [D EXCEPT ![k] = e] \in [Keys -> DriverOf(Fired)]
         /\ \A j \in Keys : Sound(Fired, [D EXCEPT ![k] = e][j])
         /\ \A j \in Keys : [D EXCEPT ![k] = e][j] = IF j = k THEN e ELSE D[j]
<1>1. e \in DriverOf(Fired)
  BY DEF Sound
<1> QED
  BY <1>1

(* Telling the shell loses no news. *)
LEMMA TakingOutcomes ==
  ASSUME NEW D \in [Keys -> DriverOf(Fired)], \A j \in Keys : Sound(Fired, D[j]),
         told \in [Ids -> Verdicts \cup {"nothing"}],
         TakeOutcomes(D)
  PROVE  /\ DriversSound'
         /\ told' \in [Ids -> Verdicts \cup {"nothing"}]
         /\ \A k \in Keys : \A id \in Ids :
              Known(D[k], id) \/ told[id] # "nothing"
                => Known(driver'[k], id) \/ told'[id] # "nothing"
<1> USE FiredCommands
<1> DEFINE e(k) == [D[k] EXCEPT !.outcomes = << >>]
           From(id) == {k \in Keys : About(D[k], id) # {}}
<1>1. driver' = [k \in Keys |-> e(k)]
  BY DEF TakeOutcomes
<1>2. \A k \in Keys : Sound(Fired, e(k)) /\ Tracked(e(k)) = Tracked(D[k])
  BY TakeKeeps
<1>3. DriversSound'
  <2> HIDE DEF e
  <2> QED
    BY <1>1, <1>2 DEF DriversSound, Sound
<1>4. ASSUME NEW id \in Ids
      PROVE  told'[id] = IF From(id) = {} THEN told[id]
                         ELSE LastVerdict(D[CHOOSE k \in From(id) : TRUE], id)
  BY DEF TakeOutcomes
<1>5. ASSUME NEW id \in Ids, From(id) # {}
      PROVE  told'[id] \in Verdicts
  <2> DEFINE k == CHOOSE j \in From(id) : TRUE
  <2>1. k \in From(id)
    BY <1>5
  <2>2. D[k] \in DriverOf(Fired) /\ About(D[k], id) # {}
    BY <2>1
  <2>3. told'[id] = LastVerdict(D[k], id)
    BY <1>4, <1>5
  <2> HIDE DEF k
  <2> QED
    BY <2>2, <2>3, LastVerdictType
<1>6. told' \in [Ids -> Verdicts \cup {"nothing"}]
  <2>1. told' = [id \in Ids |-> told'[id]]
    BY DEF TakeOutcomes
  <2>2. \A id \in Ids : told'[id] \in Verdicts \cup {"nothing"}
    <3> TAKE id \in Ids
    <3>1. CASE From(id) = {}
      BY <1>4, <3>1
    <3>2. CASE From(id) # {}
      BY <1>5, <3>2
    <3> QED
      BY <3>1, <3>2
  <2> QED
    BY <2>1, <2>2
<1>7. ASSUME NEW k \in Keys, NEW id \in Ids, Known(D[k], id) \/ told[id] # "nothing"
      PROVE  Known(driver'[k], id) \/ told'[id] # "nothing"
  <2>1. "nothing" \notin Verdicts
    BY DEF Verdicts
  <2>2. CASE From(id) # {}
    BY <1>5, <2>1, <2>2
  <2>3. CASE From(id) = {}
    <3>1. told'[id] = told[id]
      BY <1>4, <2>3
    <3>2. About(D[k], id) = {}
      BY <2>3
    <3>3. driver'[k] = e(k)
      BY <1>1
    <3>4. Tracked(driver'[k]) = Tracked(D[k])
      BY <1>2, <3>3
    <3> QED
      BY <1>7, <3>1, <3>2, <3>4 DEF Known
  <2> QED
    BY <2>2, <2>3
<1> QED
  BY <1>3, <1>6, <1>7

-----------------------------------------------------------------------------
LEMMA InitSound == Init => IInv
<1> SUFFICES ASSUME Init PROVE IInv
  OBVIOUS
<1> USE FiredCommands, SessionAssumption, MailboxAssumption DEF Init
<1>1. Typed
  BY DEF Typed, SeqNo, Answer
<1>2. DriversSound
  <2>1. Sound(Fired, FreshDriver)
    BY FreshDriverSound
  <2> QED
    BY <2>1 DEF DriversSound, Sound
<1>3. NewestIsKnown
  BY DEF NewestIsKnown
<1> QED
  BY <1>1, <1>2, <1>3 DEF IInv

(* Commands that join the queue leave the history of shared queues typed. *)
LEMMA EnqueueType ==
  ASSUME NEW k \in Keys, NEW commands \in Seq(Fired),
         queue \in Seq(Entry), crowded \in SUBSET Ids,
         Enqueue(Entries(k, commands))
  PROVE  queue' \in Seq(Entry) /\ crowded' \in SUBSET Ids
<1>1. Entries(k, commands) \in Seq(Entry)
  <2>1. /\ Len(commands) \in Nat /\ DOMAIN commands = 1 .. Len(commands)
        /\ \A i \in 1 .. Len(commands) : commands[i] \in Fired
    OBVIOUS
  <2>2. \A i \in 1 .. Len(commands) : [key |-> k, command |-> commands[i]] \in Entry
    BY <2>1 DEF Entry
  <2>3. Entries(k, commands) \in [1 .. Len(commands) -> Entry]
    BY <2>1, <2>2 DEF Entries
  <2> QED
    BY <2>1, <2>3, SeqDef
<1>2. queue' \in Seq(Entry)
  BY <1>1, ConcatProperties DEF Enqueue
<1>3. Crowded(queue') \in SUBSET Ids
  <2> SUFFICES ASSUME NEW i \in DOMAIN queue'
               PROVE  queue'[i].command.id \in Ids
    BY DEF Crowded
  <2>1. queue'[i] \in Entry
    BY <1>2
  <2> QED
    BY <2>1 DEF Entry, Fired
<1> QED
  BY <1>2, <1>3 DEF Enqueue

(* The operator fires a SET, and it becomes the newest of its opcode. *)
LEMMA FireKeeps ==
  ASSUME IInv, NEW k \in Keys, NEW kind \in KindsOf(k), Fire(k, kind)
  PROVE  IInv'
<1> USE FiredCommands, SessionAssumption
<1> DEFINE command == [id |-> fired + 1, kind |-> kind]
           waits   == MustWait(driver[k].box, k \in Pipelined, IsUrgent(kind))
<1>1. /\ Typed /\ driver \in [Keys -> DriverOf(Fired)]
      /\ \A j \in Keys : Sound(Fired, driver[j])
  BY DEF IInv, DriversSound
<1>2. command \in Fired /\ command.id = fired + 1 /\ command.kind = kind
  BY <1>1 DEF Fire, Fired, Ids, KindsOf, Kinds, Typed
<1>3. /\ fired' = fired + 1 /\ polled' = FALSE
      /\ newest' = [newest EXCEPT ![k] = fired + 1]
      /\ UNCHANGED <<at, todo, phase, nextSeq, wire, answers, sent, heard, reopens, told>>
  BY DEF Fire, network
<1>3a. fired + 1 \in 0 .. MaxFires
  BY <1>1 DEF Fire, Typed
<1>3b. newest' \in [Keys -> 0 .. MaxFires]
  BY <1>1, <1>3, <1>3a DEF Typed
<1>4. PICK e : /\ Sound(Fired, e)
               /\ Known(e, fired + 1)
               /\ driver' = [driver EXCEPT ![k] = e]
               /\ queue' \in Seq(Entry) /\ crowded' \in SUBSET Ids
  <2>1. CASE waits
    <3> DEFINE e == FireHeld(driver[k], command)
    <3>1. driver' = [driver EXCEPT ![k] = e] /\ UNCHANGED <<queue, crowded>>
      BY <2>1 DEF Fire
    <3>2. Sound(Fired, driver[k]) /\ driver[k].box.open # "late"
      BY <1>1, <2>1 DEF MustWait
    <3>3. Sound(Fired, e) /\ Known(e, command.id)
      <4> HIDE DEF command
      <4> QED
        BY <1>2, <3>2, FireHeldKeeps
    <3> HIDE DEF e
    <3> QED
      BY <1>1, <3>1, <3>3 DEF Typed
  <2>2. CASE ~waits
    <3> DEFINE e == FireLaunched(driver[k], command, Hold(k))
    <3>1. driver' = [driver EXCEPT ![k] = e] /\ Enqueue(Entries(k, << command >>))
      BY <2>2 DEF Fire
    <3>2. Sound(Fired, driver[k]) /\ Hold(k) \in Nat
      BY <1>1, HoldType
    <3> HIDE DEF command
    <3>3. Sound(Fired, e) /\ e.inflight = command
      BY <1>2, <3>2, FireLaunchedKeeps
    <3>4. << command >> \in Seq(Fired)
      BY <1>2
    <3>5. queue' \in Seq(Entry) /\ crowded' \in SUBSET Ids
      BY <1>1, <3>1, <3>4, EnqueueType DEF Typed
    <3> HIDE DEF e
    <3> QED
      BY <1>2, <3>1, <3>3, <3>5 DEF Known, Tracked
  <2> QED
    BY <2>1, <2>2
<1>5. /\ driver' \in [Keys -> DriverOf(Fired)]
      /\ \A j \in Keys : Sound(Fired, driver'[j])
      /\ \A j \in Keys : driver'[j] = IF j = k THEN e ELSE driver[j]
  BY <1>1, <1>4, OneDriverChanges
<1>6. NewestIsKnown'
  <2> SUFFICES ASSUME NEW j \in Keys, newest'[j] # 0
               PROVE  Known(driver'[j], newest'[j]) \/ told'[newest'[j]] # "nothing"
    BY DEF NewestIsKnown
  <2>1. CASE j = k
    BY <1>1, <1>3, <1>4, <1>5, <2>1 DEF Typed
  <2>2. CASE j # k
    BY <1>1, <1>3, <1>5, <2>2 DEF Typed, IInv, NewestIsKnown
  <2> QED
    BY <2>1, <2>2
<1> QED
  BY <1>1, <1>3, <1>3a, <1>3b, <1>4, <1>5, <1>6 DEF IInv, Typed, DriversSound

(* A step that leaves the drivers and their history alone. *)
LEMMA QuietStepKeeps ==
  ASSUME IInv, Typed', UNCHANGED <<driver, newest, told>>
  PROVE  IInv'
BY DEF IInv, DriversSound, NewestIsKnown

(* One driver changes, drops no command, and nothing else about SETs does. *)
LEMMA OneDriverStepKeeps ==
  ASSUME IInv, Typed', UNCHANGED <<newest, told>>, NEW k \in Keys, NEW e,
         driver' = [driver EXCEPT ![k] = e],
         Sound(Fired, e), Follows(driver[k], e)
  PROVE  IInv'
<1>1. driver \in [Keys -> DriverOf(Fired)] /\ \A j \in Keys : Sound(Fired, driver[j])
  BY DEF IInv, DriversSound
<1>2. /\ driver' \in [Keys -> DriverOf(Fired)]
      /\ \A j \in Keys : Sound(Fired, driver'[j])
      /\ \A j \in Keys : driver'[j] = IF j = k THEN e ELSE driver[j]
  BY <1>1, OneDriverChanges
<1>3. ASSUME NEW j \in Keys, newest[j] # 0, Known(driver[j], newest[j])
      PROVE  Known(driver'[j], newest[j])
  <2>1. newest[j] \in Nat \ {0}
    BY <1>3, SessionAssumption DEF IInv, Typed
  <2> QED
    BY <1>2, <1>3, <2>1 DEF Follows
<1>4. NewestIsKnown'
  BY <1>3 DEF IInv, NewestIsKnown
<1> QED
  BY <1>2, <1>4 DEF IInv, DriversSound

(* The outcomes of drivers that dropped nothing are told. *)
LEMMA TellingStepKeeps ==
  ASSUME IInv, UNCHANGED newest,
         told' \in [Ids -> Verdicts \cup {"nothing"}] => Typed',
         NEW D \in [Keys -> DriverOf(Fired)],
         \A j \in Keys : Sound(Fired, D[j]) /\ Follows(driver[j], D[j]),
         TakeOutcomes(D)
  PROVE  IInv'
<1>1. told \in [Ids -> Verdicts \cup {"nothing"}] /\ newest \in [Keys -> 0 .. MaxFires]
  BY DEF IInv, Typed
<1>2. /\ DriversSound'
      /\ told' \in [Ids -> Verdicts \cup {"nothing"}]
      /\ \A k \in Keys : \A id \in Ids :
           Known(D[k], id) \/ told[id] # "nothing"
             => Known(driver'[k], id) \/ told'[id] # "nothing"
  BY <1>1, TakingOutcomes
<1>3. NewestIsKnown'
  <2> SUFFICES ASSUME NEW k \in Keys, newest[k] # 0
               PROVE  Known(driver'[k], newest[k]) \/ told'[newest[k]] # "nothing"
    BY DEF NewestIsKnown
  <2>1. newest[k] \in Ids /\ newest[k] \in Nat \ {0}
    BY <1>1, SessionAssumption DEF Ids
  <2>2. Known(driver[k], newest[k]) \/ told[newest[k]] # "nothing"
    BY DEF IInv, NewestIsKnown
  <2>3. Known(D[k], newest[k]) \/ told[newest[k]] # "nothing"
    BY <2>1, <2>2 DEF Follows
  <2> QED
    BY <1>2, <2>1, <2>3
<1> QED
  BY <1>2, <1>3 DEF IInv

(* A reply is taken, and its outcome told at once. *)
LEMMA ReceiveKeeps ==
  ASSUME IInv, NEW answer \in answers, Receive(answer)
  PROVE  IInv'
<1> DEFINE k == answer.key
           e == Reply(driver[k], answer.seq, Hold(k))
           D == [driver EXCEPT ![k] = e]
<1>1. /\ Typed /\ driver \in [Keys -> DriverOf(Fired)]
      /\ \A j \in Keys : Sound(Fired, driver[j])
  BY DEF IInv, DriversSound
<1>2. k \in Keys /\ answer.seq \in SeqNo
  BY <1>1 DEF Typed, Answer
<1>3. Sound(Fired, e) /\ Follows(driver[k], e)
  <2>1. Sound(Fired, driver[k]) /\ Hold(k) \in Nat
    BY <1>1, <1>2, HoldType
  <2> QED
    BY <1>2, <2>1, FiredCommands, ReplyKeeps
<1>4. TakeOutcomes(D)
  BY DEF Receive
<1>5. /\ UNCHANGED newest
      /\ told' \in [Ids -> Verdicts \cup {"nothing"}] => Typed'
  BY <1>1 DEF Receive, Typed, network
<1> HIDE DEF e
<1>6. /\ D \in [Keys -> DriverOf(Fired)]
      /\ \A j \in Keys : Sound(Fired, D[j])
      /\ \A j \in Keys : D[j] = IF j = k THEN e ELSE driver[j]
  BY <1>1, <1>2, <1>3, OneDriverChanges
<1>7. \A j \in Keys : Follows(driver[j], D[j])
  BY <1>3, <1>6 DEF Follows
<1> HIDE DEF D
<1> QED
  BY <1>4, <1>5, <1>6, <1>7, TellingStepKeeps

(* The outcomes are told before the sequencer ticks. *)
LEMMA BeginTickKeeps ==
  ASSUME IInv, BeginTick
  PROVE  IInv'
<1>1. /\ Typed /\ driver \in [Keys -> DriverOf(Fired)]
      /\ \A j \in Keys : Sound(Fired, driver[j])
  BY DEF IInv, DriversSound
<1>2. /\ UNCHANGED newest
      /\ told' \in [Ids -> Verdicts \cup {"nothing"}] => Typed'
  BY <1>1 DEF BeginTick, Typed, network
<1>3. \A j \in Keys : Follows(driver[j], driver[j])
  BY DEF Follows
<1> QED
  BY <1>1, <1>2, <1>3, TellingStepKeeps DEF BeginTick

(* The driver of one opcode ticks, and what it sends joins the queue. *)
LEMMA TickKeyKeeps ==
  ASSUME IInv, NEW k \in Keys, TickKey(k)
  PROVE  IInv'
<1> DEFINE pipelines == k \in Pipelined
           e         == Tick(driver[k], pipelines, Hold(k))
           sends     == TickSends(driver[k], pipelines)
<1>1. Typed /\ Sound(Fired, driver[k])
  BY DEF IInv, DriversSound
<1>2. Sound(Fired, e) /\ Follows(driver[k], e) /\ sends \in Seq(Fired)
  <2>1. pipelines \in BOOLEAN
    OBVIOUS
  <2> HIDE DEF pipelines
  <2> QED
    BY <1>1, <2>1, HoldType, FiredCommands, TickKeeps
<1>3. driver' = [driver EXCEPT ![k] = e] /\ Enqueue(Entries(k, sends)) /\ UNCHANGED <<newest, told>>
  BY DEF TickKey
<1> HIDE DEF e, sends
<1>4. queue' \in Seq(Entry) /\ crowded' \in SUBSET Ids
  BY <1>1, <1>2, <1>3, EnqueueType DEF Typed
<1>5. Typed'
  BY <1>1, <1>4 DEF TickKey, Typed, network
<1> QED
  BY <1>2, <1>3, <1>5, OneDriverStepKeeps

(* A queued command leaves, and is credited to its opcode. *)
LEMMA DispatchKeeps ==
  ASSUME IInv, Dispatch
  PROVE  IInv'
<1> DEFINE k       == Head(queue).key
           command == Head(queue).command
           e       == [driver[k] EXCEPT !.box = NoteTransmit(driver[k].box, nextSeq)]
           m       == [key |-> k, seq |-> nextSeq, id |-> command.id]
<1>1. /\ Typed /\ queue \in Seq(Entry) /\ queue # << >> /\ nextSeq \in SeqNo
      /\ driver \in [Keys -> DriverOf(Fired)] /\ \A j \in Keys : Sound(Fired, driver[j])
  BY DEF IInv, DriversSound, Dispatch, Typed
<1>2. Head(queue) \in Entry /\ Tail(queue) \in Seq(Entry)
  BY <1>1, HeadTailProperties
<1>3. k \in Keys /\ command.id \in Ids
  BY <1>2 DEF Entry, Fired
<1>4. Sound(Fired, e) /\ Follows(driver[k], e)
  BY <1>1, <1>3, FiredCommands, CreditKeeps
<1>5. /\ driver' = [driver EXCEPT ![k] = e]
      /\ wire' = wire \cup {m} /\ sent' = sent \cup {command.id}
      /\ queue' = Tail(queue) /\ nextSeq' = (nextSeq + 1) % SeqModulus
      /\ UNCHANGED <<at, todo, phase, answers, fired, reopens, polled, newest,
                     told, heard, crowded>>
  BY DEF Dispatch
<1>6. nextSeq' \in SeqNo
  BY <1>1, <1>5, MailboxAssumption DEF SeqNo
<1>7. wire' \subseteq [key : Keys, seq : SeqNo, id : sent'] /\ sent' \subseteq Ids /\ heard' \subseteq sent'
  BY <1>1, <1>3, <1>5 DEF Typed
<1> HIDE DEF e, m, k, command
<1>8. Typed'
  BY <1>1, <1>2, <1>5, <1>6, <1>7 DEF Typed
<1> QED
  BY <1>3, <1>4, <1>5, <1>8, OneDriverStepKeeps

(* A new datalink starts with fresh drivers and no newest SET. *)
LEMMA ReopenKeeps ==
  ASSUME IInv, Reopen
  PROVE  IInv'
<1>1. Typed'
  <2>1. reopens + 1 \in 0 .. MaxReopens
    BY SessionAssumption DEF IInv, Typed, Reopen
  <2>2. 0 \in SeqNo
    BY MailboxAssumption DEF SeqNo
  <2>3. newest' \in [Keys -> 0 .. MaxFires]
    BY SessionAssumption DEF Reopen
  <2> QED
    BY <2>1, <2>2, <2>3 DEF IInv, Typed, Reopen
<1>2. Sound(Fired, FreshDriver)
  BY FiredCommands, FreshDriverSound
<1>3. DriversSound'
  BY <1>2 DEF Reopen, DriversSound, Sound
<1>4. NewestIsKnown'
  BY DEF Reopen, NewestIsKnown
<1> QED
  BY <1>1, <1>3, <1>4 DEF IInv

(* Time passes for every driver. *)
LEMMA ElapseKeeps ==
  ASSUME IInv, Elapse
  PROVE  IInv'
<1>1. Typed' /\ UNCHANGED <<newest, told>>
  BY DEF IInv, Typed, Elapse, network
<1>2. \A k \in Keys : Sound(Fired, Age(driver[k])) /\ Follows(driver[k], Age(driver[k]))
  BY FiredCommands, AgeKeeps DEF IInv, DriversSound
<1>3. driver' = [k \in Keys |-> Age(driver[k])]
  BY DEF Elapse
<1>4. DriversSound'
  BY <1>2, <1>3 DEF DriversSound, Sound
<1>5. NewestIsKnown'
  <2> SUFFICES ASSUME NEW k \in Keys, newest[k] # 0
               PROVE  Known(driver'[k], newest[k]) \/ told[newest[k]] # "nothing"
    BY <1>1 DEF NewestIsKnown
  <2>1. newest[k] \in Nat \ {0}
    BY SessionAssumption DEF IInv, Typed
  <2> QED
    BY <1>2, <1>3, <2>1 DEF IInv, NewestIsKnown, Follows
<1> QED
  BY <1>1, <1>4, <1>5 DEF IInv

LEMMA StepSound == IInv /\ [Next]_vars => IInv'
<1> SUFFICES ASSUME IInv, [Next]_vars
             PROVE  IInv'
  OBVIOUS
<1>1. ASSUME NEW k \in Keys, NEW kind \in KindsOf(k), Fire(k, kind)
      PROVE  IInv'
  BY <1>1, FireKeeps
<1>2. CASE StartPoll \/ HandshakeReply \/ EndDispatch \/ KeepDatalink
  <2>1. Typed'
    BY <1>2 DEF IInv, Typed, StartPoll, HandshakeReply, EndDispatch, KeepDatalink, network
  <2>2. UNCHANGED <<driver, newest, told>>
    BY <1>2 DEF StartPoll, HandshakeReply, EndDispatch, KeepDatalink
  <2> QED
    BY <2>1, <2>2, QuietStepKeeps
<1>3. ASSUME NEW datagram \in wire, CameraHears(datagram)
      PROVE  IInv'
  <2>1. datagram.id \in sent /\ [key |-> datagram.key, seq |-> datagram.seq] \in Answer
    BY DEF IInv, Typed, Answer
  <2>2. Typed'
    BY <1>3, <2>1 DEF IInv, Typed, CameraHears
  <2> QED
    BY <1>3, <2>2, QuietStepKeeps DEF CameraHears
<1>4. ASSUME NEW answer \in answers, Receive(answer)
      PROVE  IInv'
  BY <1>4, ReceiveKeeps
<1>5. CASE BeginTick
  BY <1>5, BeginTickKeeps
<1>6. ASSUME NEW k \in Keys, TickKey(k)
      PROVE  IInv'
  BY <1>6, TickKeyKeeps
<1>7. CASE Dispatch
  BY <1>7, DispatchKeeps
<1>8. CASE Reopen
  BY <1>8, ReopenKeeps
<1>9. CASE Elapse
  BY <1>9, ElapseKeeps
<1>10. CASE UNCHANGED vars
  <2>1. Typed' /\ UNCHANGED <<driver, newest, told>>
    BY <1>10 DEF IInv, Typed, vars, network
  <2> QED
    BY <2>1, QuietStepKeeps
<1> QED
  BY <1>1, <1>2, <1>3, <1>4, <1>5, <1>6, <1>7, <1>8, <1>9, <1>10 DEF Next

LEMMA AlwaysSound == Spec => []IInv
BY InitSound, StepSound, PTL DEF Spec

-----------------------------------------------------------------------------
(* Every variable keeps its type, whatever the constants. *)
THEOREM TypeCorrect == Spec => []TypeOK
<1>1. ASSUME IInv
      PROVE  TypeOK
  <2>1. Typed /\ driver \in [Keys -> DriverOf(Fired)] /\ Fired \subseteq Command
    BY <1>1, FiredCommands DEF IInv, DriversSound
  <2>2. DriverOf(Fired) \subseteq Driver
    <3> SUFFICES ASSUME NEW d \in DriverOf(Fired)
                 PROVE  d \in Driver
      OBVIOUS
    <3>1. d.due \in Seq(Command)
      BY <2>1, SeqMonotonic DEF DriverOf
    <3>2. OutcomeOf(Fired) \subseteq Outcome
      BY FiredCommands DEF OutcomeOf, Outcome, Fired
    <3>3. d.outcomes \in Seq(Outcome)
      BY <3>2, SeqMonotonic DEF DriverOf
    <3> QED
      BY <2>1, <3>1, <3>3 DEF DriverOf, Driver
  <2>3. driver \in [Keys -> Driver]
    BY <2>1, <2>2
  <2>4. Entry \subseteq Queued
    BY <2>1 DEF Entry, Queued
  <2>5. queue \in Seq(Queued)
    BY <2>1, <2>4, SeqMonotonic DEF Typed
  <2>6. wire \subseteq Datagram
    BY <2>1, FiredCommands DEF Typed, Datagram
  <2> QED
    BY <2>1, <2>3, <2>5, <2>6 DEF Typed, TypeOK
<1> QED
  BY <1>1, AlwaysSound, PTL

(***************************************************************************)
(* The command maps of the Rust driver and the decision maps of the Swift  *)
(* mailbox agree about every opcode, in every state of every run.          *)
(***************************************************************************)
THEOREM MailboxInStep == Spec => []DriverInStep
<1>1. IInv => DriverInStep
  BY DEF IInv, DriversSound, Sound, DriverInStep
<1> QED
  BY <1>1, AlwaysSound, PTL

(* The newest SET of an opcode is never dropped without a verdict. *)
THEOREM NewestNeverLost == Spec => []NewestIsKept
<1>1. ASSUME IInv
      PROVE  NewestIsKept
  <2> SUFFICES ASSUME NEW k \in Keys, newest[k] # 0, newest[k] \notin Tracked(driver[k])
               PROVE  Verdict(newest[k]) # "nothing"
    BY DEF NewestIsKept
  <2> DEFINE id     == newest[k]
             From   == {j \in Keys : About(driver[j], id) # {}}
             teller == CHOOSE j \in From : TRUE
  <2>1. About(driver[k], id) # {} \/ told[id] # "nothing"
    BY <1>1 DEF IInv, NewestIsKnown, Known
  <2>2. CASE From = {}
    <3>1. Verdict(id) = told[id]
      BY <2>2 DEF Verdict
    <3> QED
      BY <2>1, <2>2, <3>1
  <2>3. CASE From # {}
    <3>1. teller \in From
      BY <2>3
    <3>2. Verdict(id) = LastVerdict(driver[teller], id)
      BY <2>3 DEF Verdict
    <3>3. driver[teller] \in DriverOf(Fired) /\ About(driver[teller], id) # {}
      BY <1>1, <3>1 DEF IInv, DriversSound
    <3> HIDE DEF teller, id
    <3>4. Verdict(id) \in Verdicts
      BY <3>2, <3>3, FiredCommands, LastVerdictType
    <3> QED
      BY <3>4 DEF Verdicts, id
  <2> QED
    BY <2>2, <2>3
<1> QED
  BY <1>1, AlwaysSound, PTL

-----------------------------------------------------------------------------
(***************************************************************************)
(* One SET belongs to one opcode.  No variable says which, so the second   *)
(* invariant says that the SETs fired so far can be shared out among the   *)
(* opcodes so that every driver only knows those of its own share.         *)
(***************************************************************************)
Of(ids) == {command \in Fired : command.id \in ids}

SharedOut(share) ==
  /\ \A j, k \in Keys : j # k => share[j] \cap share[k] = {}
  /\ \A k \in Keys : Sound(Of(share[k]), driver[k])

Apart == \E share \in [Keys -> SUBSET (1 .. fired)] : SharedOut(share)

LEMMA OfIsCommands ==
  ASSUME NEW ids
  PROVE  Of(ids) \in SUBSET Command
BY FiredCommands DEF Of

(* A step that fires nothing brings no driver a command it did not know. *)
LEMMA DriversKeepToTheirOwn ==
  ASSUME IInv, [Next]_vars, UNCHANGED fired,
         NEW k \in Keys, NEW C \in SUBSET Command, Sound(C, driver[k])
  PROVE  Sound(C, driver'[k])
<1>1. driver \in [Keys -> DriverOf(Fired)] /\ Typed
  BY DEF IInv, DriversSound
<1>2. ASSUME NEW j \in Keys, NEW kind \in KindsOf(j), Fire(j, kind)
      PROVE  FALSE
  BY <1>1, <1>2 DEF Fire, Typed
<1>3. CASE UNCHANGED driver
  BY <1>3
<1>4. ASSUME NEW answer \in answers, Receive(answer)
      PROVE  Sound(C, driver'[k])
  <2> DEFINE D == [driver EXCEPT ![answer.key] =
                     Reply(driver[answer.key], answer.seq, Hold(answer.key))]
  <2>1. answer.key \in Keys /\ answer.seq \in SeqNo /\ Hold(answer.key) \in Nat
    BY <1>1, HoldType DEF Typed, Answer
  <2>2. Sound(C, D[k])
    <3>1. CASE k = answer.key
      <4>1. D[k] = Reply(driver[k], answer.seq, Hold(k))
        BY <1>1, <3>1
      <4> QED
        BY <2>1, <3>1, <4>1, ReplyKeeps
    <3>2. CASE k # answer.key
      BY <1>1, <3>2
    <3> QED
      BY <3>1, <3>2
  <2>3. TakeOutcomes(D)
    BY <1>4 DEF Receive
  <2> HIDE DEF D
  <2>4. driver'[k] = [D[k] EXCEPT !.outcomes = << >>]
    BY <2>3 DEF TakeOutcomes
  <2> QED
    BY <2>2, <2>4, TakeKeeps
<1>5. CASE BeginTick
  <2>1. driver'[k] = [driver[k] EXCEPT !.outcomes = << >>]
    BY <1>5 DEF BeginTick, TakeOutcomes
  <2> QED
    BY <2>1, TakeKeeps
<1>6. ASSUME NEW j \in Keys, TickKey(j)
      PROVE  Sound(C, driver'[k])
  <2> DEFINE pipelines == k \in Pipelined
  <2>1. driver'[k] = IF k = j THEN Tick(driver[k], pipelines, Hold(k)) ELSE driver[k]
    BY <1>1, <1>6 DEF TickKey
  <2>2. pipelines \in BOOLEAN /\ Hold(k) \in Nat
    BY HoldType
  <2> HIDE DEF pipelines
  <2> QED
    BY <2>1, <2>2, TickKeeps
<1>7. CASE Dispatch
  <2> DEFINE j == Head(queue).key
  <2>1. driver'[k] = IF k = j
                     THEN [driver[k] EXCEPT !.box = NoteTransmit(driver[k].box, nextSeq)]
                     ELSE driver[k]
    BY <1>1, <1>7 DEF Dispatch
  <2> QED
    BY <1>1, <2>1, CreditKeeps DEF Typed
<1>8. CASE Reopen
  BY <1>8, FreshDriverSound DEF Reopen
<1>9. CASE Elapse
  <2>1. driver'[k] = Age(driver[k])
    BY <1>9 DEF Elapse
  <2> QED
    BY <2>1, AgeKeeps
<1>10. CASE \/ StartPoll \/ HandshakeReply \/ EndDispatch \/ KeepDatalink \/ UNCHANGED vars
            \/ \E datagram \in wire : CameraHears(datagram)
  BY <1>3, <1>10 DEF StartPoll, HandshakeReply, EndDispatch, KeepDatalink, CameraHears, vars
<1> QED
  BY <1>2, <1>4, <1>5, <1>6, <1>7, <1>8, <1>9, <1>10 DEF Next

LEMMA InitApart == Init => Apart
<1> SUFFICES ASSUME Init
             PROVE  Apart
  OBVIOUS
<1> DEFINE share == [k \in Keys |-> {}]
<1>1. share \in [Keys -> SUBSET (1 .. fired)]
  OBVIOUS
<1>2. \A k \in Keys : Sound(Of(share[k]), driver[k])
  BY OfIsCommands, FreshDriverSound DEF Init
<1>3. SharedOut(share)
  BY <1>2 DEF SharedOut
<1> QED
  BY <1>1, <1>3 DEF Apart

LEMMA FireApart ==
  ASSUME IInv, Apart, NEW k \in Keys, NEW kind \in KindsOf(k), Fire(k, kind)
  PROVE  Apart'
<1> DEFINE command == [id |-> fired + 1, kind |-> kind]
<1>1. /\ fired \in Nat /\ fired + 1 \in Ids /\ fired' = fired + 1
      /\ driver \in [Keys -> DriverOf(Fired)]
  BY SessionAssumption DEF IInv, Typed, DriversSound, Fire, Ids
<1>2. PICK share \in [Keys -> SUBSET (1 .. fired)] : SharedOut(share)
  BY DEF Apart
<1>a. PICK mine : mine = share[k] \cup {fired + 1}
  OBVIOUS
<1>e. PICK shared : shared = [share EXCEPT ![k] = mine]
  OBVIOUS
<1>3. shared \in [Keys -> SUBSET (1 .. fired')]
  BY <1>1, <1>2, <1>a, <1>e
<1>4. \A i, j \in Keys : i # j => shared[i] \cap shared[j] = {}
  <2>1. \A j \in Keys : fired + 1 \notin share[j]
    BY <1>1, <1>2
  <2> QED
    BY <1>2, <1>a, <1>e, <2>1 DEF SharedOut
<1>5. command \in Of(mine) /\ command.kind = kind
  BY <1>1, <1>a DEF Of, Fired, KindsOf, Kinds
<1>6. Sound(Of(mine), driver[k])
  <2>1. Of(share[k]) \subseteq Of(mine)
    BY <1>a DEF Of
  <2>2. Sound(Of(share[k]), driver[k])
    BY <1>2 DEF SharedOut
  <2> QED
    BY <2>1, <2>2, OfIsCommands, SoundForMore
<1>7. Sound(Of(mine), driver'[k])
  <2>1. CASE MustWait(driver[k].box, k \in Pipelined, IsUrgent(kind))
    <3>1. driver'[k] = FireHeld(driver[k], command)
      BY <1>1, <2>1 DEF Fire
    <3>2. driver[k].box.open # "late"
      BY <2>1 DEF MustWait
    <3> HIDE DEF command
    <3> QED
      BY <1>5, <1>6, <3>1, <3>2, OfIsCommands, FireHeldKeeps
  <2>2. CASE ~MustWait(driver[k].box, k \in Pipelined, IsUrgent(kind))
    <3>1. driver'[k] = FireLaunched(driver[k], command, Hold(k))
      BY <1>1, <2>2 DEF Fire
    <3> HIDE DEF command
    <3> QED
      BY <1>5, <1>6, <3>1, OfIsCommands, HoldType, FireLaunchedKeeps
  <2> QED
    BY <2>1, <2>2
<1>8. \A j \in Keys \ {k} : driver'[j] = driver[j]
  BY <1>1 DEF Fire
<1>9. \A j \in Keys : Sound(Of(shared[j]), driver'[j])
  BY <1>2, <1>7, <1>8, <1>e DEF SharedOut
<1>10. SharedOut(shared)'
  BY <1>4, <1>9 DEF SharedOut
<1> QED
  BY <1>3, <1>10 DEF Apart

LEMMA StepApart == IInv /\ Apart /\ [Next]_vars => Apart'
<1> SUFFICES ASSUME IInv, Apart, [Next]_vars
             PROVE  Apart'
  OBVIOUS
<1>1. ASSUME NEW k \in Keys, NEW kind \in KindsOf(k), Fire(k, kind)
      PROVE  Apart'
  BY <1>1, FireApart
<1>2. CASE UNCHANGED fired
  <2>1. PICK share \in [Keys -> SUBSET (1 .. fired)] : SharedOut(share)
    BY DEF Apart
  <2>2. \A k \in Keys : Sound(Of(share[k]), driver'[k])
    BY <1>2, <2>1, OfIsCommands, DriversKeepToTheirOwn DEF SharedOut
  <2>3. SharedOut(share)'
    BY <2>1, <2>2 DEF SharedOut
  <2> QED
    BY <1>2, <2>1, <2>3 DEF Apart
<1>3. \/ UNCHANGED fired
      \/ \E k \in Keys : \E kind \in KindsOf(k) : Fire(k, kind)
  BY DEF Next, StartPoll, HandshakeReply, Receive, BeginTick, TickKey, Dispatch,
         EndDispatch, KeepDatalink, Reopen, CameraHears, Elapse, vars
<1> QED
  BY <1>1, <1>2, <1>3

LEMMA AlwaysApart == Spec => []Apart
BY AlwaysSound, InitApart, StepApart, PTL DEF Spec

(* Two drivers never know the same SET. *)
LEMMA KnownOnce ==
  ASSUME IInv, Apart, NEW j \in Keys, NEW k \in Keys, j # k, NEW id \in Ids,
         Known(driver[k], id)
  PROVE  ~Known(driver[j], id)
<1> SUFFICES ASSUME Known(driver[j], id)
             PROVE  FALSE
  OBVIOUS
<1>1. PICK share \in [Keys -> SUBSET (1 .. fired)] : SharedOut(share)
  BY DEF Apart
<1>2. id \in Nat \ {0}
  BY FiredCommands
<1>3. Sound(Of(share[j]), driver[j]) /\ Sound(Of(share[k]), driver[k])
  BY <1>1 DEF SharedOut
<1>4. (\E c \in Of(share[j]) : c.id = id) /\ (\E c \in Of(share[k]) : c.id = id)
  BY <1>2, <1>3, OfIsCommands, KnowsItsOwn
<1> QED
  BY <1>1, <1>4 DEF Of, SharedOut

(* A reply that takes a SET out of flight acknowledges it to the shell. *)
LEMMA ReceiveAcknowledges ==
  ASSUME IInv, Apart, NEW answer \in answers, Receive(answer),
         NEW k \in Keys, NEW id \in Ids, driver[k].inflight.id = id,
         driver'[k].inflight.id # id
  PROVE  Verdict(id)' = "acked"
<1>1. /\ driver \in [Keys -> DriverOf(Fired)] /\ Sound(Fired, driver[k])
      /\ answer.key \in Keys /\ answer.seq \in SeqNo
  BY DEF IInv, DriversSound, Typed, Answer
<1>e. PICK e : e = Reply(driver[k], answer.seq, Hold(answer.key))
  OBVIOUS
<1>d. PICK D : D = [driver EXCEPT ![answer.key] = Reply(@, answer.seq, Hold(answer.key))]
  OBVIOUS
<1>2. TakeOutcomes(D)
  BY <1>d DEF Receive
<1>3. \A j \in Keys : driver'[j] = [D[j] EXCEPT !.outcomes = << >>]
  BY <1>2 DEF TakeOutcomes
<1>4. k = answer.key /\ D[k] = e
  <2>1. CASE k # answer.key
    <3>1. D[k] = driver[k]
      BY <1>1, <1>d, <2>1
    <3>2. driver'[k].inflight = driver[k].inflight
      BY <1>1, <1>3, <3>1, FiredCommands, TakeKeeps
    <3> QED
      BY <3>2
  <2>2. CASE k = answer.key
    BY <1>1, <1>e, <1>d, <2>2
  <2> QED
    BY <2>1, <2>2
<1>5. driver[k].inflight # NoCommand
  BY FiredCommands DEF NoCommand
<1>6. e # driver[k]
  <2> SUFFICES ASSUME e = driver[k]
               PROVE  FALSE
    OBVIOUS
  <2>1. driver'[k] = [driver[k] EXCEPT !.outcomes = << >>]
    BY <1>3, <1>4
  <2>2. driver'[k].inflight = driver[k].inflight
    BY <1>1, <2>1, FiredCommands, TakeKeeps
  <2> QED
    BY <2>2
<1>7. About(e, id) # {} /\ LastVerdict(e, id) = "acked"
  BY <1>1, <1>4, <1>5, <1>6, <1>e, FiredCommands, HoldType, ReplyAcknowledges
<1>8. ASSUME NEW j \in Keys, j # k
      PROVE  About(D[j], id) = {}
  <2>1. D[j] = driver[j]
    BY <1>1, <1>4, <1>8, <1>d
  <2>2. Known(driver[k], id)
    BY DEF Known, Tracked
  <2>3. ~Known(driver[j], id)
    BY <1>8, <2>2, KnownOnce
  <2> QED
    BY <2>1, <2>3 DEF Known
<1>9. {j \in Keys : About(D[j], id) # {}} = {k}
  BY <1>4, <1>7, <1>8
<1>10. told'[id] = "acked"
  <2>1. told'[id] = IF {j \in Keys : About(D[j], id) # {}} = {} THEN told[id]
                    ELSE LastVerdict(D[CHOOSE j \in {j \in Keys : About(D[j], id) # {}} : TRUE], id)
    BY <1>2 DEF TakeOutcomes
  <2>2. (CHOOSE j \in {k} : TRUE) = k
    OBVIOUS
  <2> QED
    BY <1>4, <1>7, <1>9, <2>1, <2>2
<1>11. \A j \in Keys : driver'[j].outcomes = << >>
  <2> SUFFICES ASSUME NEW j \in Keys
               PROVE  driver'[j].outcomes = << >>
    OBVIOUS
  <2>1. Sound(Fired, D[j])
    BY <1>1, <1>4, <1>e, <1>d, FiredCommands, HoldType, ReplyKeeps DEF IInv, DriversSound
  <2>2. driver'[j] = [D[j] EXCEPT !.outcomes = << >>]
    BY <1>3
  <2> QED
    BY <2>1, <2>2, FiredCommands, TakeKeeps
<1>12. \A j \in Keys : About(driver'[j], id) = {}
  BY <1>11 DEF About
<1>13. Verdict(id)' = told'[id]
  BY <1>12 DEF Verdict
<1> QED
  BY <1>10, <1>13

(***************************************************************************)
(* A SET of an opcode that does not pipeline leaves its place only for its *)
(* own answer, after the settle window, or with the datalink.              *)
(***************************************************************************)
LEMMA PlaceIsHeld ==
  ASSUME IInv, Apart, [Next]_vars,
         NEW k \in Keys \ Pipelined, NEW id \in Ids,
         driver[k].inflight.id = id, driver'[k].inflight.id # id
  PROVE  \/ driver[k].age >= SettleAfter
         \/ Verdict(id)' = "acked"
         \/ reopens' # reopens
<1>1. /\ driver \in [Keys -> DriverOf(Fired)] /\ Sound(Fired, driver[k])
      /\ driver[k] \in DriverOf(Fired) /\ Typed
  BY DEF IInv, DriversSound
<1>2. driver[k].inflight # NoCommand /\ driver[k].box.open = "waiting"
  BY <1>1, FiredCommands DEF NoCommand, Sound, InStep
<1>3. ASSUME NEW j \in Keys, NEW kind \in KindsOf(j), Fire(j, kind)
      PROVE  FALSE
  <2>1. CASE j = k
    <3>1. MustWait(driver[k].box, k \in Pipelined, IsUrgent(kind))
      BY <1>2 DEF MustWait
    <3>2. driver'[k] = FireHeld(driver[k], [id |-> fired + 1, kind |-> kind])
      BY <1>1, <1>3, <2>1, <3>1 DEF Fire
    <3>3. FireHeld(driver[k], [id |-> fired + 1, kind |-> kind]).inflight = driver[k].inflight
      BY <1>1 DEF FireHeld, DriverOf
    <3> QED
      BY <3>2, <3>3
  <2>2. CASE j # k
    BY <1>1, <1>3, <2>2 DEF Fire
  <2> QED
    BY <2>1, <2>2
<1>4. ASSUME NEW answer \in answers, Receive(answer)
      PROVE  Verdict(id)' = "acked"
  BY <1>4, ReceiveAcknowledges
<1>5. ASSUME NEW j \in Keys, TickKey(j)
      PROVE  driver[k].age >= SettleAfter
  <2>1. j = k /\ driver'[k] = Tick(driver[k], k \in Pipelined, Hold(k))
    BY <1>1, <1>5 DEF TickKey
  <2>2. driver'[k] = Tick(driver[k], FALSE, Hold(k))
    <3>1. (k \in Pipelined) = FALSE
      OBVIOUS
    <3> QED
      BY <2>1, <3>1, Zenon
  <2> QED
    BY <1>1, <1>2, <2>2, FiredCommands, TickHoldsPlace
<1>6. CASE BeginTick \/ Dispatch \/ Elapse
  <2>1. CASE BeginTick
    <3>1. driver'[k] = [driver[k] EXCEPT !.outcomes = << >>]
      BY <2>1 DEF BeginTick, TakeOutcomes
    <3> QED
      BY <1>1, <3>1, FiredCommands, TakeKeeps
  <2>2. CASE Dispatch
    <3>1. driver'[k] = driver[k] \/
          driver'[k] = [driver[k] EXCEPT !.box = NoteTransmit(driver[k].box, nextSeq)]
      BY <1>1, <2>2 DEF Dispatch
    <3>2. [driver[k] EXCEPT !.box = NoteTransmit(driver[k].box, nextSeq)].inflight
            = driver[k].inflight
      BY <1>1, FiredCommands, CreditKeeps DEF Typed
    <3> QED
      BY <3>1, <3>2
  <2>3. CASE Elapse
    <3>1. driver'[k] = Age(driver[k])
      BY <2>3 DEF Elapse
    <3> QED
      BY <1>1, <3>1, FiredCommands, AgeKeeps
  <2> QED
    BY <1>6, <2>1, <2>2, <2>3
<1>7. CASE Reopen
  BY <1>1, <1>7 DEF Reopen, Typed
<1>8. CASE \/ StartPoll \/ HandshakeReply \/ EndDispatch \/ KeepDatalink \/ UNCHANGED vars
           \/ \E datagram \in wire : CameraHears(datagram)
  BY <1>8 DEF StartPoll, HandshakeReply, EndDispatch, KeepDatalink, CameraHears, vars
<1> QED
  BY <1>3, <1>4, <1>5, <1>6, <1>7, <1>8 DEF Next

THEOREM PlaceHeld == Spec => HoldsItsPlace
<1> DEFINE Step == \A k \in Keys \ Pipelined : \A id \in Ids :
                     driver[k].inflight.id = id /\ driver'[k].inflight.id # id =>
                       \/ driver[k].age >= SettleAfter
                       \/ Verdict(id)' = "acked"
                       \/ reopens' # reopens
<1>1. IInv /\ Apart /\ [Next]_vars => [Step]_vars
  BY PlaceIsHeld
<1>2. HoldsItsPlace <=> [][Step]_vars
  BY DEF HoldsItsPlace
<1> HIDE DEF Step
<1> QED
  BY <1>1, <1>2, AlwaysSound, AlwaysApart, PTL DEF Spec
=============================================================================
