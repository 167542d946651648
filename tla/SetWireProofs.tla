----------------------------- MODULE SetWireProofs -----------------------------
(***************************************************************************)
(* Proofs about what SetSession puts on the wire, for every value of its   *)
(* constants: in which order the SETs of an opcode leave, and how often.   *)
(***************************************************************************)
EXTENDS SetSessionProofs

(***************************************************************************)
(* No variable remembers what the operator fired, but there is one book of *)
(* it: every SET belongs to one opcode and has one kind.  The driver of an *)
(* opcode, its entries in the queue and its datagrams carry SETs that the  *)
(* book gives to that opcode.                                              *)
(***************************************************************************)
Own(book, k) ==
  {command \in Fired : /\ command.id \in DOMAIN book
                       /\ book[command.id] = [key |-> k, kind |-> command.kind]}

Lists(book) ==
  /\ \A k \in Keys : Sound(Own(book, k), driver[k])
  /\ \A i \in DOMAIN queue : queue[i].command \in Own(book, queue[i].key)
  /\ \A n \in wire : n.id \in 1 .. fired /\ book[n.id].key = n.key

Catalogued ==
  \E book \in [1 .. fired -> [key : Keys, kind : Kinds]] : Lists(book)

(***************************************************************************)
(* What a reply launched goes out with the tick that follows: only while a *)
(* session receives, or ticks and has not come to the opcode, is anything  *)
(* due, and it is the SET in flight, of which nothing was sent yet.        *)
(***************************************************************************)
DueNow(k) == at = "receive" \/ (at = "tick" /\ k \in todo)

Due ==
  /\ \A k \in Keys :
       \/ driver[k].due = << >>
       \/ /\ DueNow(k) /\ phase = "Open"
          /\ driver[k].inflight # NoCommand
          /\ driver[k].due = << driver[k].inflight >>
          /\ driver[k].box.seqs = {}
  /\ phase = "Handshaking" =>
       at \in {"commands", "receive"} /\ wire = {} /\ answers = {}

(* The SETs of an opcode that left or are about to. *)
Gone(k) ==
  {n.id : n \in {m \in wire : m.key = k}}
    \cup {queue[i].command.id : i \in {j \in DOMAIN queue : queue[j].key = k}}

(* The queue holds the SETs of an opcode in order, behind those that left. *)
QueueInOrder(k) ==
  /\ \A n \in wire : \A i \in DOMAIN queue :
       n.key = k /\ queue[i].key = k => n.id <= queue[i].command.id
  /\ \A i, j \in DOMAIN queue :
       i < j /\ queue[i].key = k /\ queue[j].key = k
         => queue[i].command.id <= queue[j].command.id

(* Nothing that left is newer than what is in flight or held. *)
DriverAhead(k) ==
  /\ driver[k].inflight # NoCommand => \A id \in Gone(k) : id <= driver[k].inflight.id
  /\ driver[k].pending # NoCommand => \A id \in Gone(k) : id < driver[k].pending.id
  /\ driver[k].inflight # NoCommand /\ driver[k].pending # NoCommand
       => driver[k].inflight.id < driver[k].pending.id

InOrder == \A k \in Keys : QueueInOrder(k) /\ DriverAhead(k)

(* The transmissions of a SET: those that left and those that are queued. *)
Load ==
  [id \in Ids |->
     Copies(id) + Cardinality({i \in DOMAIN queue : queue[i].command.id = id})]

Limit(kind) == IF Retransmits(kind) THEN 2 ELSE 1

(***************************************************************************)
(* A command in flight was transmitted, or is about to be, once before its *)
(* retransmit and twice after it; what waits in the queue keeps its limit, *)
(* whether the driver still has it in hand or not.                         *)
(***************************************************************************)
FlightCounted(k) ==
  driver[k].inflight # NoCommand =>
    /\ Load[driver[k].inflight.id] + Len(driver[k].due)
         <= (IF driver[k].retransmitted THEN 2 ELSE 1)
    /\ driver[k].retransmitted => driver[k].inflight.kind = "tap"

QueueCounted ==
  \A i \in DOMAIN queue :
    Load[queue[i].command.id] <= Limit(queue[i].command.kind)

Counted ==
  /\ IsFiniteSet(wire)
  /\ \A k \in Keys : FlightCounted(k)
  /\ QueueCounted
  /\ \A id \in Ids : Load[id] <= 2

-----------------------------------------------------------------------------
(***************************************************************************)
(* What each step does to what the drivers have in their hands.            *)
(***************************************************************************)
SameHands(d, e) ==
  /\ e.inflight = d.inflight /\ e.retransmitted = d.retransmitted
  /\ e.pending = d.pending /\ e.late = d.late /\ e.due = d.due

Ticks(d, e, pipelines, sends) ==
  /\ e.due = << >>
  /\ \/ Settled(d, e, sends) \/ SettledForPending(d, e, sends)
     \/ StillWaits(d, e, sends) \/ LetsPendingGo(d, e, pipelines, sends)

LEMMA DriversAre ==
  ASSUME IInv
  PROVE  /\ driver \in [Keys -> DriverOf(Fired)]
         /\ \A k \in Keys : Sound(Fired, driver[k]) /\ driver[k] \in DriverOf(Fired)
         /\ Typed
BY DEF IInv, DriversSound

LEMMA FireIs ==
  ASSUME IInv, NEW k \in Keys, NEW kind \in KindsOf(k), Fire(k, kind)
  PROVE  LET command == [id |-> fired + 1, kind |-> kind]
         IN  /\ fired \in Nat /\ fired' = fired + 1 /\ fired + 1 \in Ids /\ kind \in Kinds
             /\ command \in Fired /\ at = "commands"
             /\ UNCHANGED <<at, todo, phase, nextSeq, wire, answers, told, heard, reopens>>
             /\ \A j \in Keys \ {k} : driver'[j] = driver[j]
             /\ \/ /\ Holds(driver[k], driver'[k], command)
                   /\ driver[k].late = NoCommand
                   /\ UNCHANGED <<queue, crowded>>
                \/ /\ PutsInFlight(driver[k], driver'[k], command)
                   /\ driver[k].inflight = NoCommand \/ k \in Pipelined
                   /\ Enqueue(Entries(k, << command >>))
<1> DEFINE command == [id |-> fired + 1, kind |-> kind]
<1>1. /\ Typed /\ driver \in [Keys -> DriverOf(Fired)] /\ Sound(Fired, driver[k])
      /\ driver[k] \in DriverOf(Fired)
  BY DriversAre
<1>2. /\ fired \in Nat /\ fired' = fired + 1 /\ fired + 1 \in Ids /\ kind \in Kinds
      /\ at = "commands"
  BY <1>1, SessionAssumption DEF Fire, Typed, Ids, KindsOf, Kinds
<1>3. command \in Fired
  BY <1>2 DEF Fired
<1>4. UNCHANGED <<at, todo, phase, nextSeq, wire, answers, told, heard, reopens>>
  BY DEF Fire, network
<1>5. \A j \in Keys \ {k} : driver'[j] = driver[j]
  BY <1>1 DEF Fire
<1>6. CASE MustWait(driver[k].box, k \in Pipelined, IsUrgent(kind))
  <2>1. driver'[k] = FireHeld(driver[k], command) /\ UNCHANGED <<queue, crowded>>
    BY <1>1, <1>6 DEF Fire
  <2>3. driver[k].late = NoCommand
    BY <1>1, <1>6 DEF MustWait, Sound, InStep
  <2> HIDE DEF command
  <2>2. Holds(driver[k], driver'[k], command)
    BY <1>1, <2>1, FiredCommands, FireHeldIs
  <2> QED
    BY <1>2, <1>3, <1>4, <1>5, <2>1, <2>2, <2>3 DEF command
<1>7. CASE ~MustWait(driver[k].box, k \in Pipelined, IsUrgent(kind))
  <2>1. /\ driver'[k] = FireLaunched(driver[k], command, Hold(k))
        /\ Enqueue(Entries(k, << command >>))
    BY <1>1, <1>7 DEF Fire
  <2>5. driver[k].inflight = NoCommand \/ k \in Pipelined
    BY <1>1, <1>7 DEF MustWait, Sound, InStep
  <2> HIDE DEF command
  <2>2. Hold(k) \in Nat
    BY HoldType
  <2>3. PutsInFlight(driver[k], FireLaunched(driver[k], command, Hold(k)), command)
    BY <1>1, <2>2, FiredCommands, FireLaunchedIs
  <2>4. PutsInFlight(driver[k], driver'[k], command)
    BY <2>1, <2>3, Zenon
  <2> QED
    BY <1>2, <1>3, <1>4, <1>5, <2>1, <2>4, <2>5 DEF command
<1> QED
  BY <1>6, <1>7

LEMMA ReceiveIs ==
  ASSUME IInv, NEW answer \in answers, Receive(answer)
  PROVE  /\ answer.key \in Keys /\ at = "receive"
         /\ UNCHANGED <<at, todo, phase, queue, nextSeq, wire, answers, heard, fired,
                        reopens, crowded>>
         /\ \A k \in Keys \ {answer.key} :
              SameHands(driver[k], driver'[k]) /\ driver'[k].box = driver[k].box
         /\ LET d == driver[answer.key]
                e == driver'[answer.key]
            IN  \/ SameHands(d, e) /\ e.box = d.box
                \/ IsAnswered(d, e, answer.seq)
<1> DEFINE key == answer.key
<1>d. PICK D : D = [driver EXCEPT ![key] = Reply(@, answer.seq, Hold(key))]
  OBVIOUS
<1>1. /\ driver \in [Keys -> DriverOf(Fired)]
      /\ \A k \in Keys : Sound(Fired, driver[k]) /\ driver[k] \in DriverOf(Fired)
      /\ key \in Keys /\ answer.seq \in SeqNo /\ Hold(key) \in Nat
  BY DriversAre, HoldType DEF Typed, Answer
<1>2. \A k \in Keys : driver'[k] = [D[k] EXCEPT !.outcomes = << >>]
  BY <1>d DEF Receive, TakeOutcomes
<1>3. /\ \A k \in Keys \ {key} : D[k] = driver[k]
      /\ D[key] = Reply(driver[key], answer.seq, Hold(key))
  BY <1>1, <1>d
<1>4. \A k \in Keys : D[k] \in DriverOf(Fired)
  <2>1. D[key] \in DriverOf(Fired)
    BY <1>1, <1>3, FiredCommands, ReplyKeeps DEF Sound
  <2> QED
    BY <1>1, <1>3, <2>1
<1>5. \A k \in Keys : SameHands(D[k], driver'[k]) /\ driver'[k].box = D[k].box
  BY <1>2, <1>4 DEF SameHands, DriverOf
<1>6. \/ D[key] = driver[key]
      \/ IsAnswered(driver[key], D[key], answer.seq)
  <2>1. PICK d : d = driver[key] /\ Sound(Fired, d)
    BY <1>1
  <2>2. PICK e : e = Reply(d, answer.seq, Hold(key))
    OBVIOUS
  <2>3. e = d \/ IsAnswered(d, e, answer.seq)
    BY <1>1, <2>1, <2>2, FiredCommands, ReplyIs
  <2> QED
    BY <1>3, <2>1, <2>2, <2>3
<1>7. \/ SameHands(driver[key], driver'[key]) /\ driver'[key].box = driver[key].box
      \/ IsAnswered(driver[key], driver'[key], answer.seq)
  BY <1>1, <1>5, <1>6 DEF SameHands, IsAnswered
<1>8. /\ at = "receive"
      /\ UNCHANGED <<at, todo, phase, queue, nextSeq, wire, answers, heard, fired,
                     reopens, crowded>>
  BY DEF Receive, network
<1> QED
  BY <1>1, <1>3, <1>5, <1>7, <1>8

LEMMA TickKeyIs ==
  ASSUME IInv, NEW k \in Keys, TickKey(k)
  PROVE  /\ at = "tick" /\ k \in todo /\ todo' = todo \ {k} /\ at' \in {"tick", "dispatch"}
         /\ UNCHANGED <<phase, nextSeq, wire, answers, heard, told, fired, reopens>>
         /\ \A j \in Keys \ {k} : driver'[j] = driver[j]
         /\ LET sends == TickSends(driver[k], k \in Pipelined)
            IN  /\ sends \in Seq(Fired) /\ Enqueue(Entries(k, sends))
                /\ Ticks(driver[k], driver'[k], k \in Pipelined, sends)
<1> DEFINE pipelines == k \in Pipelined
<1>1. /\ driver \in [Keys -> DriverOf(Fired)] /\ Sound(Fired, driver[k])
      /\ Hold(k) \in Nat /\ pipelines \in BOOLEAN
  BY DriversAre, HoldType
<1>2. /\ driver'[k] = Tick(driver[k], pipelines, Hold(k))
      /\ \A j \in Keys \ {k} : driver'[j] = driver[j]
      /\ Enqueue(Entries(k, TickSends(driver[k], pipelines)))
  BY <1>1 DEF TickKey
<1>3. /\ at = "tick" /\ k \in todo /\ todo' = todo \ {k} /\ at' \in {"tick", "dispatch"}
      /\ UNCHANGED <<phase, nextSeq, wire, answers, heard, told, fired, reopens>>
  BY DEF TickKey, network
<1>4. /\ TickSends(driver[k], pipelines) \in Seq(Fired)
      /\ Ticks(driver[k], driver'[k], pipelines, TickSends(driver[k], pipelines))
  <2> HIDE DEF pipelines
  <2>1. TickSends(driver[k], pipelines) \in Seq(Fired)
    BY <1>1, FiredCommands, TickKeeps
  <2>2. Ticks(driver[k], driver'[k], pipelines, TickSends(driver[k], pipelines))
    BY <1>1, <1>2, FiredCommands, TickIs DEF Ticks
  <2> QED
    BY <2>1, <2>2
<1> QED
  BY <1>2, <1>3, <1>4

LEMMA DispatchIs ==
  ASSUME IInv, Dispatch
  PROVE  /\ at = "dispatch" /\ queue # << >> /\ queue' = Tail(queue)
         /\ Head(queue) \in Entry
         /\ wire' = wire \cup {[key |-> Head(queue).key, seq |-> nextSeq,
                                id |-> Head(queue).command.id]}
         /\ nextSeq' = (nextSeq + 1) % SeqModulus
         /\ UNCHANGED <<at, todo, phase, answers, heard, told, fired, reopens, crowded>>
         /\ \A k \in Keys : SameHands(driver[k], driver'[k])
         /\ \A k \in Keys : driver'[k].box = IF k = Head(queue).key
                                             THEN NoteTransmit(driver[k].box, nextSeq)
                                             ELSE driver[k].box
<1>1. /\ driver \in [Keys -> DriverOf(Fired)]
      /\ \A k \in Keys : driver[k] \in DriverOf(Fired)
      /\ queue \in Seq(Entry) /\ queue # << >>
  BY DriversAre DEF Typed, Dispatch
<1>2. Head(queue) \in Entry
  BY <1>1, HeadTailProperties
<1>3. \A k \in Keys : driver'[k] = IF k = Head(queue).key
                                   THEN [driver[k] EXCEPT !.box = NoteTransmit(@, nextSeq)]
                                   ELSE driver[k]
  BY <1>1 DEF Dispatch
<1>4. \A k \in Keys : SameHands(driver[k], driver'[k])
  BY <1>1, <1>3 DEF SameHands, DriverOf
<1>5. \A k \in Keys : driver'[k].box = IF k = Head(queue).key
                                       THEN NoteTransmit(driver[k].box, nextSeq)
                                       ELSE driver[k].box
  BY <1>1, <1>3 DEF DriverOf
<1>6. /\ at = "dispatch" /\ queue' = Tail(queue)
      /\ wire' = wire \cup {[key |-> Head(queue).key, seq |-> nextSeq,
                             id |-> Head(queue).command.id]}
      /\ nextSeq' = (nextSeq + 1) % SeqModulus
      /\ UNCHANGED <<at, todo, phase, answers, heard, told, fired, reopens, crowded>>
  BY DEF Dispatch
<1> QED
  BY <1>1, <1>2, <1>4, <1>5, <1>6

(* The steps that neither fire, answer, launch nor send. *)
Quiet ==
  \/ StartPoll \/ HandshakeReply \/ BeginTick \/ EndDispatch \/ KeepDatalink \/ Elapse
  \/ (\E datagram \in wire : CameraHears(datagram)) \/ UNCHANGED vars

LEMMA QuietIs ==
  ASSUME IInv, Quiet
  PROVE  /\ UNCHANGED <<queue, nextSeq, wire, fired, reopens, crowded>>
         /\ \A k \in Keys : /\ SameHands(driver[k], driver'[k])
                            /\ driver'[k].box.seqs = driver[k].box.seqs
<1>1. \A k \in Keys : driver[k] \in DriverOf(Fired)
  BY DriversAre
<1>2. UNCHANGED <<queue, nextSeq, wire, fired, reopens, crowded>>
  BY DEF Quiet, StartPoll, HandshakeReply, BeginTick, EndDispatch, KeepDatalink,
         Elapse, CameraHears, network, vars
<1>3. CASE BeginTick
  <2>1. \A k \in Keys : driver'[k] = [driver[k] EXCEPT !.outcomes = << >>]
    BY <1>3 DEF BeginTick, TakeOutcomes
  <2> QED
    BY <1>1, <1>2, <2>1 DEF SameHands, DriverOf
<1>4. CASE Elapse
  <2>1. \A k \in Keys : driver'[k] = Age(driver[k])
    BY <1>4 DEF Elapse
  <2>2. \A k \in Keys : SameHands(driver[k], driver'[k])
    BY <1>1, <2>1 DEF SameHands, DriverOf, Age
  <2>3. \A k \in Keys : driver'[k].box = AgeBox(driver[k].box) /\ driver[k].box \in Box
    BY <1>1, <2>1 DEF DriverOf, Age
  <2>4. \A k \in Keys : driver'[k].box.seqs = driver[k].box.seqs
    BY <2>3 DEF AgeBox, Box
  <2> QED
    BY <1>2, <2>2, <2>4
<1>5. CASE UNCHANGED driver
  BY <1>2, <1>5 DEF SameHands
<1>6. BeginTick \/ Elapse \/ UNCHANGED driver
  BY DEF Quiet, StartPoll, HandshakeReply, EndDispatch, KeepDatalink, CameraHears, vars
<1> QED
  BY <1>3, <1>4, <1>5, <1>6

LEMMA ReopenIs ==
  ASSUME Reopen
  PROVE  /\ queue' = << >> /\ wire' = {} /\ answers' = {} /\ nextSeq' = 0
         /\ phase' = "Handshaking" /\ at' = "commands"
         /\ UNCHANGED <<fired, told, heard, crowded>>
         /\ \A k \in Keys : driver'[k] = FreshDriver
BY DEF Reopen

(* One of these is what happens. *)
LEMMA StepIsOneOf ==
  ASSUME [Next]_vars
  PROVE  \/ \E k \in Keys : \E kind \in KindsOf(k) : Fire(k, kind)
         \/ \E answer \in answers : Receive(answer)
         \/ \E k \in Keys : TickKey(k)
         \/ Dispatch
         \/ Reopen
         \/ Quiet
BY DEF Next, Quiet

-----------------------------------------------------------------------------
(***************************************************************************)
(* Commands that join the queue: what is in it, and how often.             *)
(***************************************************************************)
LEMMA EntriesAre ==
  ASSUME NEW k \in Keys, NEW s \in Seq(Fired)
  PROVE  /\ Entries(k, s) \in Seq(Entry) /\ Len(Entries(k, s)) = Len(s)
         /\ DOMAIN Entries(k, s) = DOMAIN s
         /\ \A i \in DOMAIN s : Entries(k, s)[i] = [key |-> k, command |-> s[i]]
<1>1. /\ Len(s) \in Nat /\ DOMAIN s = 1 .. Len(s)
      /\ \A i \in 1 .. Len(s) : s[i] \in Fired
  OBVIOUS
<1>2. \A i \in 1 .. Len(s) : [key |-> k, command |-> s[i]] \in Entry
  BY <1>1 DEF Entry
<1>3. Entries(k, s) \in [1 .. Len(s) -> Entry]
  BY <1>1, <1>2 DEF Entries
<1>4. Entries(k, s) \in Seq(Entry)
  BY <1>1, <1>3, SeqDef
<1>5. Len(Entries(k, s)) = Len(s)
  <2>1. DOMAIN Entries(k, s) = 1 .. Len(s) /\ DOMAIN Entries(k, s) = 1 .. Len(Entries(k, s))
    BY <1>3, <1>4
  <2>2. Len(Entries(k, s)) \in Nat
    BY <1>4
  <2> QED
    BY <1>1, <2>1, <2>2
<1>6. \A i \in DOMAIN s : Entries(k, s)[i] = [key |-> k, command |-> s[i]]
  BY DEF Entries
<1>7. DOMAIN Entries(k, s) = DOMAIN s
  BY DEF Entries
<1> QED
  BY <1>4, <1>5, <1>6, <1>7

(* The list r is the queue q with the commands s of opcode k behind it. *)
IsJoined(q, k, s, r) ==
  /\ r \in Seq(Entry) /\ Len(q) \in Nat /\ Len(s) \in Nat
  /\ DOMAIN q = 1 .. Len(q) /\ DOMAIN r = 1 .. Len(r) /\ Len(r) = Len(q) + Len(s)
  /\ \A i \in DOMAIN q : i \in DOMAIN r /\ r[i] = q[i]
  /\ \A i \in DOMAIN s : /\ i + Len(q) \in DOMAIN r
                         /\ r[i + Len(q)] = [key |-> k, command |-> s[i]]
  /\ \A i \in DOMAIN r :
       i \in DOMAIN q \/ \E j \in DOMAIN s : i = j + Len(q)

LEMMA JoinedAre ==
  ASSUME NEW k \in Keys, NEW s \in Seq(Fired), NEW q \in Seq(Entry)
  PROVE  IsJoined(q, k, s, q \o Entries(k, s))
<1> DEFINE more == Entries(k, s)
           r    == q \o more
<1>1. /\ more \in Seq(Entry) /\ Len(more) = Len(s) /\ Len(s) \in Nat
      /\ DOMAIN more = 1 .. Len(s) /\ DOMAIN s = 1 .. Len(s)
      /\ \A i \in DOMAIN s : more[i] = [key |-> k, command |-> s[i]]
  BY EntriesAre
<1> HIDE DEF more
<1>2. /\ r \in Seq(Entry) /\ Len(r) = Len(q) + Len(more)
      /\ \A i \in 1 .. Len(q) + Len(more) :
           r[i] = IF i <= Len(q) THEN q[i] ELSE more[i - Len(q)]
  <2>1. r \in Seq(Entry)
    BY <1>1, ConcatProperties
  <2>2. Len(r) = Len(q) + Len(more)
    BY <1>1, ConcatProperties
  <2>3. \A i \in 1 .. Len(q) + Len(more) :
           r[i] = IF i <= Len(q) THEN q[i] ELSE more[i - Len(q)]
    BY <1>1, ConcatProperties
  <2> QED
    BY <2>1, <2>2, <2>3
<1> HIDE DEF r
<1>3. /\ Len(q) \in Nat /\ DOMAIN q = 1 .. Len(q)
      /\ Len(r) = Len(q) + Len(s) /\ DOMAIN r = 1 .. Len(r)
  BY <1>1, <1>2
<1>4. \A i \in DOMAIN q : i \in DOMAIN r /\ r[i] = q[i]
  BY <1>1, <1>2, <1>3
<1>5. \A i \in DOMAIN s : i + Len(q) \in DOMAIN r /\ r[i + Len(q)] = more[i]
  BY <1>1, <1>2, <1>3
<1>6. ASSUME NEW i \in DOMAIN r, i \notin DOMAIN q
      PROVE  \E j \in DOMAIN s : i = j + Len(q)
  <2>1. i - Len(q) \in DOMAIN s /\ i = (i - Len(q)) + Len(q)
    BY <1>1, <1>3, <1>6
  <2> QED
    BY <2>1
<1>7. IsJoined(q, k, s, r)
  BY <1>1, <1>2, <1>3, <1>4, <1>5, <1>6 DEF IsJoined
<1> QED
  BY <1>7 DEF r, more

-----------------------------------------------------------------------------
(***************************************************************************)
(* Catalogued is inductive.                                                *)
(***************************************************************************)
LEMMA OwnIsFired ==
  ASSUME NEW book, NEW k
  PROVE  Own(book, k) \in SUBSET Fired /\ Own(book, k) \in SUBSET Command
BY FiredCommands DEF Own

LEMMA InitCatalogued == Init => Catalogued
<1> SUFFICES ASSUME Init
             PROVE  Catalogued
  OBVIOUS
<1>1. PICK book : book = [id \in {} |-> << >>]
  OBVIOUS
<1>2. book \in [1 .. fired -> [key : Keys, kind : Kinds]]
  BY <1>1 DEF Init
<1>3. Lists(book)
  BY OwnIsFired, FreshDriverSound DEF Init, Lists
<1> QED
  BY <1>2, <1>3 DEF Catalogued

LEMMA FireCatalogued ==
  ASSUME IInv, Catalogued, NEW k \in Keys, NEW kind \in KindsOf(k), Fire(k, kind)
  PROVE  Catalogued'
<1>c. PICK command : command = [id |-> fired + 1, kind |-> kind]
  OBVIOUS
<1>1. /\ fired \in Nat /\ fired' = fired + 1 /\ fired + 1 \in Ids /\ kind \in Kinds
      /\ command \in Fired /\ command.id = fired + 1 /\ command.kind = kind
      /\ wire' = wire
      /\ \A j \in Keys \ {k} : driver'[j] = driver[j]
      /\ queue' = queue \/ queue' = queue \o Entries(k, << command >>)
  BY <1>c, FireIs DEF Enqueue
<1>2. PICK book \in [1 .. fired -> [key : Keys, kind : Kinds]] : Lists(book)
  BY DEF Catalogued
<1>3. PICK more : more = [id \in 1 .. fired + 1 |->
                            IF id = fired + 1 THEN [key |-> k, kind |-> kind] ELSE book[id]]
  OBVIOUS
<1>4. more \in [1 .. fired' -> [key : Keys, kind : Kinds]]
  BY <1>1, <1>2, <1>3
<1>5. ASSUME NEW j \in Keys
      PROVE  Own(book, j) \subseteq Own(more, j)
  BY <1>1, <1>3 DEF Own
<1>6. command \in Own(more, k)
  BY <1>1, <1>3 DEF Own
<1>7. \A j \in Keys : Own(more, j) \in SUBSET Command
  BY FiredCommands DEF Own
<1>8. \A j \in Keys : Sound(Own(more, j), driver[j])
  BY <1>2, <1>5, <1>7, OwnIsFired, SoundForMore DEF Lists
<1>9. Sound(Own(more, k), driver'[k])
  <2>1. CASE MustWait(driver[k].box, k \in Pipelined, IsUrgent(kind))
    <3>1. driver'[k] = FireHeld(driver[k], command) /\ driver[k].box.open # "late"
      BY <1>c, <2>1, DriversAre DEF Fire, MustWait
    <3> QED
      BY <1>6, <1>7, <1>8, <3>1, FireHeldKeeps
  <2>2. CASE ~MustWait(driver[k].box, k \in Pipelined, IsUrgent(kind))
    <3>1. driver'[k] = FireLaunched(driver[k], command, Hold(k))
      BY <1>c, <2>2, DriversAre DEF Fire
    <3> QED
      BY <1>6, <1>7, <1>8, <3>1, HoldType, FireLaunchedKeeps
  <2> QED
    BY <2>1, <2>2
<1>10. \A j \in Keys : Sound(Own(more, j), driver'[j])
  BY <1>1, <1>8, <1>9
<1>11. \A i \in DOMAIN queue' : queue'[i].command \in Own(more, queue'[i].key)
  <2>1. queue \in Seq(Entry) /\ \A i \in DOMAIN queue : queue[i] \in Entry
    BY DriversAre DEF Typed
  <2>2. \A i \in DOMAIN queue : queue[i].command \in Own(more, queue[i].key)
    BY <1>2, <1>5, <2>1 DEF Lists, Entry
  <2>3. CASE queue' = queue \o Entries(k, << command >>)
    <3>1. << command >> \in Seq(Fired) /\ DOMAIN << command >> = {1} /\ << command >>[1] = command
      BY <1>1
    <3>2. IsJoined(queue, k, << command >>, queue')
      BY <2>1, <2>3, <3>1, JoinedAre, Zenon
    <3> SUFFICES ASSUME NEW i \in DOMAIN queue'
                 PROVE  queue'[i].command \in Own(more, queue'[i].key)
      OBVIOUS
    <3>3. CASE i \in DOMAIN queue
      BY <2>2, <3>2, <3>3 DEF IsJoined
    <3>4. CASE \E j \in DOMAIN << command >> : i = j + Len(queue)
      <4>1. queue'[i] = [key |-> k, command |-> command]
        BY <3>1, <3>2, <3>4 DEF IsJoined
      <4> QED
        BY <1>6, <4>1
    <3> QED
      BY <3>2, <3>3, <3>4 DEF IsJoined
  <2> QED
    BY <1>1, <2>2, <2>3
<1>12. \A n \in wire' : n.id \in 1 .. fired' /\ more[n.id].key = n.key
  BY <1>1, <1>2, <1>3 DEF Lists
<1>13. Lists(more)'
  BY <1>10, <1>11, <1>12 DEF Lists
<1> QED
  BY <1>4, <1>13 DEF Catalogued

LEMMA StepCatalogued == IInv /\ Catalogued /\ [Next]_vars => Catalogued'
<1> SUFFICES ASSUME IInv, Catalogued, [Next]_vars
             PROVE  Catalogued'
  OBVIOUS
<1>1. PICK book \in [1 .. fired -> [key : Keys, kind : Kinds]] : Lists(book)
  BY DEF Catalogued
<1>q. queue \in Seq(Entry) /\ \A i \in DOMAIN queue : queue[i] \in Entry
  BY DriversAre DEF Typed
<1>2. ASSUME UNCHANGED fired,
             \A i \in DOMAIN queue' : queue'[i].command \in Own(book, queue'[i].key),
             \A n \in wire' : n.id \in 1 .. fired /\ book[n.id].key = n.key
      PROVE  Catalogued'
  <2>1. \A k \in Keys : Sound(Own(book, k), driver'[k])
    BY <1>1, <1>2, OwnIsFired, DriversKeepToTheirOwn DEF Lists
  <2>2. Lists(book)'
    BY <1>2, <2>1 DEF Lists
  <2> QED
    BY <1>1, <1>2, <2>2 DEF Catalogued
<1>3. ASSUME NEW k \in Keys, NEW kind \in KindsOf(k), Fire(k, kind)
      PROVE  Catalogued'
  BY <1>3, FireCatalogued
<1>4. ASSUME UNCHANGED <<fired, queue, wire>>
      PROVE  Catalogued'
  BY <1>1, <1>2, <1>4 DEF Lists
<1>5. ASSUME NEW answer \in answers, Receive(answer)
      PROVE  Catalogued'
  BY <1>4, <1>5, ReceiveIs
<1>6. ASSUME NEW k \in Keys, TickKey(k)
      PROVE  Catalogued'
  <2>1. PICK s : s = TickSends(driver[k], k \in Pipelined)
    OBVIOUS
  <2>2. /\ s \in Seq(Fired) /\ queue' = queue \o Entries(k, s) /\ wire' = wire
        /\ UNCHANGED fired
    BY <1>6, <2>1, TickKeyIs DEF Enqueue
  <2>3. s \in Seq(Own(book, k))
    <3> DEFINE pipelines == k \in Pipelined
    <3>1. pipelines \in BOOLEAN /\ s = TickSends(driver[k], pipelines)
      BY <2>1
    <3>2. Sound(Own(book, k), driver[k]) /\ 0 \in Nat
      BY <1>1 DEF Lists
    <3> HIDE DEF pipelines
    <3> QED
      BY <3>1, <3>2, OwnIsFired, TickKeeps
  <2>4. \A i \in DOMAIN s : s[i] \in Own(book, k)
    BY <2>3
  <2>5. IsJoined(queue, k, s, queue')
    BY <1>q, <2>2, JoinedAre, Zenon
  <2>6. \A i \in DOMAIN queue' : queue'[i].command \in Own(book, queue'[i].key)
    <3> SUFFICES ASSUME NEW i \in DOMAIN queue'
                 PROVE  queue'[i].command \in Own(book, queue'[i].key)
      OBVIOUS
    <3>1. CASE i \in DOMAIN queue
      BY <1>1, <2>5, <3>1 DEF Lists, IsJoined
    <3>2. CASE \E j \in DOMAIN s : i = j + Len(queue)
      <4>1. PICK j \in DOMAIN s : queue'[i] = [key |-> k, command |-> s[j]]
        BY <2>5, <3>2 DEF IsJoined
      <4> QED
        BY <2>4, <4>1
    <3> QED
      BY <2>5, <3>1, <3>2 DEF IsJoined
  <2> QED
    BY <1>1, <1>2, <2>2, <2>6 DEF Lists
<1>7. CASE Dispatch
  <2>1. /\ queue # << >> /\ queue' = Tail(queue) /\ UNCHANGED fired
        /\ wire' = wire \cup {[key |-> Head(queue).key, seq |-> nextSeq,
                               id |-> Head(queue).command.id]}
    BY <1>7, DispatchIs
  <2>2. /\ Head(queue) = queue[1] /\ 1 \in DOMAIN queue
        /\ \A i \in DOMAIN Tail(queue) : Tail(queue)[i] = queue[i + 1] /\ i + 1 \in DOMAIN queue
    BY <1>q, <2>1
  <2>3. Head(queue).command \in Own(book, Head(queue).key)
    BY <1>1, <2>2 DEF Lists
  <2> QED
    BY <1>1, <1>2, <2>1, <2>2, <2>3 DEF Lists, Own
<1>8. CASE Reopen
  BY <1>2, <1>8, ReopenIs
<1>9. CASE Quiet
  BY <1>4, <1>9, QuietIs
<1> QED
  BY <1>3, <1>5, <1>6, <1>7, <1>8, <1>9, StepIsOneOf

LEMMA AlwaysCatalogued == Spec => []Catalogued
BY AlwaysSound, InitCatalogued, StepCatalogued, PTL DEF Spec

-----------------------------------------------------------------------------
(***************************************************************************)
(* Due is inductive.                                                       *)
(***************************************************************************)
DueOf(k) ==
  \/ driver[k].due = << >>
  \/ /\ DueNow(k) /\ phase = "Open"
     /\ driver[k].inflight # NoCommand
     /\ driver[k].due = << driver[k].inflight >>
     /\ driver[k].box.seqs = {}

LEMMA NothingDue ==
  ASSUME Due, at \notin {"receive", "tick"} \/ phase # "Open", NEW k \in Keys
  PROVE  driver[k].due = << >>
BY DEF Due, DueNow

(* Nothing is due, and the step leaves it so. *)
LEMMA NothingDueKeeps ==
  ASSUME IInv, Due, at \notin {"receive", "tick"} \/ phase # "Open",
         \A k \in Keys : SameHands(driver[k], driver'[k]),
         phase' = "Handshaking" =>
           at' \in {"commands", "receive"} /\ wire' = {} /\ answers' = {}
  PROVE  Due'
<1>1. \A k \in Keys : driver'[k].due = << >>
  BY NothingDue DEF SameHands
<1> QED
  BY <1>1 DEF Due

LEMMA QuietDue ==
  ASSUME IInv, Due, Quiet
  PROVE  Due'
<1>1. /\ wire' = wire
      /\ \A k \in Keys : /\ SameHands(driver[k], driver'[k])
                         /\ driver'[k].box.seqs = driver[k].box.seqs
  BY QuietIs
<1>2. CASE StartPoll \/ HandshakeReply \/ EndDispatch \/ KeepDatalink \/ Elapse
  <2>1. at \notin {"receive", "tick"} \/ phase # "Open"
    BY <1>2 DEF StartPoll, HandshakeReply, EndDispatch, KeepDatalink, Elapse
  <2>2. phase' = "Handshaking" =>
          at' \in {"commands", "receive"} /\ wire' = {} /\ answers' = {}
    BY <1>2 DEF Due, StartPoll, HandshakeReply, EndDispatch, KeepDatalink, Elapse, network
  <2> QED
    BY <1>1, <2>1, <2>2, NothingDueKeeps
<1>3. CASE BeginTick
  <2>1. CASE phase = "Open"
    <3>1. at' = "tick" /\ todo' = Keys /\ phase' = phase
      BY <1>3, <2>1 DEF BeginTick
    <3> QED
      BY <1>1, <2>1, <3>1 DEF Due, DueNow, SameHands
  <2>2. CASE phase # "Open"
    <3>1. /\ at' = "commands" /\ phase' = phase
          /\ wire' = wire /\ answers' = answers
      BY <1>3, <2>2 DEF BeginTick, network
    <3> QED
      BY <1>1, <2>2, <3>1, NothingDueKeeps DEF Due
  <2> QED
    BY <2>1, <2>2
<1>4. ASSUME NEW datagram \in wire, CameraHears(datagram)
      PROVE  Due'
  BY <1>1, <1>4 DEF CameraHears, Due, DueNow, SameHands
<1>5. CASE UNCHANGED vars
  BY <1>5 DEF vars, Due, DueNow
<1> QED
  BY <1>2, <1>3, <1>4, <1>5 DEF Quiet

LEMMA StepDue == IInv /\ Due /\ [Next]_vars => Due'
<1> SUFFICES ASSUME IInv, Due, [Next]_vars
             PROVE  Due'
  OBVIOUS
<1>1. ASSUME NEW k \in Keys, NEW kind \in KindsOf(k), Fire(k, kind)
      PROVE  Due'
  <2>1. /\ at = "commands" /\ UNCHANGED <<at, phase, wire, answers>>
        /\ \A j \in Keys \ {k} : driver'[j] = driver[j]
        /\ driver'[k].due = driver[k].due
    BY <1>1, FireIs DEF Holds, PutsInFlight
  <2>2. \A j \in Keys : driver'[j].due = << >>
    BY <2>1, NothingDue
  <2> QED
    BY <2>1, <2>2 DEF Due
<1>2. ASSUME NEW answer \in answers, Receive(answer)
      PROVE  Due'
  <2> DEFINE k == answer.key
  <2>1. /\ k \in Keys /\ at = "receive" /\ UNCHANGED <<at, phase, wire, answers>>
        /\ \A j \in Keys \ {k} :
             SameHands(driver[j], driver'[j]) /\ driver'[j].box = driver[j].box
        /\ \/ SameHands(driver[k], driver'[k]) /\ driver'[k].box = driver[k].box
           \/ IsAnswered(driver[k], driver'[k], answer.seq)
    BY <1>2, ReceiveIs
  <2>2. phase # "Handshaking"
    BY DEF Due
  <2>3. phase = "Open"
    BY <2>2, DriversAre DEF Typed
  <2>4. ASSUME NEW j \in Keys, SameHands(driver[j], driver'[j]),
               driver'[j].box = driver[j].box
        PROVE  DueOf(j)'
    BY <2>1, <2>4 DEF Due, DueNow, DueOf, SameHands
  <2>5. ASSUME IsAnswered(driver[k], driver'[k], answer.seq)
        PROVE  DueOf(k)'
    <3>1. driver[k].due = << >>
      BY <2>1, <2>5 DEF Due, IsAnswered
    <3>2. /\ << >> \o << >> = << >>
          /\ << >> \o << driver[k].pending >> = << driver[k].pending >>
      OBVIOUS
    <3>3. CASE driver'[k].due = driver[k].due \o << >>
      BY <3>1, <3>2, <3>3 DEF DueOf
    <3>4. CASE /\ driver[k].pending # NoCommand
               /\ driver'[k].due = driver[k].due \o << driver[k].pending >>
               /\ driver'[k].inflight = driver[k].pending
               /\ driver'[k].box.seqs = {}
      BY <2>1, <2>3, <3>1, <3>2, <3>4 DEF DueOf, DueNow
    <3> QED
      BY <2>5, <3>3, <3>4 DEF IsAnswered
  <2>6. \A j \in Keys : DueOf(j)'
    BY <2>1, <2>4, <2>5
  <2> QED
    BY <2>1, <2>2, <2>6 DEF Due, DueOf
<1>3. ASSUME NEW k \in Keys, TickKey(k)
      PROVE  Due'
  <2>1. /\ at = "tick" /\ todo' = todo \ {k} /\ UNCHANGED <<phase, wire, answers>>
        /\ driver'[k].due = << >>
        /\ \A j \in Keys \ {k} : driver'[j] = driver[j]
    BY <1>3, TickKeyIs DEF Ticks
  <2>2. at' = IF todo' = {} THEN "dispatch" ELSE "tick"
    BY <1>3 DEF TickKey
  <2>3. phase # "Handshaking"
    BY <2>1 DEF Due
  <2>4. \A j \in Keys : DueOf(j)'
    BY <2>1, <2>2 DEF Due, DueOf, DueNow
  <2> QED
    BY <2>1, <2>3, <2>4 DEF Due, DueOf
<1>4. CASE Dispatch
  <2>1. /\ at = "dispatch" /\ UNCHANGED <<at, phase>>
        /\ \A k \in Keys : SameHands(driver[k], driver'[k])
    BY <1>4, DispatchIs
  <2>2. phase' # "Handshaking"
    BY <2>1 DEF Due
  <2> QED
    BY <2>1, <2>2, NothingDueKeeps
<1>5. CASE Reopen
  BY <1>5, ReopenIs DEF Due, FreshDriver
<1> QED
  BY <1>1, <1>2, <1>3, <1>4, <1>5, QuietDue, StepIsOneOf

LEMMA AlwaysDue == Spec => []Due
<1>1. Init => Due
  BY DEF Init, Due, FreshDriver
<1> QED
  BY <1>1, AlwaysSound, StepDue, PTL DEF Spec

-----------------------------------------------------------------------------
(***************************************************************************)
(* What the book says of the SETs in hand and on the way.                  *)
(***************************************************************************)
InHand(k) == {driver[k].inflight, driver[k].pending, driver[k].late} \ {NoCommand}

LEMMA FiredIds ==
  /\ \A c \in Fired \cup {NoCommand} : c.id \in Nat
  /\ \A c \in Fired : c.id \in Ids /\ c # NoCommand
<1>1. Ids \subseteq Nat \ {0}
  BY FiredCommands
<1>2. NoCommand.id = 0
  BY DEF NoCommand
<1>3. \A c \in Fired : c.id \in Ids
  BY DEF Fired
<1>4. ASSUME NEW c \in Fired \cup {NoCommand}
      PROVE  c.id \in Nat
  <2>1. CASE c \in Fired
    BY <1>1, <1>3, <2>1
  <2>2. CASE c = NoCommand
    <3>1. c.id = 0
      BY <1>2, <2>2
    <3> QED
      BY <3>1
  <2> QED
    BY <2>1, <2>2
<1>5. \A c \in Fired : c # NoCommand
  <2>1. \A c \in Fired : c.id # 0
    BY <1>1, <1>3
  <2> QED
    BY <1>2, <2>1, Zenon
<1> QED
  BY <1>3, <1>4, <1>5

LEMMA GoneAre ==
  ASSUME IInv, NEW k \in Keys
  PROVE  /\ \A n \in wire : n.key = k => n.id \in Gone(k)
         /\ \A i \in DOMAIN queue : queue[i].key = k => queue[i].command.id \in Gone(k)
         /\ \A id \in Gone(k) : \/ \E n \in wire : n.key = k /\ id = n.id
                                \/ \E i \in DOMAIN queue :
                                     queue[i].key = k /\ id = queue[i].command.id
BY DEF Gone

LEMMA BookSays ==
  ASSUME IInv, Catalogued
  PROVE  /\ fired \in Nat
         /\ \A k \in Keys : \A id \in Gone(k) : id \in 1 .. fired
         /\ \A k \in Keys : \A c \in InHand(k) : c.id \in 1 .. fired /\ c \in Fired
         /\ \A j, k \in Keys : j # k =>
              /\ Gone(j) \cap Gone(k) = {}
              /\ \A c \in InHand(k) : c.id \notin Gone(j)
              /\ \A c \in InHand(k), b \in InHand(j) : c.id # b.id
         /\ \A k \in Keys : \A c \in InHand(k) : \A i \in DOMAIN queue :
              queue[i].command.id = c.id => queue[i].command = c
<1>1. PICK book \in [1 .. fired -> [key : Keys, kind : Kinds]] : Lists(book)
  BY DEF Catalogued
<1>2. fired \in Nat
  BY SessionAssumption, DriversAre DEF Typed
<1>o. \A k \in Keys : \A c \in Own(book, k) :
        c.id \in 1 .. fired /\ c \in Fired /\ book[c.id].key = k /\ book[c.id].kind = c.kind
  BY <1>1 DEF Own
<1>q. queue \in Seq(Entry)
  BY DriversAre DEF Typed
<1>3. \A i \in DOMAIN queue : /\ queue[i] \in Entry /\ queue[i].key \in Keys
                              /\ queue[i].command \in Own(book, queue[i].key)
  <2>1. \A i \in DOMAIN queue : queue[i] \in Entry
    BY <1>q
  <2> QED
    BY <1>1, <2>1 DEF Lists, Entry
<1>4. \A k \in Keys : \A c \in InHand(k) : c \in Own(book, k)
  BY <1>1 DEF Lists, Sound, DriverOf, InHand
<1>5. ASSUME NEW k \in Keys
      PROVE  \A id \in Gone(k) : id \in 1 .. fired /\ book[id].key = k
  <2> SUFFICES ASSUME NEW id \in Gone(k)
               PROVE  id \in 1 .. fired /\ book[id].key = k
    OBVIOUS
  <2>1. CASE \E n \in wire : n.key = k /\ id = n.id
    BY <1>1, <2>1 DEF Lists
  <2>2. CASE \E i \in DOMAIN queue : queue[i].key = k /\ id = queue[i].command.id
    BY <1>3, <1>o, <2>2
  <2> QED
    BY <2>1, <2>2, GoneAre
<1>6. ASSUME NEW k \in Keys, NEW c \in InHand(k)
      PROVE  c.id \in 1 .. fired /\ c \in Fired /\ book[c.id].key = k /\ book[c.id].kind = c.kind
  BY <1>4, <1>o
<1>7. ASSUME NEW k \in Keys, NEW c \in InHand(k), NEW i \in DOMAIN queue,
             queue[i].command.id = c.id
      PROVE  queue[i].command = c
  <2>1. /\ queue[i].command \in Fired
        /\ book[c.id].kind = queue[i].command.kind
    BY <1>3, <1>7, <1>o
  <2> QED
    BY <1>6, <1>7, <2>1 DEF Fired
<1>8. ASSUME NEW j \in Keys, NEW k \in Keys, j # k
      PROVE  /\ Gone(j) \cap Gone(k) = {}
             /\ \A c \in InHand(k) : c.id \notin Gone(j)
             /\ \A c \in InHand(k), b \in InHand(j) : c.id # b.id
  BY <1>5, <1>6, <1>8
<1> QED
  BY <1>2, <1>5, <1>6, <1>7, <1>8

(***************************************************************************)
(* A tick sends what was due, perhaps the SET in flight once more, and     *)
(* perhaps the one that was held, which is then in flight.                 *)
(***************************************************************************)
TickBrief(d, e, again, last) ==
  /\ again \in {<< >>, << d.inflight >>} /\ Repeats(d, again)
  /\ \/ /\ last = << >> /\ e.pending = d.pending
        /\ \/ e.inflight = NoCommand
           \/ /\ e.inflight = d.inflight
              /\ e.retransmitted = (d.retransmitted \/ again # << >>)
     \/ /\ last = << d.pending >> /\ d.pending # NoCommand
        /\ e.inflight = d.pending /\ ~e.retransmitted /\ e.pending = NoCommand

LEMMA TickInBrief ==
  ASSUME NEW d, NEW e, NEW pipelines, NEW sends, Ticks(d, e, pipelines, sends)
  PROVE  \E again, last : TickBrief(d, e, again, last) /\ sends = d.due \o again \o last
<1>1. CASE Settled(d, e, sends)
  <2>1. TickBrief(d, e, << >>, << >>) /\ sends = d.due \o << >> \o << >>
    BY <1>1 DEF Settled, TickBrief, Repeats
  <2> QED
    BY <2>1
<1>2. CASE SettledForPending(d, e, sends)
  <2>1. CASE e.pending = d.pending /\ e.inflight = NoCommand /\ sends = d.due \o << >> \o << >>
    <3>1. TickBrief(d, e, << >>, << >>)
      BY <2>1 DEF TickBrief, Repeats
    <3> QED
      BY <2>1, <3>1
  <2>2. CASE /\ e.inflight = d.pending /\ ~e.retransmitted /\ e.pending = NoCommand
             /\ sends = d.due \o << >> \o << d.pending >>
    <3>1. TickBrief(d, e, << >>, << d.pending >>)
      BY <1>2, <2>2 DEF TickBrief, Repeats, SettledForPending
    <3> QED
      BY <2>2, <3>1
  <2> QED
    BY <1>2, <2>1, <2>2 DEF SettledForPending
<1>3. CASE StillWaits(d, e, sends)
  <2>1. PICK again \in {<< >>, << d.inflight >>} :
          /\ Repeats(d, again)
          /\ e.retransmitted = (d.retransmitted \/ again # << >>)
          /\ sends = d.due \o again \o << >>
    BY <1>3 DEF StillWaits
  <2>2. TickBrief(d, e, again, << >>)
    BY <1>3, <2>1 DEF StillWaits, TickBrief
  <2> QED
    BY <2>1, <2>2
<1>4. CASE LetsPendingGo(d, e, pipelines, sends)
  <2>1. PICK again \in {<< >>, << d.inflight >>} :
          Repeats(d, again) /\ sends = d.due \o again \o << d.pending >>
    BY <1>4 DEF LetsPendingGo
  <2>2. TickBrief(d, e, again, << d.pending >>)
    BY <1>4, <2>1 DEF LetsPendingGo, Released, TickBrief
  <2> QED
    BY <2>1, <2>2
<1> QED
  BY <1>1, <1>2, <1>3, <1>4 DEF Ticks

(* Lists put together. *)
LEMMA ConcatIs ==
  ASSUME NEW S, NEW s \in Seq(S), NEW t \in Seq(S)
  PROVE  /\ s \o t \in Seq(S) /\ Len(s) \in Nat /\ Len(t) \in Nat
         /\ DOMAIN s = 1 .. Len(s) /\ DOMAIN t = 1 .. Len(t)
         /\ DOMAIN (s \o t) = 1 .. Len(s) + Len(t)
         /\ \A i \in 1 .. Len(s) : (s \o t)[i] = s[i]
         /\ \A i \in 1 .. Len(t) : (s \o t)[Len(s) + i] = t[i]
<1> DEFINE r == s \o t
<1>1. r \in Seq(S)
  BY ConcatProperties
<1>2. Len(r) = Len(s) + Len(t)
  BY ConcatProperties
<1>3. \A i \in 1 .. Len(s) + Len(t) : r[i] = IF i <= Len(s) THEN s[i] ELSE t[i - Len(s)]
  BY ConcatProperties
<1>4. /\ Len(s) \in Nat /\ Len(t) \in Nat
      /\ DOMAIN s = 1 .. Len(s) /\ DOMAIN t = 1 .. Len(t)
  OBVIOUS
<1> HIDE DEF r
<1>5. DOMAIN r = 1 .. Len(s) + Len(t)
  BY <1>1, <1>2
<1>6. \A i \in 1 .. Len(s) : r[i] = s[i]
  BY <1>3, <1>4
<1>7. \A i \in 1 .. Len(t) : r[Len(s) + i] = t[i]
  <2> SUFFICES ASSUME NEW i \in 1 .. Len(t)
               PROVE  r[Len(s) + i] = t[i]
    OBVIOUS
  <2>1. /\ Len(s) + i \in 1 .. Len(s) + Len(t) /\ ~(Len(s) + i <= Len(s))
        /\ (Len(s) + i) - Len(s) = i
    BY <1>4
  <2> QED
    BY <1>3, <2>1
<1> QED
  BY <1>1, <1>4, <1>5, <1>6, <1>7 DEF r

Ascending(s) == \A a, b \in DOMAIN s : a < b => s[a].id <= s[b].id

LEMMA AscendingConcat ==
  ASSUME NEW s \in Seq(Fired), NEW t \in Seq(Fired), Ascending(s), Ascending(t),
         \A a \in DOMAIN s : \A b \in DOMAIN t : s[a].id <= t[b].id
  PROVE  Ascending(s \o t)
<1> DEFINE r == s \o t
<1>1. /\ Len(s) \in Nat /\ Len(t) \in Nat
      /\ DOMAIN s = 1 .. Len(s) /\ DOMAIN t = 1 .. Len(t)
      /\ DOMAIN r = 1 .. Len(s) + Len(t)
      /\ \A i \in 1 .. Len(s) : r[i] = s[i]
      /\ \A i \in 1 .. Len(t) : r[Len(s) + i] = t[i]
  BY ConcatIs
<1> HIDE DEF r
<1>2. \A i \in DOMAIN r : \/ i \in 1 .. Len(s) /\ r[i] = s[i]
                          \/ /\ i - Len(s) \in 1 .. Len(t) /\ i > Len(s)
                             /\ r[i] = t[i - Len(s)]
  <2> SUFFICES ASSUME NEW i \in DOMAIN r, i \notin 1 .. Len(s)
               PROVE  /\ i - Len(s) \in 1 .. Len(t) /\ i > Len(s)
                      /\ r[i] = t[i - Len(s)]
    BY <1>1
  <2>1. i - Len(s) \in 1 .. Len(t) /\ i > Len(s) /\ Len(s) + (i - Len(s)) = i
    BY <1>1
  <2> QED
    BY <1>1, <2>1
<1>3. ASSUME NEW a \in DOMAIN r, NEW b \in DOMAIN r, a < b
      PROVE  r[a].id <= r[b].id
  <2>1. CASE a \in 1 .. Len(s) /\ r[a] = s[a] /\ b \in 1 .. Len(s) /\ r[b] = s[b]
    BY <1>1, <1>3, <2>1 DEF Ascending
  <2>2. CASE /\ a \in 1 .. Len(s) /\ r[a] = s[a]
             /\ b - Len(s) \in 1 .. Len(t) /\ r[b] = t[b - Len(s)]
    BY <1>1, <2>2
  <2>3. CASE /\ a - Len(s) \in 1 .. Len(t) /\ r[a] = t[a - Len(s)]
             /\ b - Len(s) \in 1 .. Len(t) /\ r[b] = t[b - Len(s)]
    <3>1. a - Len(s) < b - Len(s)
      BY <1>1, <1>3
    <3> QED
      BY <1>1, <2>3, <3>1 DEF Ascending
  <2>4. ~(a > Len(s) /\ b \in 1 .. Len(s))
    BY <1>1, <1>3
  <2> QED
    BY <1>2, <2>1, <2>2, <2>3, <2>4
<1> QED
  BY <1>3 DEF Ascending, r

SendsOf(d, again, last) == d.due \o again \o last

(* What a tick sends is the SET in flight, and after it the held one. *)
LEMMA SendsInOrder ==
  ASSUME NEW d \in DriverOf(Fired), NEW e, NEW again, NEW last, TickBrief(d, e, again, last),
         d.due = << >> \/ (d.inflight # NoCommand /\ d.due = << d.inflight >>),
         d.inflight # NoCommand /\ d.pending # NoCommand => d.inflight.id < d.pending.id
  PROVE  LET s == SendsOf(d, again, last)
         IN  /\ s \in Seq(Fired) /\ Ascending(s)
             /\ \A a \in DOMAIN s : \/ s[a] = d.inflight /\ d.inflight # NoCommand
                                    \/ s[a] = d.pending /\ last # << >>
<1> DEFINE I  == {d.inflight} \ {NoCommand}
           P  == {c \in {d.pending} : last # << >>}
           IP == I \cup P
           s  == SendsOf(d, again, last)
<1>0. s = d.due \o again \o last
  BY DEF SendsOf
<1>1. d.inflight \in Fired \cup {NoCommand} /\ d.pending \in Fired \cup {NoCommand}
  BY DEF DriverOf
<1>2. d.due \in Seq(I) /\ again \in Seq(I)
  <2>1. << >> \in Seq(I) /\ (d.inflight # NoCommand => << d.inflight >> \in Seq(I))
    OBVIOUS
  <2> HIDE DEF I
  <2> QED
    BY <2>1 DEF TickBrief, Repeats
<1>3. last \in Seq(P) /\ (last = << >> \/ (last = << d.pending >> /\ d.pending # NoCommand))
  <2>1. << >> \in Seq(P) /\ (last # << >> => << d.pending >> \in Seq(P))
    OBVIOUS
  <2> HIDE DEF P
  <2> QED
    BY <2>1 DEF TickBrief
<1>4. d.due \o again \in Seq(I)
  BY <1>2, ConcatProperties
<1>5. I \subseteq Fired /\ P \subseteq Fired /\ IP \subseteq Fired
  BY <1>1, <1>3
<1>6. /\ d.due \o again \in Seq(Fired) /\ last \in Seq(Fired)
      /\ d.due \o again \in Seq(IP) /\ last \in Seq(IP)
  <2> HIDE DEF I, P
  <2> QED
    BY <1>3, <1>4, <1>5, SeqMonotonic
<1>7. s \in Seq(Fired) /\ s \in Seq(IP)
  <2> HIDE DEF s, IP
  <2> QED
    BY <1>0, <1>6, ConcatProperties
<1>8. \A a \in DOMAIN s : s[a] \in IP
  <2> HIDE DEF s, IP
  <2> QED
    BY <1>7
<1>9. \A a \in DOMAIN (d.due \o again) : (d.due \o again)[a] = d.inflight /\ d.inflight # NoCommand
  <2>1. \A a \in DOMAIN (d.due \o again) : (d.due \o again)[a] \in I
    <3> DEFINE x == d.due \o again
    <3> HIDE DEF x, I
    <3> QED
      BY <1>4 DEF x
  <2> QED
    BY <2>1
<1>10. \A b \in DOMAIN last : b = 1 /\ last[b] = d.pending /\ d.pending # NoCommand
  BY <1>3
<1>11. d.inflight.id \in Nat /\ d.pending.id \in Nat
  BY <1>1, FiredIds
<1>12. Ascending(d.due \o again) /\ Ascending(last)
  <2>1. PICK x : x = d.due \o again
    OBVIOUS
  <2>2. Ascending(x)
    <3> SUFFICES ASSUME NEW a \in DOMAIN x, NEW b \in DOMAIN x
                 PROVE  x[a].id <= x[b].id
      BY DEF Ascending
    <3>1. x[a] = d.inflight /\ x[b] = d.inflight
      BY <1>9, <2>1
    <3> QED
      BY <1>11, <3>1
  <2>3. Ascending(last)
    <3> SUFFICES ASSUME NEW a \in DOMAIN last, NEW b \in DOMAIN last
                 PROVE  last[a].id <= last[b].id
      BY DEF Ascending
    <3>1. last[a].id = d.pending.id /\ last[b].id = d.pending.id
      BY <1>10
    <3> QED
      BY <1>11, <3>1
  <2> QED
    BY <2>1, <2>2, <2>3
<1>13. \A a \in DOMAIN (d.due \o again) : \A b \in DOMAIN last :
         (d.due \o again)[a].id <= last[b].id
  BY <1>9, <1>10, <1>11
<1>14. Ascending(s)
  <2> HIDE DEF s
  <2>1. Ascending(d.due \o again \o last)
    BY <1>6, <1>12, <1>13, AscendingConcat
  <2> QED
    BY <1>0, <2>1
<1> QED
  BY <1>7, <1>8, <1>14

-----------------------------------------------------------------------------
(***************************************************************************)
(* InOrder is inductive.                                                   *)
(***************************************************************************)

(* The commands of one opcode join the queue in their order. *)
LEMMA OrderJoined ==
  ASSUME IInv, InOrder, UNCHANGED wire, NEW k \in Keys, NEW s \in Seq(Fired),
         IsJoined(queue, k, s, queue'), Ascending(s),
         \A a \in DOMAIN s : \A id \in Gone(k) : id <= s[a].id
  PROVE  /\ \A j \in Keys : QueueInOrder(j)'
         /\ \A j \in Keys : \A id \in Gone(j)' :
              id \in Gone(j) \/ (j = k /\ \E a \in DOMAIN s : id = s[a].id)
<1>1. /\ Len(queue) \in Nat /\ DOMAIN queue = 1 .. Len(queue) /\ Len(s) \in Nat
      /\ DOMAIN s = 1 .. Len(s)
      /\ \A i \in DOMAIN queue : queue'[i] = queue[i]
      /\ \A a \in DOMAIN s : queue'[a + Len(queue)] = [key |-> k, command |-> s[a]]
      /\ \A i \in DOMAIN queue' :
           i \in DOMAIN queue \/ \E a \in DOMAIN s : i = a + Len(queue)
  BY DEF IsJoined
<1>2. ASSUME NEW i \in DOMAIN queue'
      PROVE  \/ i \in DOMAIN queue /\ queue'[i] = queue[i]
             \/ \E a \in DOMAIN s : /\ i = a + Len(queue) /\ queue'[i].key = k
                                    /\ queue'[i].command = s[a]
  <2>1. ASSUME NEW a \in DOMAIN s, i = a + Len(queue)
        PROVE  queue'[i].key = k /\ queue'[i].command = s[a]
    <3>1. queue'[i] = [key |-> k, command |-> s[a]]
      BY <1>1, <2>1
    <3> QED
      BY <3>1
  <2> QED
    BY <1>1, <2>1
<1>3. ASSUME NEW j \in Keys, NEW id \in Gone(j)'
      PROVE  id \in Gone(j) \/ (j = k /\ \E a \in DOMAIN s : id = s[a].id)
  <2>1. \/ \E n \in wire : n.key = j /\ id = n.id
        \/ \E i \in DOMAIN queue' : queue'[i].key = j /\ id = queue'[i].command.id
    BY DEF Gone
  <2>2. CASE \E n \in wire : n.key = j /\ id = n.id
    BY <2>2, GoneAre
  <2>3. CASE \E i \in DOMAIN queue' : queue'[i].key = j /\ id = queue'[i].command.id
    BY <1>2, <2>3, GoneAre
  <2> QED
    BY <2>1, <2>2, <2>3
<1>4. ASSUME NEW j \in Keys
      PROVE  QueueInOrder(j)'
  <2>0. QueueInOrder(j)
    BY DEF InOrder
  <2>1. ASSUME NEW n \in wire, NEW i \in DOMAIN queue', n.key = j, queue'[i].key = j
        PROVE  n.id <= queue'[i].command.id
    <3>1. CASE i \in DOMAIN queue /\ queue'[i] = queue[i]
      BY <2>0, <2>1, <3>1 DEF QueueInOrder
    <3>2. CASE \E a \in DOMAIN s : queue'[i].key = k /\ queue'[i].command = s[a]
      <4>1. n.id \in Gone(k)
        BY <2>1, <3>2, GoneAre
      <4> QED
        BY <3>2, <4>1
    <3> QED
      BY <1>2, <3>1, <3>2
  <2>2. ASSUME NEW h \in DOMAIN queue', NEW i \in DOMAIN queue', h < i,
               queue'[h].key = j, queue'[i].key = j
        PROVE  queue'[h].command.id <= queue'[i].command.id
    <3>1. CASE i \in DOMAIN queue /\ queue'[i] = queue[i]
      <4>1. h \in DOMAIN queue /\ queue'[h] = queue[h]
        BY <1>1, <1>2, <2>2, <3>1
      <4> QED
        BY <2>0, <2>2, <3>1, <4>1 DEF QueueInOrder
    <3>2. ASSUME NEW a \in DOMAIN s, i = a + Len(queue),
                 queue'[i].key = k, queue'[i].command = s[a]
          PROVE  queue'[h].command.id <= queue'[i].command.id
      <4>1. CASE h \in DOMAIN queue /\ queue'[h] = queue[h]
        <5>1. queue'[h].command.id \in Gone(k)
          BY <2>2, <3>2, <4>1, GoneAre
        <5> QED
          BY <3>2, <5>1
      <4>2. ASSUME NEW b \in DOMAIN s, h = b + Len(queue), queue'[h].command = s[b]
            PROVE  queue'[h].command.id <= queue'[i].command.id
        <5>1. b < a
          BY <1>1, <2>2, <3>2, <4>2
        <5> QED
          BY <3>2, <4>2, <5>1 DEF Ascending
      <4> QED
        BY <1>2, <4>1, <4>2
    <3> QED
      BY <1>2, <3>1, <3>2
  <2> QED
    BY <2>1, <2>2 DEF QueueInOrder
<1> QED
  BY <1>3, <1>4

(* Nothing joins the queue and nothing leaves. *)
LEMMA SameGone ==
  ASSUME UNCHANGED <<queue, wire>>, NEW k \in Keys
  PROVE  Gone(k)' = Gone(k) /\ (QueueInOrder(k)' <=> QueueInOrder(k))
BY DEF Gone, QueueInOrder

LEMMA FireInOrder ==
  ASSUME IInv, Catalogued, InOrder, NEW k \in Keys, NEW kind \in KindsOf(k), Fire(k, kind)
  PROVE  InOrder'
<1>c. PICK command : command = [id |-> fired + 1, kind |-> kind]
  OBVIOUS
<1>1. /\ fired \in Nat /\ command \in Fired /\ command.id = fired + 1
      /\ wire' = wire
      /\ \A j \in Keys \ {k} : driver'[j] = driver[j]
      /\ \/ Holds(driver[k], driver'[k], command) /\ queue' = queue
         \/ /\ PutsInFlight(driver[k], driver'[k], command)
            /\ queue' = queue \o Entries(k, << command >>)
  BY <1>c, FireIs DEF Enqueue
<1>2. /\ \A j \in Keys : \A id \in Gone(j) : id \in Nat /\ id <= fired
      /\ driver[k].inflight # NoCommand => driver[k].inflight.id <= fired
  BY BookSays DEF InHand
<1>3. CASE Holds(driver[k], driver'[k], command) /\ queue' = queue
  <2>1. DriverAhead(k)'
    <3>1. Gone(k)' = Gone(k)
      BY <1>1, <1>3, SameGone
    <3>2. driver'[k].inflight = driver[k].inflight /\ driver'[k].pending = command
      BY <1>3 DEF Holds
    <3>3. driver[k].inflight # NoCommand => driver[k].inflight.id \in Nat
      BY BookSays DEF InHand
    <3> QED
      BY <1>1, <1>2, <3>1, <3>2, <3>3 DEF InOrder, DriverAhead
  <2>2. \A j \in Keys \ {k} : DriverAhead(j)'
    BY <1>1, <1>3, SameGone DEF InOrder, DriverAhead
  <2> QED
    BY <1>1, <1>3, <2>1, <2>2, SameGone DEF InOrder
<1>4. CASE /\ PutsInFlight(driver[k], driver'[k], command)
           /\ queue' = queue \o Entries(k, << command >>)
  <2>1. /\ << command >> \in Seq(Fired) /\ queue \in Seq(Entry)
        /\ DOMAIN << command >> = {1} /\ << command >>[1] = command
    BY <1>1, DriversAre DEF Typed
  <2>2. IsJoined(queue, k, << command >>, queue')
    BY <1>4, <2>1, JoinedAre, Zenon
  <2>3. Ascending(<< command >>)
    BY <2>1 DEF Ascending
  <2>4. \A a \in DOMAIN << command >> : \A id \in Gone(k) : id <= << command >>[a].id
    BY <1>1, <1>2, <2>1
  <2>5. /\ \A j \in Keys : QueueInOrder(j)'
        /\ \A j \in Keys : \A id \in Gone(j)' : id \in Gone(j) \/ (j = k /\ id = command.id)
    <3>1. /\ \A j \in Keys : QueueInOrder(j)'
          /\ \A j \in Keys : \A id \in Gone(j)' :
               \/ id \in Gone(j)
               \/ j = k /\ \E a \in DOMAIN << command >> : id = << command >>[a].id
      BY <1>1, <2>1, <2>2, <2>3, <2>4, OrderJoined
    <3> QED
      BY <2>1, <3>1
  <2>6. DriverAhead(k)'
    <3>1. driver'[k].inflight = command /\ driver'[k].pending = NoCommand
      BY <1>4 DEF PutsInFlight
    <3> QED
      BY <1>1, <1>2, <2>5, <3>1 DEF DriverAhead
  <2>7. \A j \in Keys \ {k} : DriverAhead(j)'
    BY <1>1, <2>5 DEF InOrder, DriverAhead
  <2> QED
    BY <2>5, <2>6, <2>7 DEF InOrder
<1> QED
  BY <1>1, <1>3, <1>4

LEMMA TickInOrder ==
  ASSUME IInv, Catalogued, Due, InOrder, NEW k \in Keys, TickKey(k)
  PROVE  InOrder'
<1>d. PICK d : d = driver[k]
  OBVIOUS
<1>e. PICK e : e = driver'[k]
  OBVIOUS
<1>1. PICK s : s = TickSends(d, k \in Pipelined)
  OBVIOUS
<1>2. /\ s \in Seq(Fired) /\ queue' = queue \o Entries(k, s) /\ wire' = wire
      /\ \A j \in Keys \ {k} : driver'[j] = driver[j]
      /\ Ticks(d, e, k \in Pipelined, s)
  BY <1>1, <1>d, <1>e, TickKeyIs DEF Enqueue
<1>3. PICK again, last : TickBrief(d, e, again, last) /\ s = d.due \o again \o last
  BY <1>2, TickInBrief
<1>4. /\ d \in DriverOf(Fired)
      /\ d.due = << >> \/ (d.inflight # NoCommand /\ d.due = << d.inflight >>)
      /\ d.inflight # NoCommand /\ d.pending # NoCommand => d.inflight.id < d.pending.id
      /\ d.inflight # NoCommand => \A id \in Gone(k) : id <= d.inflight.id
      /\ d.pending # NoCommand => \A id \in Gone(k) : id < d.pending.id
      /\ queue \in Seq(Entry)
  BY <1>d, DriversAre DEF Due, InOrder, DriverAhead, Typed
<1>5. /\ Ascending(s)
      /\ \A a \in DOMAIN s : \/ s[a] = d.inflight /\ d.inflight # NoCommand
                             \/ s[a] = d.pending /\ last # << >>
  <2>1. s = SendsOf(d, again, last)
    BY <1>3 DEF SendsOf
  <2> QED
    BY <1>3, <1>4, <2>1, SendsInOrder
<1>6. IsJoined(queue, k, s, queue')
  BY <1>2, <1>4, JoinedAre, Zenon
<1>7. last # << >> => d.pending # NoCommand
  BY <1>3 DEF TickBrief
<1>8. \A id \in Gone(k) : id \in Nat
  BY BookSays
<1>9. d.inflight.id \in Nat /\ d.pending.id \in Nat
  BY <1>4, FiredIds DEF DriverOf
<1>10. \A a \in DOMAIN s : \A id \in Gone(k) : id <= s[a].id
  BY <1>4, <1>5, <1>7, <1>8, <1>9
<1>11. /\ \A j \in Keys : QueueInOrder(j)'
       /\ \A j \in Keys : \A id \in Gone(j)' :
            id \in Gone(j) \/ (j = k /\ \E a \in DOMAIN s : id = s[a].id)
  BY <1>2, <1>5, <1>6, <1>10, OrderJoined
<1>12. DriverAhead(k)'
  <2>1. \A id \in Gone(k)' : \/ id \in Gone(k)
                             \/ d.inflight # NoCommand /\ id = d.inflight.id
                             \/ last # << >> /\ id = d.pending.id
    BY <1>5, <1>11
  <2>2. CASE last = << >> /\ e.pending = d.pending /\
             (e.inflight = NoCommand \/ e.inflight = d.inflight)
    BY <1>4, <1>8, <1>9, <1>e, <2>1, <2>2 DEF DriverAhead
  <2>3. CASE e.inflight = d.pending /\ d.pending # NoCommand /\ e.pending = NoCommand
    BY <1>4, <1>8, <1>9, <1>e, <2>1, <2>3 DEF DriverAhead
  <2> QED
    BY <1>3, <2>2, <2>3 DEF TickBrief
<1>13. \A j \in Keys \ {k} : DriverAhead(j)'
  BY <1>2, <1>11 DEF InOrder, DriverAhead
<1> QED
  BY <1>11, <1>12, <1>13 DEF InOrder

LEMMA DispatchInOrder ==
  ASSUME IInv, InOrder, Dispatch
  PROVE  /\ InOrder'
         /\ \A m \in wire' \ wire : \A n \in wire : n.key = m.key => n.id <= m.id
<1>h. PICK h : h = Head(queue)
  OBVIOUS
<1>1. /\ queue # << >> /\ queue' = Tail(queue) /\ h \in Entry
      /\ wire' = wire \cup {[key |-> h.key, seq |-> nextSeq, id |-> h.command.id]}
      /\ \A k \in Keys : SameHands(driver[k], driver'[k])
  BY <1>h, DispatchIs
<1>2. queue \in Seq(Entry) /\ Len(queue) \in Nat /\ DOMAIN queue = 1 .. Len(queue)
  BY DriversAre DEF Typed
<1>3. /\ 1 \in DOMAIN queue /\ queue[1] = h
      /\ DOMAIN queue' = 1 .. Len(queue) - 1
      /\ \A i \in DOMAIN queue' :
           /\ i \in Nat /\ i + 1 \in DOMAIN queue /\ 1 < i + 1 /\ queue'[i] = queue[i + 1]
  BY <1>1, <1>2, <1>h
<1>4. \A m \in wire' : m \in wire \/ (m.key = h.key /\ m.id = h.command.id)
  BY <1>1
<1>5. ASSUME NEW k \in Keys
      PROVE  Gone(k)' \subseteq Gone(k)
  <2> SUFFICES ASSUME NEW id \in Gone(k)'
               PROVE  id \in Gone(k)
    OBVIOUS
  <2>1. \/ \E n \in wire' : n.key = k /\ id = n.id
        \/ \E i \in DOMAIN queue' : queue'[i].key = k /\ id = queue'[i].command.id
    BY DEF Gone
  <2>2. CASE \E n \in wire' : n.key = k /\ id = n.id
    BY <1>3, <1>4, <2>2, GoneAre
  <2>3. CASE \E i \in DOMAIN queue' : queue'[i].key = k /\ id = queue'[i].command.id
    BY <1>3, <2>3, GoneAre
  <2> QED
    BY <2>1, <2>2, <2>3
<1>6. \A k \in Keys : DriverAhead(k)'
  BY <1>1, <1>5 DEF InOrder, DriverAhead, SameHands
<1>7. ASSUME NEW k \in Keys
      PROVE  QueueInOrder(k)'
  <2>0. QueueInOrder(k)
    BY DEF InOrder
  <2>1. ASSUME NEW n \in wire', NEW i \in DOMAIN queue', n.key = k, queue'[i].key = k
        PROVE  n.id <= queue'[i].command.id
    <3>1. CASE n \in wire
      BY <1>3, <2>0, <2>1, <3>1 DEF QueueInOrder
    <3>2. CASE n.key = h.key /\ n.id = h.command.id
      BY <1>3, <2>0, <2>1, <3>2 DEF QueueInOrder
    <3> QED
      BY <1>4, <3>1, <3>2
  <2>2. ASSUME NEW i \in DOMAIN queue', NEW j \in DOMAIN queue', i < j,
               queue'[i].key = k, queue'[j].key = k
        PROVE  queue'[i].command.id <= queue'[j].command.id
    <3>1. i + 1 < j + 1
      BY <1>3, <2>2
    <3> QED
      BY <1>3, <2>0, <2>2, <3>1 DEF QueueInOrder
  <2> QED
    BY <2>1, <2>2 DEF QueueInOrder
<1>8. ASSUME NEW m \in wire' \ wire, NEW n \in wire, n.key = m.key
      PROVE  n.id <= m.id
  <2>1. m.key = h.key /\ m.id = h.command.id /\ h.key \in Keys
    BY <1>1, <1>4 DEF Entry
  <2>2. QueueInOrder(h.key)
    BY <2>1 DEF InOrder
  <2> QED
    BY <1>3, <1>8, <2>1, <2>2 DEF QueueInOrder
<1> QED
  BY <1>6, <1>7, <1>8 DEF InOrder

LEMMA StepInOrder == IInv /\ Catalogued /\ Due /\ InOrder /\ [Next]_vars => InOrder'
<1> SUFFICES ASSUME IInv, Catalogued, Due, InOrder, [Next]_vars
             PROVE  InOrder'
  OBVIOUS
<1>1. ASSUME UNCHANGED <<queue, wire>>, \A k \in Keys : SameHands(driver[k], driver'[k])
      PROVE  InOrder'
  BY <1>1, SameGone DEF InOrder, DriverAhead, SameHands
<1>2. ASSUME NEW k \in Keys, NEW kind \in KindsOf(k), Fire(k, kind)
      PROVE  InOrder'
  BY <1>2, FireInOrder
<1>3. ASSUME NEW answer \in answers, Receive(answer)
      PROVE  InOrder'
  <2> DEFINE k == answer.key
  <2>1. /\ k \in Keys /\ UNCHANGED <<queue, wire>>
        /\ \A j \in Keys \ {k} : SameHands(driver[j], driver'[j])
        /\ \/ SameHands(driver[k], driver'[k])
           \/ IsAnswered(driver[k], driver'[k], answer.seq)
    BY <1>3, ReceiveIs
  <2>2. \A j \in Keys : SameHands(driver[j], driver'[j]) => DriverAhead(j)'
    BY <2>1, SameGone DEF InOrder, DriverAhead, SameHands
  <2>3. IsAnswered(driver[k], driver'[k], answer.seq) => DriverAhead(k)'
    <3>1. \A id \in Gone(k) : id \in Nat
      BY <2>1, BookSays
    <3>2. driver[k].pending.id \in Nat
      BY <2>1, DriversAre, FiredIds DEF DriverOf
    <3>3. /\ Gone(k)' = Gone(k)
          /\ driver[k].pending # NoCommand => \A id \in Gone(k) : id < driver[k].pending.id
      BY <2>1, SameGone DEF InOrder, DriverAhead
    <3>4. IsAnswered(driver[k], driver'[k], answer.seq) =>
            \/ driver'[k].inflight = NoCommand /\ driver'[k].pending = driver[k].pending
            \/ /\ driver[k].pending # NoCommand /\ driver'[k].inflight = driver[k].pending
               /\ driver'[k].pending = NoCommand
      BY DEF IsAnswered
    <3>5. CASE driver'[k].inflight = NoCommand /\ driver'[k].pending = driver[k].pending
      BY <3>3, <3>5 DEF DriverAhead
    <3>6. CASE /\ driver[k].pending # NoCommand /\ driver'[k].inflight = driver[k].pending
               /\ driver'[k].pending = NoCommand
      BY <3>1, <3>2, <3>3, <3>6 DEF DriverAhead
    <3> QED
      BY <3>4, <3>5, <3>6
  <2> QED
    BY <2>1, <2>2, <2>3, SameGone DEF InOrder
<1>4. ASSUME NEW k \in Keys, TickKey(k)
      PROVE  InOrder'
  BY <1>4, TickInOrder
<1>5. CASE Dispatch
  BY <1>5, DispatchInOrder
<1>6. CASE Reopen
  BY <1>6, ReopenIs DEF InOrder, DriverAhead, QueueInOrder, FreshDriver
<1>7. CASE Quiet
  BY <1>1, <1>7, QuietIs
<1> QED
  BY <1>2, <1>3, <1>4, <1>5, <1>6, <1>7, StepIsOneOf

LEMMA AlwaysInOrder == Spec => []InOrder
<1>1. Init => InOrder
  BY DEF Init, InOrder, DriverAhead, QueueInOrder, FreshDriver
<1> QED
  BY <1>1, AlwaysSound, AlwaysCatalogued, AlwaysDue, StepInOrder, PTL DEF Spec

(***************************************************************************)
(* What leaves for an opcode is never older than what already left for it: *)
(* fires, answers and ticks may all launch SETs before a dispatch, retries *)
(* join them, and they still go out in the order the operator fired them.  *)
(***************************************************************************)
THEOREM SetsLeaveInOrder == Spec => WireInOrder
<1> DEFINE Step == \A m \in wire' \ wire : \A n \in wire : n.key = m.key => n.id <= m.id
<1>1. ASSUME IInv, Catalogued, InOrder, [Next]_vars
      PROVE  Step
  <2>1. CASE Dispatch
    BY <1>1, <2>1, DispatchInOrder
  <2>2. CASE wire' \subseteq wire
    BY <2>2
  <2>3. Dispatch \/ wire' \subseteq wire
    BY <1>1 DEF Next, Fire, StartPoll, HandshakeReply, Receive, BeginTick, TickKey,
       EndDispatch, KeepDatalink, Reopen, CameraHears, Elapse, network, vars
  <2> QED
    BY <2>1, <2>2, <2>3
<1>2. WireInOrder <=> [][Step]_vars
  BY DEF WireInOrder
<1> HIDE DEF Step
<1> QED
  BY <1>1, <1>2, AlwaysSound, AlwaysCatalogued, AlwaysInOrder, PTL DEF Spec

-----------------------------------------------------------------------------
(***************************************************************************)
(* Counting: how many entries of a list are in a set.                      *)
(***************************************************************************)
Count(s, P) == Cardinality({i \in DOMAIN s : s[i] \in P})

LEMMA CountType ==
  ASSUME NEW S, NEW s \in Seq(S), NEW P
  PROVE  /\ IsFiniteSet({i \in DOMAIN s : s[i] \in P})
         /\ Count(s, P) \in Nat
         /\ \A i \in DOMAIN s : s[i] \in P => Count(s, P) >= 1
<1> DEFINE A == {i \in DOMAIN s : s[i] \in P}
<1>1. Len(s) \in Nat /\ DOMAIN s = 1 .. Len(s)
  OBVIOUS
<1>2. IsFiniteSet(1 .. Len(s)) /\ A \in SUBSET (1 .. Len(s))
  BY <1>1, FS_Interval
<1>3. IsFiniteSet(A)
  BY <1>2, FS_Subset
<1>4. Cardinality(A) \in Nat /\ (Cardinality(A) = 0 <=> A = {})
  BY <1>3, FS_CardinalityType, FS_EmptySet
<1>5. Count(s, P) = Cardinality(A)
  BY DEF Count
<1>6. ASSUME NEW i \in DOMAIN s, s[i] \in P
      PROVE  Count(s, P) >= 1
  <2>1. A # {}
    BY <1>6
  <2> HIDE DEF A
  <2> QED
    BY <1>4, <1>5, <2>1
<1> QED
  BY <1>3, <1>4, <1>5, <1>6

LEMMA CountConcat ==
  ASSUME NEW S, NEW s \in Seq(S), NEW t \in Seq(S), NEW P
  PROVE  Count(s \o t, P) = Count(s, P) + Count(t, P)
<1>r. PICK r : r = s \o t
  OBVIOUS
<1> DEFINE A == {i \in DOMAIN s : s[i] \in P}
           B == {i \in DOMAIN t : t[i] \in P}
           C == {Len(s) + i : i \in B}
           f == [i \in B |-> Len(s) + i]
<1>1. /\ Len(s) \in Nat /\ Len(t) \in Nat
      /\ DOMAIN s = 1 .. Len(s) /\ DOMAIN t = 1 .. Len(t)
      /\ DOMAIN r = 1 .. Len(s) + Len(t)
      /\ \A i \in 1 .. Len(s) : r[i] = s[i]
      /\ \A i \in 1 .. Len(t) : r[Len(s) + i] = t[i]
  BY <1>r, ConcatIs
<1>2. {i \in DOMAIN r : r[i] \in P} = A \cup C
  <2>1. \A i \in A \cup C : i \in DOMAIN r /\ r[i] \in P
    BY <1>1
  <2>2. ASSUME NEW i \in DOMAIN r, r[i] \in P
        PROVE  i \in A \cup C
    <3>1. CASE i <= Len(s)
      BY <1>1, <2>2, <3>1
    <3>2. CASE i > Len(s)
      <4>1. i - Len(s) \in 1 .. Len(t) /\ Len(s) + (i - Len(s)) = i
        BY <1>1, <3>2
      <4>2. i - Len(s) \in B
        BY <1>1, <2>2, <4>1
      <4> QED
        BY <4>1, <4>2
    <3> QED
      BY <1>1, <3>1, <3>2
  <2> HIDE DEF A, C
  <2> QED
    BY <2>1, <2>2
<1>3. A \cap C = {}
  BY <1>1
<1>4. IsFiniteSet(A) /\ IsFiniteSet(B)
  BY CountType
<1>5. f \in Bijection(B, C)
  <2>1. f \in [B -> C]
    OBVIOUS
  <2>2. \A a, b \in B : f[a] = f[b] => a = b
    BY <1>1
  <2>3. \A c \in C : \E b \in B : f[b] = c
    OBVIOUS
  <2> QED
    BY <2>1, <2>2, <2>3 DEF Bijection, Injection, Surjection, IsInjective
<1> HIDE DEF A, B, C, f
<1>6. IsFiniteSet(C) /\ Cardinality(C) = Cardinality(B)
  BY <1>4, <1>5, FS_Bijection DEF ExistsBijection
<1>7. Cardinality(A \cup C) = Cardinality(A) + Cardinality(C) - Cardinality(A \cap C)
  BY <1>4, <1>6, FS_Union
<1>8. Cardinality(A \cap C) = 0
  BY <1>3, FS_EmptySet
<1>9. Cardinality(A) \in Nat /\ Cardinality(B) \in Nat
  BY <1>4, FS_CardinalityType
<1>10. /\ Count(r, P) = Cardinality(A \cup C)
       /\ Count(s, P) = Cardinality(A) /\ Count(t, P) = Cardinality(B)
  BY <1>2 DEF Count, A, B
<1> QED
  BY <1>6, <1>7, <1>8, <1>9, <1>10, <1>r

LEMMA CountShort ==
  ASSUME NEW x, NEW P
  PROVE  /\ Count(<< >>, P) = 0
         /\ Count(<< x >>, P) = IF x \in P THEN 1 ELSE 0
<1>1. Count(<< >>, P) = 0
  <2>1. {i \in DOMAIN << >> : << >>[i] \in P} = {}
    OBVIOUS
  <2> QED
    BY <2>1, FS_EmptySet DEF Count
<1>2. CASE x \in P
  <2>1. {i \in DOMAIN << x >> : << x >>[i] \in P} = {1}
    BY <1>2
  <2> QED
    BY <1>1, <1>2, <2>1, FS_Singleton DEF Count
<1>3. CASE x \notin P
  <2>1. {i \in DOMAIN << x >> : << x >>[i] \in P} = {}
    BY <1>3
  <2> QED
    BY <1>1, <1>3, <2>1, FS_EmptySet DEF Count
<1> QED
  BY <1>2, <1>3

(***************************************************************************)
(* Counted is inductive.                                                   *)
(***************************************************************************)
These(id) == {c \in Fired : c.id = id}

CopiesIn(w, id) == Cardinality({m \in w : m.id = id})

WaitingIn(q, id) == Count(q, {x \in Entry : x.command.id = id})

LEMMA LoadIs ==
  ASSUME NEW q \in Seq(Entry), NEW w, IsFiniteSet(w), NEW id
  PROVE  /\ Cardinality({i \in DOMAIN q : q[i].command.id = id}) = WaitingIn(q, id)
         /\ CopiesIn(w, id) \in Nat /\ WaitingIn(q, id) \in Nat
         /\ \A i \in DOMAIN q : q[i].command.id = id => WaitingIn(q, id) >= 1
<1>1. \A i \in DOMAIN q : q[i] \in Entry
  OBVIOUS
<1>2. {i \in DOMAIN q : q[i].command.id = id}
        = {i \in DOMAIN q : q[i] \in {x \in Entry : x.command.id = id}}
  BY <1>1
<1>3. CopiesIn(w, id) \in Nat
  BY FS_Subset, FS_CardinalityType DEF CopiesIn
<1>4. /\ WaitingIn(q, id) \in Nat
      /\ \A i \in DOMAIN q : q[i].command.id = id => WaitingIn(q, id) >= 1
  BY <1>1, CountType DEF WaitingIn
<1>5. Cardinality({i \in DOMAIN q : q[i].command.id = id}) = WaitingIn(q, id)
  BY <1>2 DEF WaitingIn, Count
<1> QED
  BY <1>3, <1>4, <1>5

(* The load of a SET, before and after a step. *)
LEMMA LoadNow ==
  ASSUME IInv, IsFiniteSet(wire), NEW id \in Ids
  PROVE  /\ Load[id] = CopiesIn(wire, id) + WaitingIn(queue, id)
         /\ CopiesIn(wire, id) \in Nat /\ WaitingIn(queue, id) \in Nat /\ Load[id] \in Nat
         /\ \A i \in DOMAIN queue : queue[i].command.id = id => WaitingIn(queue, id) >= 1
<1>1. queue \in Seq(Entry)
  BY DriversAre DEF Typed
<1>2. /\ Cardinality({i \in DOMAIN queue : queue[i].command.id = id}) = WaitingIn(queue, id)
      /\ CopiesIn(wire, id) \in Nat /\ WaitingIn(queue, id) \in Nat
      /\ \A i \in DOMAIN queue : queue[i].command.id = id => WaitingIn(queue, id) >= 1
  BY <1>1, LoadIs
<1> QED
  BY <1>2 DEF Load, Copies, CopiesIn

LEMMA LoadNext ==
  ASSUME queue' \in Seq(Entry), IsFiniteSet(wire'), NEW id \in Ids
  PROVE  Load'[id] = CopiesIn(wire', id) + WaitingIn(queue', id)
<1>1. \A q \in Seq(Entry) : \A w : IsFiniteSet(w) =>
        Cardinality({i \in DOMAIN q : q[i].command.id = id}) = WaitingIn(q, id)
  BY LoadIs
<1>2. Cardinality({i \in DOMAIN queue' : queue'[i].command.id = id}) = WaitingIn(queue', id)
  BY <1>1
<1> QED
  BY <1>2 DEF Load, Copies, CopiesIn

(* A SET that neither left nor waits in the queue loads nothing. *)
LEMMA NotGone ==
  ASSUME IInv, NEW id \in Ids, \A k \in Keys : id \notin Gone(k)
  PROVE  Load[id] = 0
<1>1. queue \in Seq(Entry) /\ wire \subseteq [key : Keys, seq : SeqNo, id : sent]
  BY DriversAre DEF Typed
<1>2. {m \in wire : m.id = id} = {}
  BY <1>1, GoneAre
<1>3. {i \in DOMAIN queue : queue[i].command.id = id} = {}
  <2>1. \A i \in DOMAIN queue : queue[i] \in Entry
    BY <1>1
  <2>2. \A i \in DOMAIN queue : queue[i].key \in Keys
    BY <2>1 DEF Entry
  <2> QED
    BY <2>2, GoneAre
<1>4. Cardinality({}) = 0
  BY FS_EmptySet
<1>5. Copies(id) = 0
  BY <1>2, <1>4 DEF Copies
<1>6. Load[id] = Copies(id) + Cardinality({i \in DOMAIN queue : queue[i].command.id = id})
  BY DEF Load
<1> QED
  BY <1>3, <1>4, <1>5, <1>6

(* Commands that join the queue add to the load. *)
LEMMA LoadJoined ==
  ASSUME IInv, IsFiniteSet(wire), UNCHANGED wire, NEW k \in Keys, NEW s \in Seq(Fired),
         queue' = queue \o Entries(k, s), NEW id \in Ids
  PROVE  Load'[id] = Load[id] + Count(s, These(id)) /\ Count(s, These(id)) \in Nat
<1> DEFINE P == {x \in Entry : x.command.id = id}
<1>1. queue \in Seq(Entry) /\ Entries(k, s) \in Seq(Entry)
  BY DriversAre, EntriesAre DEF Typed
<1>2. queue' \in Seq(Entry)
  BY <1>1, ConcatProperties
<1>3. Count(queue', P) = Count(queue, P) + Count(Entries(k, s), P)
  <2> HIDE DEF P
  <2>1. Count(queue \o Entries(k, s), P) = Count(queue, P) + Count(Entries(k, s), P)
    BY <1>1, CountConcat
  <2> QED
    BY <2>1
<1>4. Count(Entries(k, s), P) = Count(s, These(id))
  <2>1. /\ DOMAIN Entries(k, s) = DOMAIN s
        /\ \A i \in DOMAIN s : /\ Entries(k, s)[i] = [key |-> k, command |-> s[i]]
                               /\ s[i] \in Fired
    BY EntriesAre
  <2>2. \A i \in DOMAIN s : Entries(k, s)[i] \in P <=> s[i] \in These(id)
    <3> SUFFICES ASSUME NEW i \in DOMAIN s
                 PROVE  Entries(k, s)[i] \in P <=> s[i] \in These(id)
      OBVIOUS
    <3>1. /\ [key |-> k, command |-> s[i]] \in Entry
          /\ [key |-> k, command |-> s[i]].command = s[i]
      BY <2>1 DEF Entry
    <3> QED
      BY <2>1, <3>1 DEF These
  <2>3. {i \in DOMAIN Entries(k, s) : Entries(k, s)[i] \in P}
          = {i \in DOMAIN s : s[i] \in These(id)}
    <3> HIDE DEF P
    <3> QED
      BY <2>1, <2>2
  <2> QED
    BY <2>3 DEF Count
<1>5. Count(s, These(id)) \in Nat
  BY CountType
<1>6. /\ Load[id] = CopiesIn(wire, id) + Count(queue, P)
      /\ CopiesIn(wire, id) \in Nat /\ Count(queue, P) \in Nat
  BY LoadNow DEF WaitingIn
<1>7. Load'[id] = CopiesIn(wire, id) + Count(queue', P)
  BY <1>2, LoadNext DEF WaitingIn
<1> HIDE DEF P
<1> QED
  BY <1>3, <1>4, <1>5, <1>6, <1>7

(* A list that is empty or holds one command. *)
LEMMA CountOne ==
  ASSUME NEW c \in Fired, NEW s, s = << >> \/ s = << c >>, NEW id
  PROVE  /\ s \in Seq(Fired) /\ Len(s) = (IF s = << >> THEN 0 ELSE 1)
         /\ Count(s, These(id)) = IF c.id = id THEN Len(s) ELSE 0
<1>1. c \in These(id) <=> c.id = id
  BY DEF These
<1>2. CASE s = << >>
  <2>1. Count(<< >>, These(id)) = 0
    BY CountShort
  <2> QED
    BY <1>2, <2>1
<1>3. CASE s = << c >>
  <2>1. Count(<< c >>, These(id)) = IF c \in These(id) THEN 1 ELSE 0
    BY CountShort
  <2> QED
    BY <1>1, <1>3, <2>1
<1> QED
  BY <1>2, <1>3

(* How often a tick sends a SET. *)
Repeated(d, again, id) ==
  IF d.inflight # NoCommand /\ d.inflight.id = id THEN Len(d.due) + Len(again) ELSE 0

Followed(d, last, id) == IF last # << >> /\ d.pending.id = id THEN 1 ELSE 0

LEMMA CountSends ==
  ASSUME NEW d \in DriverOf(Fired), NEW e, NEW again, NEW last, TickBrief(d, e, again, last),
         d.due = << >> \/ (d.inflight # NoCommand /\ d.due = << d.inflight >>),
         NEW id
  PROVE  /\ Len(d.due) \in {0, 1} /\ Len(again) \in {0, 1}
         /\ again = << >> => Len(again) = 0
         /\ Count(d.due \o again \o last, These(id))
              = Repeated(d, again, id) + Followed(d, last, id)
<1> DEFINE P == These(id)
<1>0. << >> \in Seq(Fired) /\ Len(<< >>) = 0 /\ Count(<< >>, P) = 0
  <2>1. Count(<< >>, P) = 0
    BY CountShort
  <2> HIDE DEF P
  <2> QED
    BY <2>1
<1>1. /\ d.due \in Seq(Fired) /\ again \in Seq(Fired)
      /\ Len(d.due) \in {0, 1} /\ Len(again) \in {0, 1} /\ (again = << >> => Len(again) = 0)
      /\ Count(d.due, P) = (IF d.inflight # NoCommand /\ d.inflight.id = id
                            THEN Len(d.due) ELSE 0)
      /\ Count(again, P) = (IF d.inflight # NoCommand /\ d.inflight.id = id
                            THEN Len(again) ELSE 0)
  <2>1. CASE d.inflight = NoCommand
    <3>1. d.due = << >> /\ again = << >>
      BY <2>1 DEF TickBrief, Repeats
    <3> HIDE DEF P
    <3> QED
      BY <1>0, <2>1, <3>1
  <2>2. CASE d.inflight # NoCommand
    <3>1. PICK c \in Fired : c = d.inflight
      BY <2>2 DEF DriverOf
    <3>2. (d.due = << >> \/ d.due = << c >>) /\ (again = << >> \/ again = << c >>)
      BY <3>1 DEF TickBrief
    <3>3. /\ d.due \in Seq(Fired) /\ Len(d.due) = (IF d.due = << >> THEN 0 ELSE 1)
          /\ Count(d.due, P) = IF c.id = id THEN Len(d.due) ELSE 0
      BY <3>2, CountOne
    <3>4. /\ again \in Seq(Fired) /\ Len(again) = (IF again = << >> THEN 0 ELSE 1)
          /\ Count(again, P) = IF c.id = id THEN Len(again) ELSE 0
      BY <3>2, CountOne
    <3> HIDE DEF P
    <3> QED
      BY <2>2, <3>1, <3>3, <3>4
  <2> QED
    BY <2>1, <2>2
<1>2. /\ last \in Seq(Fired)
      /\ Count(last, P) = IF last # << >> /\ d.pending.id = id THEN 1 ELSE 0
  <2>1. CASE last = << >>
    <3> HIDE DEF P
    <3> QED
      BY <1>0, <2>1
  <2>2. CASE last # << >>
    <3>1. PICK c \in Fired : c = d.pending
      BY <2>2 DEF TickBrief, DriverOf
    <3>2. last = << c >>
      BY <2>2, <3>1 DEF TickBrief
    <3>3. /\ last \in Seq(Fired) /\ Len(last) = (IF last = << >> THEN 0 ELSE 1)
          /\ Count(last, P) = IF c.id = id THEN Len(last) ELSE 0
      BY <3>2, CountOne
    <3> HIDE DEF P
    <3> QED
      BY <2>2, <3>1, <3>3
  <2> QED
    BY <2>1, <2>2
<1>3. d.due \o again \in Seq(Fired)
  BY <1>1, ConcatProperties
<1>4. /\ Count(d.due \o again, P) = Count(d.due, P) + Count(again, P)
      /\ Count(d.due \o again \o last, P) = Count(d.due \o again, P) + Count(last, P)
  <2>1. Count(d.due \o again, P) = Count(d.due, P) + Count(again, P)
    BY <1>1, CountConcat
  <2>2. Count((d.due \o again) \o last, P) = Count(d.due \o again, P) + Count(last, P)
    BY <1>2, <1>3, CountConcat
  <2> HIDE DEF P
  <2> QED
    BY <2>1, <2>2
<1> HIDE DEF P
<1>5. Count(d.due \o again \o last, P)
        = (IF d.inflight # NoCommand /\ d.inflight.id = id
           THEN Len(d.due) + Len(again) ELSE 0)
          + (IF last # << >> /\ d.pending.id = id THEN 1 ELSE 0)
  BY <1>1, <1>2, <1>4
<1> QED
  BY <1>1, <1>5 DEF P, Repeated, Followed

(* The queue after commands joined it, if these keep their limit. *)
LEMMA JoinedCounted ==
  ASSUME IInv, Counted, UNCHANGED wire, NEW k \in Keys, NEW s \in Seq(Fired),
         queue' = queue \o Entries(k, s),
         \A a \in DOMAIN s : /\ Load'[s[a].id] <= Limit(s[a].kind)
                             /\ \A i \in DOMAIN queue :
                                  queue[i].command.id = s[a].id => queue[i].command = s[a]
  PROVE  /\ QueueCounted'
         /\ \A id \in Ids : /\ Load'[id] <= 2
                            /\ (\A a \in DOMAIN s : s[a].id # id) => Load'[id] = Load[id]
<1>0. IsFiniteSet(wire) /\ QueueCounted /\ (\A id \in Ids : Load[id] <= 2)
  BY DEF Counted
<1>1. queue \in Seq(Entry) /\ \A i \in DOMAIN queue : queue[i] \in Entry
  BY DriversAre DEF Typed
<1>2. \A a \in DOMAIN s : s[a] \in Fired
  OBVIOUS
<1>3. \A id \in Ids : /\ Load'[id] = Load[id] + Count(s, These(id))
                      /\ Load[id] \in Nat /\ Count(s, These(id)) \in Nat
  BY <1>0, LoadJoined, LoadNow
<1>4. ASSUME NEW id \in Ids, \A a \in DOMAIN s : s[a].id # id
      PROVE  Load'[id] = Load[id]
  <2>1. {a \in DOMAIN s : s[a] \in These(id)} = {}
    BY <1>4 DEF These
  <2>2. Count(s, These(id)) = 0
    BY <2>1, FS_EmptySet DEF Count
  <2> QED
    BY <1>3, <2>2
<1>5. ASSUME NEW id \in Ids
      PROVE  Load'[id] <= 2
  <2>1. CASE \E a \in DOMAIN s : s[a].id = id
    <3>1. PICK a \in DOMAIN s : s[a].id = id
      BY <2>1
    <3>2. Load'[id] <= Limit(s[a].kind)
      BY <3>1
    <3>3. Load'[id] \in Nat
      BY <1>3
    <3> QED
      BY <3>2, <3>3 DEF Limit
  <2>2. CASE \A a \in DOMAIN s : s[a].id # id
    BY <1>0, <1>4, <2>2
  <2> QED
    BY <2>1, <2>2
<1>6. IsJoined(queue, k, s, queue')
  BY <1>1, JoinedAre, Zenon
<1>7. ASSUME NEW i \in DOMAIN queue'
      PROVE  Load'[queue'[i].command.id] <= Limit(queue'[i].command.kind)
  <2>1. CASE i \in DOMAIN queue
    <3>1. queue'[i] = queue[i] /\ queue[i].command \in Fired
      BY <1>1, <1>6, <2>1 DEF IsJoined, Entry
    <3>2. PICK c \in Fired : c = queue[i].command
      BY <3>1
    <3>3. c.id \in Ids /\ Load[c.id] <= Limit(c.kind)
      BY <1>0, <2>1, <3>2, FiredIds DEF QueueCounted
    <3>4. CASE \E a \in DOMAIN s : s[a].id = c.id
      BY <2>1, <3>1, <3>2, <3>4
    <3>5. CASE \A a \in DOMAIN s : s[a].id # c.id
      BY <1>4, <3>1, <3>2, <3>3, <3>5
    <3> QED
      BY <3>4, <3>5
  <2>2. CASE \E a \in DOMAIN s : i = a + Len(queue)
    <3>1. PICK a \in DOMAIN s : queue'[i] = [key |-> k, command |-> s[a]]
      BY <1>6, <2>2 DEF IsJoined
    <3>2. queue'[i].command = s[a]
      BY <3>1
    <3> QED
      BY <3>2
  <2> QED
    BY <1>6, <2>1, <2>2 DEF IsJoined
<1> QED
  BY <1>4, <1>5, <1>7 DEF QueueCounted

(* Nothing changes for a command that stays in flight and goes out no more. *)
LEMMA FlightStays ==
  ASSUME IInv, Counted, NEW k \in Keys, SameHands(driver[k], driver'[k]),
         driver[k].inflight # NoCommand =>
           /\ Load'[driver[k].inflight.id] \in Nat
           /\ Load'[driver[k].inflight.id] <= Load[driver[k].inflight.id]
  PROVE  FlightCounted(k)'
<1>1. driver[k] \in DriverOf(Fired) /\ FlightCounted(k) /\ IsFiniteSet(wire)
  BY DriversAre DEF Counted
<1>2. Len(driver[k].due) \in Nat
  BY <1>1 DEF DriverOf
<1> SUFFICES ASSUME driver[k].inflight # NoCommand
             PROVE  FlightCounted(k)'
  BY DEF FlightCounted, SameHands
<1>3. driver[k].inflight \in Fired
  BY <1>1 DEF DriverOf
<1>4. driver[k].inflight.id \in Ids
  BY <1>3, FiredIds
<1>5. Load[driver[k].inflight.id] \in Nat
  BY <1>1, <1>4, LoadNow
<1> QED
  BY <1>1, <1>2, <1>5 DEF FlightCounted, SameHands

LEMMA SameCounted ==
  ASSUME IInv, Counted, UNCHANGED <<queue, wire>>
  PROVE  /\ Load' = Load /\ IsFiniteSet(wire') /\ QueueCounted'
         /\ \A id \in Ids : Load'[id] <= 2
         /\ \A k \in Keys : SameHands(driver[k], driver'[k]) => FlightCounted(k)'
<1>1. Load' = Load
  BY DEF Load, Copies
<1>2. ASSUME NEW k \in Keys, SameHands(driver[k], driver'[k])
      PROVE  FlightCounted(k)'
  BY <1>1, <1>2 DEF Counted, FlightCounted, SameHands
<1> QED
  BY <1>1, <1>2 DEF Counted, QueueCounted

LEMMA FireCounted ==
  ASSUME IInv, Catalogued, Due, Counted, NEW k \in Keys, NEW kind \in KindsOf(k),
         Fire(k, kind)
  PROVE  Counted'
<1>c. PICK command : command = [id |-> fired + 1, kind |-> kind]
  OBVIOUS
<1>1. /\ fired \in Nat /\ command \in Fired /\ command.id = fired + 1
      /\ fired + 1 \in Ids /\ wire' = wire /\ at = "commands"
      /\ \A j \in Keys \ {k} : driver'[j] = driver[j]
      /\ \/ Holds(driver[k], driver'[k], command) /\ queue' = queue
         \/ /\ PutsInFlight(driver[k], driver'[k], command)
            /\ queue' = queue \o Entries(k, << command >>)
  BY <1>c, FireIs DEF Enqueue
<1>2. CASE Holds(driver[k], driver'[k], command) /\ queue' = queue
  <2>1. /\ Load' = Load /\ IsFiniteSet(wire') /\ QueueCounted'
        /\ \A id \in Ids : Load'[id] <= 2
    BY <1>1, <1>2, SameCounted
  <2>2. \A j \in Keys : FlightCounted(j)'
    BY <1>1, <1>2, <2>1 DEF Counted, FlightCounted, Holds
  <2> QED
    BY <2>1, <2>2 DEF Counted
<1>3. CASE /\ PutsInFlight(driver[k], driver'[k], command)
           /\ queue' = queue \o Entries(k, << command >>)
  <2> DEFINE s == << command >>
  <2>1. s \in Seq(Fired) /\ DOMAIN s = {1} /\ s[1] = command
    BY <1>1
  <2>2. \A j \in Keys : command.id \notin Gone(j)
    BY <1>1, BookSays
  <2>3. Load[command.id] = 0
    BY <1>1, <2>2, NotGone
  <2>4. Count(s, These(command.id)) = 1
    <3>1. command \in These(command.id)
      BY <1>1 DEF These
    <3> QED
      BY <3>1, CountShort
  <2>5. Load'[command.id] = 1
    <3>1. IsFiniteSet(wire)
      BY DEF Counted
    <3>2. Load'[command.id] = Load[command.id] + Count(s, These(command.id))
      BY <1>1, <1>3, <2>1, <3>1, LoadJoined
    <3> HIDE DEF s
    <3> QED
      BY <2>3, <2>4, <3>2
  <2>6. \A a \in DOMAIN s :
          /\ Load'[s[a].id] <= Limit(s[a].kind)
          /\ \A i \in DOMAIN queue : queue[i].command.id = s[a].id => queue[i].command = s[a]
    <3>1. queue \in Seq(Entry) /\ \A i \in DOMAIN queue : queue[i] \in Entry
      BY DriversAre DEF Typed
    <3>2. \A i \in DOMAIN queue : queue[i].command.id \in Gone(queue[i].key)
      BY <3>1, GoneAre DEF Entry
    <3>3. \A i \in DOMAIN queue : queue[i].command.id # command.id
      BY <2>2, <3>1, <3>2 DEF Entry
    <3> QED
      BY <2>1, <2>5, <3>3 DEF Limit
  <2>7. /\ QueueCounted'
        /\ \A id \in Ids : /\ Load'[id] <= 2
                           /\ (\A a \in DOMAIN s : s[a].id # id) => Load'[id] = Load[id]
    <3> HIDE DEF s
    <3> QED
      BY <1>1, <1>3, <2>1, <2>6, JoinedCounted
  <2>8. FlightCounted(k)'
    <3>1. driver[k].due = << >>
      BY <1>1, NothingDue
    <3>2. /\ driver'[k].inflight = command /\ ~driver'[k].retransmitted
          /\ driver'[k].due = << >>
      BY <1>3, <3>1 DEF PutsInFlight
    <3> QED
      BY <2>5, <3>2 DEF FlightCounted
  <2>9. ASSUME NEW j \in Keys \ {k}
        PROVE  FlightCounted(j)'
    <3>1. SameHands(driver[j], driver'[j])
      BY <1>1 DEF SameHands
    <3>2. ASSUME driver[j].inflight # NoCommand
          PROVE  /\ Load'[driver[j].inflight.id] \in Nat
                 /\ Load'[driver[j].inflight.id] <= Load[driver[j].inflight.id]
      <4>1. PICK c \in Fired : c = driver[j].inflight /\ c.id \in 1 .. fired /\ c.id \in Ids
        BY <3>2, BookSays, FiredIds DEF InHand
      <4>2. Load'[c.id] = Load[c.id]
        BY <1>1, <2>1, <2>7, <4>1
      <4>3. Load[c.id] \in Nat
        BY <4>1, LoadNow DEF Counted
      <4> QED
        BY <4>1, <4>2, <4>3
    <3> QED
      BY <3>1, <3>2, FlightStays
  <2> QED
    BY <1>1, <2>7, <2>8, <2>9 DEF Counted
<1> QED
  BY <1>1, <1>2, <1>3

(* The held command has not left, and no queue entry carries its number. *)
LEMMA HeldLoadsNothing ==
  ASSUME IInv, Catalogued, InOrder, NEW k \in Keys, driver[k].pending # NoCommand
  PROVE  /\ driver[k].pending \in Fired /\ driver[k].pending.id \in Ids
         /\ Load[driver[k].pending.id] = 0
         /\ \A i \in DOMAIN queue : queue[i].command.id # driver[k].pending.id
<1>1. PICK c : c = driver[k].pending
  OBVIOUS
<1>2. /\ c \in InHand(k) /\ c \in Fired
  BY <1>1, BookSays DEF InHand
<1>3. c.id \in Ids /\ c.id \in Nat
  BY <1>2, FiredIds
<1>4. \A id \in Gone(k) : id \in Nat /\ id < c.id
  BY <1>1, BookSays DEF InOrder, DriverAhead
<1>5. \A j \in Keys : c.id \notin Gone(j)
  BY <1>2, <1>3, <1>4, BookSays
<1>6. Load[c.id] = 0
  BY <1>3, <1>5, NotGone
<1>7. \A i \in DOMAIN queue : queue[i].command.id # c.id
  <2>1. queue \in Seq(Entry) /\ \A i \in DOMAIN queue : queue[i] \in Entry
    BY DriversAre DEF Typed
  <2> QED
    BY <1>5, <2>1, GoneAre DEF Entry
<1> QED
  BY <1>1, <1>2, <1>3, <1>6, <1>7

LEMMA ReceiveCounted ==
  ASSUME IInv, Catalogued, Due, InOrder, Counted, NEW answer \in answers, Receive(answer)
  PROVE  Counted'
<1> DEFINE k == answer.key
<1>1. /\ k \in Keys /\ UNCHANGED <<queue, wire>>
      /\ \A j \in Keys \ {k} : SameHands(driver[j], driver'[j])
      /\ \/ SameHands(driver[k], driver'[k])
         \/ IsAnswered(driver[k], driver'[k], answer.seq)
  BY ReceiveIs
<1>2. /\ Load' = Load /\ IsFiniteSet(wire') /\ QueueCounted'
      /\ \A id \in Ids : Load'[id] <= 2
      /\ \A j \in Keys : SameHands(driver[j], driver'[j]) => FlightCounted(j)'
  BY <1>1, SameCounted
<1>3. ASSUME IsAnswered(driver[k], driver'[k], answer.seq)
      PROVE  FlightCounted(k)'
  <2>1. driver[k].due = << >>
    BY <1>1, <1>3 DEF Due, IsAnswered
  <2>2. CASE driver'[k].inflight = NoCommand
    BY <2>2 DEF FlightCounted
  <2>3. CASE /\ driver[k].pending # NoCommand
             /\ driver'[k].due = driver[k].due \o << driver[k].pending >>
             /\ driver'[k].inflight = driver[k].pending
             /\ ~driver'[k].retransmitted
    <3>1. Load[driver[k].pending.id] = 0
      BY <1>1, <2>3, HeldLoadsNothing
    <3>2. driver'[k].due = << driver[k].pending >>
      BY <2>1, <2>3
    <3>3. Len(driver'[k].due) = 1
      BY <3>2
    <3> QED
      BY <1>2, <2>3, <3>1, <3>3 DEF FlightCounted
  <2> QED
    BY <1>3, <2>2, <2>3 DEF IsAnswered
<1> QED
  BY <1>1, <1>2, <1>3 DEF Counted

(* The arithmetic of a tick: what it repeats is within the budget of one repeat. *)
LEMMA Budget ==
  ASSUME NEW load \in Nat, NEW due \in {0, 1}, NEW again \in {0, 1},
         NEW before \in {1, 2}, NEW limit \in {1, 2}, NEW after \in {1, 2},
         load + due <= before, before <= limit, again = 1 => limit = 2 /\ before = 1,
         before <= after, again = 1 => after = 2
  PROVE  load + due + again <= limit /\ load + due + again <= after
OBVIOUS

LEMMA TickCounted ==
  ASSUME IInv, Catalogued, Due, InOrder, Counted, NEW k \in Keys, TickKey(k)
  PROVE  Counted'
<1>d. PICK d : d = driver[k]
  OBVIOUS
<1>e. PICK e : e = driver'[k]
  OBVIOUS
<1>1. PICK s : s = TickSends(d, k \in Pipelined)
  OBVIOUS
<1>2. /\ s \in Seq(Fired) /\ queue' = queue \o Entries(k, s) /\ wire' = wire
      /\ \A j \in Keys \ {k} : driver'[j] = driver[j]
      /\ Ticks(d, e, k \in Pipelined, s)
  BY <1>1, <1>d, <1>e, TickKeyIs DEF Enqueue
<1>3. PICK again, last : TickBrief(d, e, again, last) /\ s = d.due \o again \o last
  BY <1>2, TickInBrief
<1>4. /\ d \in DriverOf(Fired) /\ IsFiniteSet(wire)
      /\ d.due = << >> \/ (d.inflight # NoCommand /\ d.due = << d.inflight >>)
      /\ d.inflight # NoCommand /\ d.pending # NoCommand => d.inflight.id < d.pending.id
  BY <1>d, DriversAre DEF Due, InOrder, DriverAhead, Counted
<1>5. \A a \in DOMAIN s : \/ s[a] = d.inflight /\ d.inflight # NoCommand
                          \/ s[a] = d.pending /\ last # << >>
  <2>1. s = SendsOf(d, again, last)
    BY <1>3 DEF SendsOf
  <2> QED
    BY <1>3, <1>4, <2>1, SendsInOrder
<1>6. last # << >> => d.pending # NoCommand
  BY <1>3 DEF TickBrief
<1>7. /\ d.inflight.id \in Nat /\ d.pending.id \in Nat
      /\ Len(d.due) \in {0, 1} /\ Len(again) \in {0, 1} /\ (again = << >> => Len(again) = 0)
  <2>1. d.inflight.id \in Nat /\ d.pending.id \in Nat
    BY <1>4, FiredIds DEF DriverOf
  <2>2. /\ Len(d.due) \in {0, 1} /\ Len(again) \in {0, 1}
        /\ again = << >> => Len(again) = 0
    BY <1>3, <1>4, CountSends
  <2> QED
    BY <2>1, <2>2
<1> DEFINE repeats(id) == Repeated(d, again, id)
           follows(id) == Followed(d, last, id)
<1>8. \A id \in Ids : /\ Load'[id] = Load[id] + (repeats(id) + follows(id))
                      /\ Load[id] \in Nat
  <2> SUFFICES ASSUME NEW id \in Ids
               PROVE  /\ Load'[id] = Load[id] + (repeats(id) + follows(id))
                      /\ Load[id] \in Nat
    OBVIOUS
  <2>1. Count(d.due \o again \o last, These(id)) = repeats(id) + follows(id)
    <3>1. TickBrief(d, e, again, last) /\ d \in DriverOf(Fired)
      BY <1>3, <1>4
    <3>2. d.due = << >> \/ (d.inflight # NoCommand /\ d.due = << d.inflight >>)
      BY <1>4
    <3> QED
      BY <3>1, <3>2, CountSends
  <2>2. Load'[id] = Load[id] + Count(s, These(id)) /\ Load[id] \in Nat
    BY <1>2, <1>4, LoadJoined, LoadNow
  <2> HIDE DEF repeats, follows
  <2>3. Count(s, These(id)) = repeats(id) + follows(id)
    BY <1>3, <2>1, Zenon
  <2> QED
    BY <2>2, <2>3, Zenon
<1>9. ASSUME d.inflight # NoCommand
      PROVE  /\ d.inflight.id \in Ids /\ d.inflight.kind \in Kinds
             /\ Load[d.inflight.id] + Len(d.due) <= (IF d.retransmitted THEN 2 ELSE 1)
             /\ d.retransmitted => d.inflight.kind = "tap"
             /\ last = << >> =>
                  Load'[d.inflight.id] = Load[d.inflight.id] + Len(d.due) + Len(again)
             /\ Load'[d.inflight.id] <= Limit(d.inflight.kind)
  <2>1. d.inflight \in Fired
    BY <1>4, <1>9 DEF DriverOf
  <2>2. d.inflight.id \in Ids /\ d.inflight.kind \in Kinds
    BY <2>1, FiredIds DEF Fired
  <2>3. /\ Load[d.inflight.id] + Len(d.due) <= (IF d.retransmitted THEN 2 ELSE 1)
        /\ d.retransmitted => d.inflight.kind = "tap"
    BY <1>d, <1>9 DEF Counted, FlightCounted
  <2>4. last # << >> => d.pending.id # d.inflight.id
    BY <1>4, <1>6, <1>7, <1>9
  <2>5. /\ Load'[d.inflight.id] = Load[d.inflight.id] + Len(d.due) + Len(again)
        /\ Load[d.inflight.id] \in Nat
    <3>1. /\ repeats(d.inflight.id) = Len(d.due) + Len(again)
          /\ follows(d.inflight.id) = 0
      BY <1>9, <2>4 DEF Repeated, Followed
    <3>2. /\ Load'[d.inflight.id]
               = Load[d.inflight.id] + (repeats(d.inflight.id) + follows(d.inflight.id))
          /\ Load[d.inflight.id] \in Nat
      BY <1>8, <2>2
    <3> HIDE DEF repeats, follows
    <3> QED
      BY <1>7, <3>1, <3>2
  <2>6. again # << >> => d.inflight.kind = "tap" /\ ~d.retransmitted
    BY <1>3 DEF TickBrief, Repeats
  <2>7. Load'[d.inflight.id] <= Limit(d.inflight.kind)
    <3>1. PICK before \in {1, 2} : before = IF d.retransmitted THEN 2 ELSE 1
      OBVIOUS
    <3>2. PICK limit \in {1, 2} : limit = Limit(d.inflight.kind)
      BY DEF Limit
    <3>l. limit = IF d.inflight.kind = "tap" THEN 2 ELSE 1
      BY <3>2 DEF Limit, Retransmits
    <3>a. Load[d.inflight.id] + Len(d.due) <= before
      BY <2>3, <3>1
    <3>b. before <= limit
      BY <2>3, <3>1, <3>l
    <3>c. Len(again) = 1 => limit = 2 /\ before = 1
      BY <1>7, <2>6, <3>1, <3>l
    <3>3. /\ Load[d.inflight.id] + Len(d.due) <= before
          /\ before <= limit
          /\ Len(again) = 1 => limit = 2 /\ before = 1
      BY <3>a, <3>b, <3>c
    <3>4. Load[d.inflight.id] + Len(d.due) + Len(again) <= limit
      BY <1>7, <2>5, <3>3, Budget
    <3> QED
      BY <2>5, <3>2, <3>4
  <2> QED
    BY <2>2, <2>3, <2>5, <2>7
<1>10. ASSUME last # << >>
       PROVE  /\ d.pending \in Fired /\ d.pending.id \in Ids
              /\ Load'[d.pending.id] = 1
              /\ \A i \in DOMAIN queue : queue[i].command.id # d.pending.id
  <2>1. /\ d.pending \in Fired /\ d.pending.id \in Ids
        /\ Load[d.pending.id] = 0
        /\ \A i \in DOMAIN queue : queue[i].command.id # d.pending.id
    BY <1>d, <1>6, <1>10, HeldLoadsNothing
  <2>2. ~(d.inflight # NoCommand /\ d.inflight.id = d.pending.id)
    BY <1>4, <1>6, <1>7, <1>10
  <2>3. Load'[d.pending.id] = 1
    <3>1. repeats(d.pending.id) = 0 /\ follows(d.pending.id) = 1
      BY <1>10, <2>2 DEF Repeated, Followed
    <3>2. Load'[d.pending.id]
            = Load[d.pending.id] + (repeats(d.pending.id) + follows(d.pending.id))
      BY <1>8, <2>1
    <3> HIDE DEF repeats, follows
    <3> QED
      BY <2>1, <3>1, <3>2
  <2> QED
    BY <2>1, <2>3
<1>11. \A a \in DOMAIN s :
         /\ Load'[s[a].id] <= Limit(s[a].kind)
         /\ \A i \in DOMAIN queue : queue[i].command.id = s[a].id => queue[i].command = s[a]
  <2> SUFFICES ASSUME NEW a \in DOMAIN s
               PROVE  /\ Load'[s[a].id] <= Limit(s[a].kind)
                      /\ \A i \in DOMAIN queue :
                           queue[i].command.id = s[a].id => queue[i].command = s[a]
    OBVIOUS
  <2>1. CASE s[a] = d.inflight /\ d.inflight # NoCommand
    <3>1. d.inflight \in InHand(k)
      BY <1>d, <2>1 DEF InHand
    <3> QED
      BY <1>9, <2>1, <3>1, BookSays
  <2>2. CASE s[a] = d.pending /\ last # << >>
    BY <1>10, <2>2 DEF Limit
  <2> QED
    BY <1>5, <2>1, <2>2
<1>12. /\ QueueCounted'
       /\ \A id \in Ids : /\ Load'[id] <= 2
                          /\ (\A a \in DOMAIN s : s[a].id # id) => Load'[id] = Load[id]
  BY <1>2, <1>11, JoinedCounted
<1>13. FlightCounted(k)'
  <2>1. e.due = << >> /\ Len(e.due) = 0
    BY <1>2 DEF Ticks
  <2>2. CASE e.inflight = NoCommand
    BY <1>e, <2>2 DEF FlightCounted
  <2>3. CASE /\ last = << >> /\ e.inflight = d.inflight /\ d.inflight # NoCommand
             /\ e.retransmitted = (d.retransmitted \/ again # << >>)
    <3>1. again # << >> => d.inflight.kind = "tap" /\ ~d.retransmitted
      BY <1>3 DEF TickBrief, Repeats
    <3>2. Load[d.inflight.id] \in Nat
      BY <1>8, <1>9, <2>3
    <3>3. Load'[d.inflight.id] <= (IF e.retransmitted THEN 2 ELSE 1)
      <4>0. /\ Load[d.inflight.id] + Len(d.due) <= (IF d.retransmitted THEN 2 ELSE 1)
            /\ Load'[d.inflight.id] = Load[d.inflight.id] + Len(d.due) + Len(again)
        BY <1>9, <2>3
      <4>1. PICK before \in {1, 2} : before = IF d.retransmitted THEN 2 ELSE 1
        OBVIOUS
      <4>2. PICK after \in {1, 2} : after = IF e.retransmitted THEN 2 ELSE 1
        OBVIOUS
      <4>r. /\ d.retransmitted => e.retransmitted
            /\ again # << >> => e.retransmitted
        BY <2>3
      <4>3. /\ Load[d.inflight.id] + Len(d.due) <= before
            /\ before <= 2 /\ before <= after
            /\ Len(again) = 1 => 2 = 2 /\ before = 1
            /\ Len(again) = 1 => after = 2
        <5>1. Load[d.inflight.id] + Len(d.due) <= before
          BY <4>0, <4>1
        <5>2. before <= 2 /\ before <= after
          BY <4>1, <4>2, <4>r
        <5>3. Len(again) = 1 => before = 1 /\ after = 2
          BY <1>7, <3>1, <4>1, <4>2, <4>r
        <5> QED
          BY <5>1, <5>2, <5>3
      <4>4. Load[d.inflight.id] + Len(d.due) + Len(again) <= after
        BY <1>7, <3>2, <4>3, Budget
      <4> QED
        BY <4>0, <4>2, <4>4
    <3>4. e.retransmitted => e.inflight.kind = "tap"
      BY <1>9, <2>3, <3>1
    <3>5. Load'[d.inflight.id] \in Nat
      BY <1>7, <1>9, <2>3, <3>2
    <3> QED
      BY <1>e, <2>1, <2>3, <3>3, <3>4, <3>5 DEF FlightCounted
  <2>4. CASE last = << d.pending >> /\ e.inflight = d.pending /\ ~e.retransmitted
    <3>1. Load'[d.pending.id] = 1
      BY <1>10, <2>4
    <3> QED
      BY <1>e, <2>1, <2>4, <3>1 DEF FlightCounted
  <2> QED
    BY <1>3, <2>2, <2>3, <2>4 DEF TickBrief
<1>14. ASSUME NEW j \in Keys \ {k}
       PROVE  FlightCounted(j)'
  <2>1. SameHands(driver[j], driver'[j])
    BY <1>2 DEF SameHands
  <2>2. ASSUME driver[j].inflight # NoCommand
        PROVE  /\ Load'[driver[j].inflight.id] \in Nat
               /\ Load'[driver[j].inflight.id] <= Load[driver[j].inflight.id]
    <3>1. PICK c \in Fired : c = driver[j].inflight /\ c.id \in Ids /\ c \in InHand(j)
      BY <2>2, BookSays, FiredIds DEF InHand
    <3>2. \A a \in DOMAIN s : s[a] \in InHand(k)
      BY <1>d, <1>5, <1>6 DEF InHand
    <3>3. \A a \in DOMAIN s : s[a].id # c.id
      BY <3>1, <3>2, BookSays
    <3>4. Load'[c.id] = Load[c.id] /\ Load[c.id] \in Nat
      BY <1>8, <1>12, <3>1, <3>3
    <3> QED
      BY <3>1, <3>4
  <2> QED
    BY <2>1, <2>2, FlightStays
<1> QED
  BY <1>2, <1>4, <1>12, <1>13, <1>14 DEF Counted

(* A dispatch moves one entry of the queue to the wire. *)
LEMMA DispatchCounted ==
  ASSUME IInv, Counted, Dispatch
  PROVE  Counted'
<1>h. PICK h : h = Head(queue)
  OBVIOUS
<1>m. PICK m : m = [key |-> h.key, seq |-> nextSeq, id |-> h.command.id]
  OBVIOUS
<1>1. /\ queue # << >> /\ queue' = Tail(queue) /\ h \in Entry
      /\ wire' = wire \cup {m}
      /\ \A k \in Keys : SameHands(driver[k], driver'[k])
  BY <1>h, <1>m, DispatchIs
<1>2. /\ queue \in Seq(Entry) /\ Len(queue) \in Nat /\ DOMAIN queue = 1 .. Len(queue)
      /\ \A i \in DOMAIN queue : queue[i] \in Entry
  BY DriversAre DEF Typed
<1>3. /\ queue' \in Seq(Entry) /\ DOMAIN queue' = 1 .. Len(queue) - 1
      /\ \A i \in DOMAIN queue' : i + 1 \in DOMAIN queue /\ queue'[i] = queue[i + 1]
  BY <1>1, <1>2
<1>4. << h >> \in Seq(Entry) /\ queue = << h >> \o queue'
  <2>1. << h >> \in Seq(Entry)
    BY <1>1
  <2>2. queue = << h >> \o queue'
    BY <1>1, <1>2, <1>h
  <2> QED
    BY <2>1, <2>2
<1>5. /\ IsFiniteSet(wire) /\ QueueCounted /\ \A id \in Ids : Load[id] <= 2
  BY DEF Counted
<1>6. IsFiniteSet(wire')
  BY <1>1, <1>5, FS_AddElement
<1>7. ASSUME NEW id \in Ids
      PROVE  Load'[id] \in Nat /\ Load'[id] <= Load[id]
  <2> DEFINE P == {x \in Entry : x.command.id = id}
             W == {n \in wire : n.id = id}
             V == {n \in wire' : n.id = id}
  <2>1. WaitingIn(queue, id) = Count(<< h >>, P) + WaitingIn(queue', id)
    <3>1. Count(<< h >> \o queue', P) = Count(<< h >>, P) + Count(queue', P)
      <4> HIDE DEF P
      <4> QED
        BY <1>3, <1>4, CountConcat
    <3> QED
      BY <1>4, <3>1 DEF WaitingIn
  <2>2. Count(<< h >>, P) = IF h.command.id = id THEN 1 ELSE 0
    <3>1. Count(<< h >>, P) = IF h \in P THEN 1 ELSE 0
      BY CountShort
    <3> QED
      BY <1>1, <3>1
  <2>3. IsFiniteSet(W) /\ Cardinality(W) \in Nat
    BY <1>5, FS_Subset, FS_CardinalityType
  <2>4. V = IF h.command.id = id THEN W \cup {m} ELSE W
    BY <1>1, <1>m
  <2>5. Cardinality(V) \in Nat /\ Cardinality(V) <= Cardinality(W) + Count(<< h >>, P)
    <3> HIDE DEF W, V, P
    <3>1. CASE h.command.id = id
      <4>1. Cardinality(W \cup {m}) = IF m \in W THEN Cardinality(W) ELSE Cardinality(W) + 1
        BY <2>3, FS_AddElement
      <4> QED
        BY <2>2, <2>3, <2>4, <3>1, <4>1
    <3>2. CASE h.command.id # id
      BY <2>2, <2>3, <2>4, <3>2
    <3> QED
      BY <3>1, <3>2
  <2>6. /\ Load[id] = CopiesIn(wire, id) + WaitingIn(queue, id)
        /\ CopiesIn(wire, id) = Cardinality(W)
    BY <1>5, LoadNow DEF CopiesIn
  <2>7. /\ Load'[id] = CopiesIn(wire', id) + WaitingIn(queue', id)
        /\ CopiesIn(wire', id) = Cardinality(V)
    BY <1>3, <1>6, LoadNext DEF CopiesIn
  <2>8. WaitingIn(queue', id) \in Nat
    <3>1. Count(queue', P) \in Nat
      BY <1>3, CountType
    <3> QED
      BY <3>1 DEF WaitingIn
  <2>9. Count(<< h >>, P) \in Nat
    BY <2>2
  <2> HIDE DEF P, W, V
  <2> QED
    BY <2>1, <2>3, <2>5, <2>6, <2>7, <2>8, <2>9
<1>8. \A id \in Ids : Load[id] \in Nat
  BY <1>5, LoadNow
<1>9. \A id \in Ids : Load'[id] <= 2
  BY <1>5, <1>7, <1>8
<1>10. ASSUME NEW k \in Keys
       PROVE  FlightCounted(k)'
  <2>1. driver[k].inflight # NoCommand => driver[k].inflight.id \in Ids
    <3>1. driver[k].inflight # NoCommand => driver[k].inflight \in Fired
      BY DriversAre DEF DriverOf
    <3> QED
      BY <3>1, FiredIds
  <2> QED
    BY <1>1, <1>7, <2>1, FlightStays
<1>11. ASSUME NEW i \in DOMAIN queue'
       PROVE  Load'[queue'[i].command.id] <= Limit(queue'[i].command.kind)
  <2>1. i + 1 \in DOMAIN queue /\ queue'[i] = queue[i + 1]
    BY <1>3
  <2>2. PICK c \in Fired : c = queue[i + 1].command
    BY <1>2, <2>1 DEF Entry
  <2>3. c.id \in Ids /\ Load[c.id] <= Limit(c.kind) /\ Limit(c.kind) \in Nat
    BY <1>5, <2>1, <2>2, FiredIds DEF QueueCounted, Limit
  <2>4. Load'[c.id] \in Nat /\ Load[c.id] \in Nat /\ Load'[c.id] <= Load[c.id]
    BY <1>7, <1>8, <2>3
  <2>5. Load'[c.id] <= Limit(c.kind)
    BY <2>3, <2>4
  <2> QED
    BY <2>1, <2>2, <2>5
<1> QED
  BY <1>6, <1>9, <1>10, <1>11 DEF Counted, QueueCounted

(* Nothing left and nothing waits, at the start and on a new datalink. *)
Unloaded ==
  wire = {} /\ queue = << >> /\ \A k \in Keys : driver[k].inflight = NoCommand

LEMMA NothingLoaded == Unloaded => Counted
<1> SUFFICES ASSUME wire = {}, queue = << >>,
                    \A k \in Keys : driver[k].inflight = NoCommand
             PROVE  Counted
  BY DEF Unloaded
<1>1. IsFiniteSet(wire)
  BY FS_EmptySet
<1>2. ASSUME NEW id \in Ids
      PROVE  Load[id] <= 2
  <2>1. {n \in wire : n.id = id} = {} /\ {i \in DOMAIN queue : queue[i].command.id = id} = {}
    OBVIOUS
  <2>2. Load[id] = 0 + 0
    BY <2>1, FS_EmptySet DEF Load, Copies
  <2> QED
    BY <2>2
<1>3. QueueCounted
  BY DEF QueueCounted
<1>4. \A k \in Keys : FlightCounted(k)
  BY DEF FlightCounted
<1> QED
  BY <1>1, <1>2, <1>3, <1>4 DEF Counted

LEMMA StepCounted ==
  IInv /\ Catalogued /\ Due /\ InOrder /\ Counted /\ [Next]_vars => Counted'
<1> SUFFICES ASSUME IInv, Catalogued, Due, InOrder, Counted, [Next]_vars
             PROVE  Counted'
  OBVIOUS
<1>1. CASE Reopen
  <2>1. Unloaded'
    BY <1>1, ReopenIs DEF Unloaded, FreshDriver
  <2> QED
    BY <2>1, NothingLoaded, PTL
<1>2. CASE Quiet
  <2>1. UNCHANGED <<queue, wire>> /\ \A k \in Keys : SameHands(driver[k], driver'[k])
    BY <1>2, QuietIs
  <2> QED
    BY <2>1, SameCounted DEF Counted
<1> QED
  BY <1>1, <1>2, FireCounted, ReceiveCounted, TickCounted, DispatchCounted, StepIsOneOf

LEMMA AlwaysCounted == Spec => []Counted
<1>1. Init => Counted
  BY NothingLoaded DEF Init, Unloaded, FreshDriver
<1> QED
  BY <1>1, AlwaysSound, AlwaysCatalogued, AlwaysDue, AlwaysInOrder, StepCounted, PTL DEF Spec

(***************************************************************************)
(* A photo is taken once, a slider step is sent once, and any other SET is *)
(* sent at most twice on one datalink: while a transmission of it waits in *)
(* the queue, the wire has room for it.                                    *)
(***************************************************************************)
THEOREM RetransmittedOnce == Spec => []OneRetransmit
<1>1. ASSUME IInv, Counted
      PROVE  OneRetransmit
  <2> SUFFICES ASSUME NEW i \in DOMAIN queue
               PROVE  Copies(queue[i].command.id)
                        < (IF Retransmits(queue[i].command.kind) THEN 2 ELSE 1)
    BY DEF OneRetransmit
  <2>1. queue[i] \in Entry
    BY <1>1, DriversAre DEF Typed
  <2>2. PICK c \in Fired : c = queue[i].command
    BY <2>1 DEF Entry
  <2>3. c.id \in Ids /\ IsFiniteSet(wire) /\ Load[c.id] <= Limit(c.kind)
    BY <1>1, <2>2, FiredIds DEF Counted, QueueCounted
  <2>4. /\ Load[c.id] = CopiesIn(wire, c.id) + WaitingIn(queue, c.id)
        /\ CopiesIn(wire, c.id) \in Nat /\ WaitingIn(queue, c.id) \in Nat
        /\ WaitingIn(queue, c.id) >= 1
    BY <1>1, <2>2, <2>3, LoadNow
  <2>5. CopiesIn(wire, c.id) < Limit(c.kind)
    BY <2>3, <2>4 DEF Limit
  <2> QED
    BY <2>2, <2>5 DEF Limit, Copies, CopiesIn
<1> QED
  BY <1>1, AlwaysSound, AlwaysCounted, PTL

=============================================================================
