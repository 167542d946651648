----------------------------- MODULE SetSession -----------------------------
(***************************************************************************)
(* Live-control SETs from the operator's hand to the camera and back: the  *)
(* worker loop of link.rs, the part of CameraSession::poll that moves SETs *)
(* and their replies, the Sequencer's queue and phase gate, one SetDriver  *)
(* per opcode, and a UDP link that loses, delays, reorders and repeats.    *)
(*                                                                         *)
(* One round of the worker: drain the commands the shell sent ("commands"),*)
(* poll: read the datagrams that arrived ("receive"), ask the sequencer    *)
(* what is due, one opcode after the other in no particular order ("tick"),*)
(* put it on the wire ("dispatch"), and let the watchdog act ("recover").  *)
(***************************************************************************)
EXTENDS SetDriver

CONSTANTS
  Keys,            \* the opcodes in play
  Pipelined,       \* those that do not wait for an answer: the zoom, 0x02/0xB8
  CoalesceHold,    \* 100 ms
  ZoomHold,        \* 50 ms, for the pipelined opcode
  MaxFires,        \* bound: how many SETs the operator fires
  MaxReopens,      \* bound: how often the watchdog replaces the datalink
  FireWhileOpening,\* may the operator act before the camera answers?
  PromptPolls      \* does the worker finish a round in every unit of time?

ASSUME SessionAssumption ==
  /\ Pipelined \subseteq Keys
  /\ CoalesceHold \in Nat
  /\ ZoomHold \in Nat
  /\ MaxFires \in Nat
  /\ MaxReopens \in Nat
  /\ FireWhileOpening \in BOOLEAN
  /\ PromptPolls \in BOOLEAN

VARIABLES
  at,        \* where the worker is in its loop
  todo,      \* opcodes the tick has not visited yet
  phase,     \* the sequencer's: only an open session sends SETs
  driver,    \* one SetDriver record per opcode
  queue,     \* the sequencer's queue of commands, oldest first
  nextSeq,   \* the DUML sequence number of the next frame
  wire,      \* datagrams that left on the current socket
  answers,   \* replies the camera gave on the current socket
  fired,     \* how many SETs the operator has fired
  reopens,   \* how often the datalink was replaced
  polled,    \* a round has ended since time last passed or a SET was fired
  newest,    \* history: the last SET fired per opcode on this datalink
  told,      \* history: the last verdict the shell was told per SET
  sent,      \* history: the SETs that were put on the wire
  heard,     \* history: the SETs the camera received
  crowded    \* history: the SETs that shared the queue with an older one

vars == <<at, todo, phase, driver, queue, nextSeq, wire, answers, fired,
          reopens, polled, newest, told, sent, heard, crowded>>

network == <<wire, answers, sent, heard>>

Ids == 1 .. MaxFires

Hold(k) == IF k \in Pipelined THEN ZoomHold ELSE CoalesceHold

(* Only ZoomFactor and ZoomLens are sliders, and they share the zoom opcode. *)
KindsOf(k) == IF k \in Pipelined THEN {"slider", "tap"} ELSE {"tap", "shutter"}

Queued == [key : Keys, command : Command]

Datagram == [key : Keys, seq : SeqNo, id : Nat \ {0}]

Answer == [key : Keys, seq : SeqNo]

Entries(k, commands) == [i \in DOMAIN commands |-> [key |-> k, command |-> commands[i]]]

(* Two launches of one opcode in the queue: the second is crowded. *)
Crowded(entries) ==
  {entries[i].command.id : i \in {j \in DOMAIN entries : \E h \in 1 .. j - 1 :
     /\ entries[h].key = entries[j].key
     /\ entries[h].command.id # entries[j].command.id}}

(* Commands join the queue. *)
Enqueue(entries) ==
  /\ queue' = queue \o entries
  /\ crowded' = crowded \cup Crowded(queue')

(* take_set_outcomes: the shell is told everything that settled, in order. *)
TakeOutcomes(drivers) ==
  /\ driver' = [k \in Keys |-> [drivers[k] EXCEPT !.outcomes = << >>]]
  /\ told' = [id \in Ids |->
                LET from == {k \in Keys : About(drivers[k], id) # {}}
                IN  IF from = {}
                    THEN told[id]
                    ELSE LastVerdict(drivers[CHOOSE k \in from : TRUE], id)]

Init ==
  /\ at = "commands"
  /\ todo = {}
  /\ phase = "Handshaking"
  /\ driver = [k \in Keys |-> FreshDriver]
  /\ queue = << >>
  /\ nextSeq = 0
  /\ wire = {}
  /\ answers = {}
  /\ fired = 0
  /\ reopens = 0
  /\ polled = TRUE
  /\ newest = [k \in Keys |-> 0]
  /\ told = [id \in Ids |-> "nothing"]
  /\ sent = {}
  /\ heard = {}
  /\ crowded = {}

-----------------------------------------------------------------------------
(***************************************************************************)
(* The operator: CameraSession::send, Sequencer::fire_set, SetDriver::fire.*)
(***************************************************************************)
Fire(k, kind) ==
  /\ at = "commands"
  /\ fired < MaxFires
  /\ phase = "Open" \/ FireWhileOpening
  /\ fired' = fired + 1
  /\ newest' = [newest EXCEPT ![k] = fired + 1]
  /\ polled' = FALSE
  /\ LET command == [id |-> fired + 1, kind |-> kind]
     IN  \/ /\ MustWait(driver[k].box, k \in Pipelined, IsUrgent(kind))
            /\ driver' = [driver EXCEPT ![k] = FireHeld(@, command)]
            /\ UNCHANGED <<queue, crowded>>
         \/ /\ ~MustWait(driver[k].box, k \in Pipelined, IsUrgent(kind))
            /\ driver' = [driver EXCEPT ![k] = FireLaunched(@, command, Hold(k))]
            /\ Enqueue(Entries(k, << command >>))
  /\ UNCHANGED <<at, todo, phase, nextSeq, network, reopens, told>>

(***************************************************************************)
(* The worker: one round of link.rs::run, most of it CameraSession::poll.  *)
(***************************************************************************)
StartPoll ==
  /\ at = "commands"
  /\ at' = "receive"
  /\ UNCHANGED <<todo, phase, driver, queue, nextSeq, network, fired, reopens,
                 polled, newest, told, crowded>>

(* The camera answers the handshake; no SET leaves before it has. *)
HandshakeReply ==
  /\ at = "receive"
  /\ phase = "Handshaking"
  /\ phase' = "Open"
  /\ UNCHANGED <<at, todo, driver, queue, nextSeq, network, fired, reopens,
                 polled, newest, told, crowded>>

(* A reply comes out of the socket, and its outcomes go to the shell at once. *)
Receive(answer) ==
  /\ at = "receive"
  /\ TakeOutcomes([driver EXCEPT ![answer.key] = Reply(@, answer.seq, Hold(answer.key))])
  /\ UNCHANGED <<at, todo, phase, queue, nextSeq, network, fired, reopens,
                 polled, newest, crowded>>

(***************************************************************************)
(* The socket is empty: the outcomes are taken, and the sequencer ticks.   *)
(* While it is handshaking it sends nothing but handshakes, and its SETs   *)
(* are not ticked either.                                                  *)
(***************************************************************************)
BeginTick ==
  /\ at = "receive"
  /\ TakeOutcomes(driver)
  /\ IF phase = "Open"
     THEN at' = "tick" /\ todo' = Keys /\ UNCHANGED polled
     ELSE at' = "commands" /\ UNCHANGED todo /\ polled' = TRUE
  /\ UNCHANGED <<phase, queue, nextSeq, network, fired, reopens, newest, crowded>>

(* SetDriver::tick comes to one opcode; what it returns joins the queue. *)
TickKey(k) ==
  /\ at = "tick"
  /\ k \in todo
  /\ todo' = todo \ {k}
  /\ driver' = [driver EXCEPT ![k] = Tick(@, k \in Pipelined, Hold(k))]
  /\ Enqueue(Entries(k, TickSends(driver[k], k \in Pipelined)))
  /\ at' = IF todo' = {} THEN "dispatch" ELSE "tick"
  /\ UNCHANGED <<phase, nextSeq, network, fired, reopens, polled, newest, told>>

(* Mutant: the queue is a stack. *)
DispatchNewest ==
  /\ at = "dispatch"
  /\ queue # << >>
  /\ LET k       == queue[Len(queue)].key
         command == queue[Len(queue)].command
     IN  /\ driver' = [driver EXCEPT ![k].box = NoteTransmit(@, nextSeq)]
         /\ wire' = wire \cup {[key |-> k, seq |-> nextSeq, id |-> command.id]}
         /\ sent' = sent \cup {command.id}
  /\ queue' = SubSeq(queue, 1, Len(queue) - 1)
  /\ nextSeq' = (nextSeq + 1) % SeqModulus
  /\ UNCHANGED <<at, todo, phase, answers, fired, reopens, polled, newest,
                 told, heard, crowded>>

(***************************************************************************)
(* CameraSession::dispatch: encode under the next sequence number, credit  *)
(* it to the opcode's open generation, and send.                           *)
(***************************************************************************)
Dispatch ==
  /\ at = "dispatch"
  /\ queue # << >>
  /\ LET k       == Head(queue).key
         command == Head(queue).command
     IN  /\ driver' = [driver EXCEPT ![k].box = NoteTransmit(@, nextSeq)]
         /\ wire' = wire \cup {[key |-> k, seq |-> nextSeq, id |-> command.id]}
         /\ sent' = sent \cup {command.id}
  /\ queue' = Tail(queue)
  /\ nextSeq' = (nextSeq + 1) % SeqModulus
  /\ UNCHANGED <<at, todo, phase, answers, fired, reopens, polled, newest,
                 told, heard, crowded>>

EndDispatch ==
  /\ at = "dispatch"
  /\ queue = << >>
  /\ at' = "recover"
  /\ UNCHANGED <<todo, phase, driver, queue, nextSeq, network, fired, reopens,
                 polled, newest, told, crowded>>

(* The watchdog leaves the datalink alone, and the round is over. *)
KeepDatalink ==
  /\ at = "recover"
  /\ at' = "commands"
  /\ polled' = TRUE
  /\ UNCHANGED <<todo, phase, driver, queue, nextSeq, network, fired, reopens,
                 newest, told, crowded>>

(***************************************************************************)
(* CameraSession::reopen_datalink: a new socket on a new port, a new       *)
(* sequencer with a new mailbox, and the frame sequence from 0 again.      *)
(***************************************************************************)
Reopen ==
  /\ at = "recover"
  /\ reopens < MaxReopens
  /\ reopens' = reopens + 1
  /\ phase' = "Handshaking"
  /\ driver' = [k \in Keys |-> FreshDriver]
  /\ queue' = << >>
  /\ nextSeq' = 0
  /\ wire' = {}
  /\ answers' = {}
  /\ newest' = [k \in Keys |-> 0]
  /\ at' = "commands"
  /\ polled' = TRUE
  /\ UNCHANGED <<todo, fired, told, sent, heard, crowded>>

(***************************************************************************)
(* The camera may hear any datagram, more than once, in any order, or      *)
(* never; each time it answers under the datagram's sequence number.       *)
(***************************************************************************)
CameraHears(datagram) ==
  /\ datagram \in wire
  /\ heard' = heard \cup {datagram.id}
  /\ answers' = answers \cup {[key |-> datagram.key, seq |-> datagram.seq]}
  /\ UNCHANGED <<at, todo, phase, driver, queue, nextSeq, wire, fired, reopens,
                 polled, newest, told, sent, crowded>>

(* Time passes between two rounds. *)
Elapse ==
  /\ at = "commands"
  /\ PromptPolls => polled
  /\ polled' = FALSE
  /\ driver' = [k \in Keys |-> Age(driver[k])]
  /\ UNCHANGED <<at, todo, phase, queue, nextSeq, network, fired, reopens,
                 newest, told, crowded>>

Next ==
  \/ \E k \in Keys : \E kind \in KindsOf(k) : Fire(k, kind)
  \/ StartPoll
  \/ HandshakeReply
  \/ \E answer \in answers : Receive(answer)
  \/ BeginTick
  \/ \E k \in Keys : TickKey(k)
  \/ Dispatch
  \/ EndDispatch
  \/ KeepDatalink
  \/ Reopen
  \/ \E datagram \in wire : CameraHears(datagram)
  \/ Elapse

Spec == Init /\ [][Next]_vars

-----------------------------------------------------------------------------
(***************************************************************************)
(* Properties.                                                             *)
(***************************************************************************)

(* Every variable has its type. *)
TypeOK ==
  /\ at \in {"commands", "receive", "tick", "dispatch", "recover"}
  /\ todo \subseteq Keys
  /\ phase \in {"Handshaking", "Open"}
  /\ driver \in [Keys -> Driver]
  /\ queue \in Seq(Queued)
  /\ nextSeq \in SeqNo
  /\ wire \subseteq Datagram
  /\ answers \subseteq Answer
  /\ fired \in 0 .. MaxFires
  /\ reopens \in 0 .. MaxReopens
  /\ polled \in BOOLEAN
  /\ newest \in [Keys -> 0 .. MaxFires]
  /\ told \in [Ids -> Verdicts \cup {"nothing"}]
  /\ sent \subseteq Ids
  /\ heard \subseteq sent
  /\ crowded \subseteq Ids

(***************************************************************************)
(* The Rust driver and the Swift mailbox agree about every opcode (InStep, *)
(* in SetDriver): no answer is ignored and no held SET is dropped because  *)
(* one of the two lost count.                                              *)
(***************************************************************************)
DriverInStep == \A k \in Keys : InStep(driver[k])

(***************************************************************************)
(* The newest SET of an opcode is never lost on the way: it is held, in    *)
(* flight, waiting for a late answer, or a verdict on it was given.        *)
(***************************************************************************)
Verdict(id) ==
  LET from == {k \in Keys : About(driver[k], id) # {}}
  IN  IF from = {} THEN told[id] ELSE LastVerdict(driver[CHOOSE k \in from : TRUE], id)

NewestIsKept ==
  \A k \in Keys :
    newest[k] # 0 => newest[k] \in Tracked(driver[k]) \/ Verdict(newest[k]) # "nothing"

(***************************************************************************)
(* An opcode that does not pipeline has one SET on the wire at a time: the *)
(* one in flight makes way only to its own answer, or when the camera was  *)
(* silent for the whole settle window, or with the datalink.  A fire, a    *)
(* reply and a tick all launch SETs, and none may launch over another.     *)
(***************************************************************************)
HoldsItsPlace ==
  [][\A k \in Keys \ Pipelined : \A id \in Ids :
       driver[k].inflight.id = id /\ driver'[k].inflight.id # id =>
         \/ driver[k].age >= SettleAfter
         \/ Verdict(id)' = "acked"
         \/ reopens' # reopens]_vars

(***************************************************************************)
(* A photo is taken once and a slider step is sent once; any other SET is  *)
(* sent at most twice (one retransmit), on one datalink.                   *)
(***************************************************************************)
Copies(id) == Cardinality({m \in wire : m.id = id})

OneRetransmit ==
  \A i \in DOMAIN queue :
    Copies(queue[i].command.id) < (IF Retransmits(queue[i].command.kind) THEN 2 ELSE 1)

(* What leaves for an opcode is never older than what already left for it. *)
WireInOrder ==
  [][\A m \in wire' \ wire : \A n \in wire : n.key = m.key => n.id <= m.id]_vars

(***************************************************************************)
(* A SET is reported as acknowledged only if the camera received it.  The  *)
(* code says so of every SET; it is true of those that left before a newer *)
(* one of their opcode was launched.  Two launches that wait in the queue  *)
(* together break it: dispatch credits both numbers to the newer one, and  *)
(* the answer to the older acknowledges it.                                *)
(***************************************************************************)
AckedWasHeard ==
  \A id \in Ids : told[id] \in {"acked", "ackedLate"} => id \in heard

AckedWasHeardUnlessCrowded ==
  \A id \in Ids \ crowded : told[id] \in {"acked", "ackedLate"} => id \in heard

(* A SET that left is in the driver's hands until a verdict on it is given. *)
SentIsFollowedUp ==
  \A id \in sent : Verdict(id) = "nothing" => \E k \in Keys : id \in Tracked(driver[k])

(***************************************************************************)
(* What leaves on a datalink is followed up as long as the datalink lasts: *)
(* of fires, answers, timeouts and launches over a SET in flight, none     *)
(* lets go of a SET that has left without a verdict on it.                 *)
(***************************************************************************)
LeftIsFollowedUp ==
  \A m \in wire : m.id \in Tracked(driver[m.key]) \/ Verdict(m.id) # "nothing"

(* The driver, its mailbox and the sequencer implement the promise. *)
Promise == INSTANCE LatestWins WITH
  held    <- [k \in Keys |-> driver[k].pending.id],
  open    <- [k \in Keys |-> driver[k].inflight.id],
  late    <- [k \in Keys |-> driver[k].late.id],
  verdict <- [id \in Ids |-> Verdict(id)]

KeepsPromise == Promise!Spec

(***************************************************************************)
(* Liveness, when the worker keeps polling and time keeps passing, and the *)
(* camera answers the handshake of a worker that keeps asking: no SET      *)
(* stays held or in flight for ever, whatever the camera does with it.     *)
(***************************************************************************)
Worker ==
  StartPoll \/ BeginTick \/ (\E k \in Keys : TickKey(k)) \/ Dispatch
  \/ EndDispatch \/ KeepDatalink

Fairness ==
  /\ WF_vars(Worker)
  /\ SF_vars(HandshakeReply)
  /\ SF_vars(Elapse)

FairSpec == Spec /\ Fairness

NothingWaitsForEver ==
  \A id \in Ids :
    (\E k \in Keys : id \in {driver[k].pending.id, driver[k].inflight.id})
      ~> ~(\E k \in Keys : id \in {driver[k].pending.id, driver[k].inflight.id})
=============================================================================
