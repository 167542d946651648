-------------------------- MODULE ConnectFlowProofs --------------------------
(***************************************************************************)
(* Proofs about ConnectFlow for every value of its constants: any cameras  *)
(* of any body, any number of presses, notifications and events in flight, *)
(* and any number of attempts and readbacks.                               *)
(***************************************************************************)
EXTENDS ConnectFlow, FiniteSetTheorems, SequenceTheorems, TLAPS

LEMMA Constants ==
  /\ Attempts \in Nat /\ 1 <= Attempts
  /\ VerifyReads \in Nat /\ 1 <= VerifyReads
  /\ MaxClicks \in Nat /\ MaxAir \in Nat /\ MaxEvents \in Nat
  /\ NoCamera \notin Cameras
BY ProvisioningAssumption, ConnectAssumption

-----------------------------------------------------------------------------
(***************************************************************************)
(* The provisioning machine.                                               *)
(***************************************************************************)
LEMMA NewMachineType ==
  ASSUME NEW camera
  PROVE  /\ NewMachine(BodyOf(camera)) \in Machine
         /\ NewMachine(BodyOf(camera)).state = "working"
         /\ NewMachine("plain") \in Machine
         /\ NewMachine("plain").state = "working"
BY Constants DEF NewMachine, BodyOf, Machine, Bodies, Steps

LEMMA ScheduleType ==
  ASSUME NEW m \in Machine, NEW step \in Steps
  PROVE  /\ Schedule(m, step) \in Machine
         /\ Schedule(m, step).state = m.state
         /\ Schedule(m, step).attempt = m.attempt
         /\ Schedule(m, step).reads = m.reads
         /\ Schedule(m, step).confirmed = m.confirmed
BY DEF Schedule, Machine

LEMMA SettleThenJoinType ==
  ASSUME NEW m \in Machine
  PROVE  SettleThenJoin(m) \in Machine /\ SettleThenJoin(m).state = m.state
<1>1. Schedule(m, "join") \in Machine /\ Schedule(m, "join").state = m.state
  BY ScheduleType DEF Steps
<1>2. 1 \in 0 .. Attempts
  BY Constants
<1> QED
  BY <1>1, <1>2 DEF SettleThenJoin, Machine

LEMMA FailType ==
  ASSUME NEW m \in Machine
  PROVE  Fail(m) \in Machine /\ Fail(m).state = "failed"
BY DEF Fail, Machine

(* An answer leads to a legal machine, and to an unconfirmed end only after  *)
(* the last attempt.                                                         *)
Follows(m, n) ==
  /\ n \in Machine
  /\ m.state = "working" /\ n.state = "done" /\ ~n.confirmed => m.attempt = Attempts

LEMMA RoleFollows ==
  ASSUME NEW m \in Machine, NEW answer
  PROVE  Follows(m, ReceiveRole(m, answer))
<1> DEFINE s == Schedule(m, "set")
<1>1. s \in Machine /\ s.state = m.state
  BY ScheduleType DEF Steps
<1>2. [s EXCEPT !.missing = TRUE] \in Machine /\ [s EXCEPT !.missing = TRUE].state = m.state
  <2> HIDE DEF s
  <2> QED
    BY <1>1 DEF Machine
<1> QED
  BY <1>1, <1>2, SettleThenJoinType, FailType DEF ReceiveRole, Follows

LEMMA SetFollows ==
  ASSUME NEW m \in Machine, NEW answer
  PROVE  Follows(m, ReceiveSet(m, answer))
<1>1. 0 \in 0 .. VerifyReads - 1
  BY Constants
<1>2. [Schedule(m, "readback") EXCEPT !.reads = 0] \in Machine
  BY <1>1, ScheduleType DEF Steps, Machine
<1>3. [Schedule(m, "readback") EXCEPT !.reads = 0].state = m.state
  BY ScheduleType DEF Steps, Machine
<1> QED
  BY <1>2, <1>3, SettleThenJoinType, FailType DEF ReceiveSet, Follows

LEMMA ReadbackFollows ==
  ASSUME NEW m \in Machine, NEW answer
  PROVE  Follows(m, ReceiveReadback(m, answer))
<1> DEFINE s == Schedule(m, "readback")
           n == [s EXCEPT !.reads = s.reads + 1]
<1>1. s \in Machine /\ s.state = m.state /\ s.reads = m.reads
  BY ScheduleType DEF Steps
<1>2. ASSUME m.reads + 1 < VerifyReads
      PROVE  Follows(m, n)
  <2>1. s.reads + 1 \in 0 .. VerifyReads - 1
    BY <1>1, <1>2, Constants DEF Machine
  <2> HIDE DEF s
  <2> QED
    BY <1>1, <2>1 DEF Follows, Machine
<1> QED
  BY <1>2, SettleThenJoinType, FailType DEF ReceiveReadback, Follows

LEMMA JoinFollows ==
  ASSUME NEW m \in Machine, NEW answer
  PROVE  Follows(m, ReceiveJoin(m, answer))
<1> DEFINE s == Schedule(m, "join")
           n == [s EXCEPT !.attempt = s.attempt + 1]
<1>0. m.attempt \in 0 .. Attempts
  BY DEF Machine
<1>1. s \in Machine /\ s.state = m.state /\ s.attempt = m.attempt
  BY ScheduleType DEF Steps
<1>2. ASSUME m.attempt < Attempts
      PROVE  Follows(m, n)
  <2>1. s.attempt + 1 \in 0 .. Attempts
    BY <1>0, <1>1, <1>2, Constants
  <2> HIDE DEF s
  <2> QED
    BY <1>1, <2>1 DEF Follows, Machine
<1>3. Follows(m, [m EXCEPT !.state = "done", !.confirmed = TRUE])
  BY DEF Follows, Machine
<1>4. m.attempt >= Attempts => Follows(m, [m EXCEPT !.state = "done"])
  BY <1>0, Constants DEF Follows, Machine
<1>5. Follows(m, Fail(m))
  BY FailType DEF Follows
<1> QED
  BY <1>2, <1>3, <1>4, <1>5 DEF ReceiveJoin

LEMMA ReceiveFollows ==
  ASSUME NEW m \in Machine, NEW answer
  PROVE  Follows(m, Receive(m, answer))
<1>1. \A step \in Steps : Follows(m, Schedule(m, step))
  BY ScheduleType DEF Follows
<1>2. Follows(m, Fail(m))
  BY FailType DEF Follows
<1> QED
  BY <1>1, <1>2, RoleFollows, SetFollows, ReadbackFollows, JoinFollows
     DEF Receive, Steps

-----------------------------------------------------------------------------
(***************************************************************************)
(* What a poll hears.                                                      *)
(***************************************************************************)

(* In a finite set of numbers some number has exactly j up to it, for every *)
(* j up to the size of the set.                                             *)
LEMMA RankExists ==
  ASSUME NEW H \in SUBSET Nat, IsFiniteSet(H), NEW j \in 1 .. Cardinality(H)
  PROVE  \E i \in H : Cardinality({h \in H : h <= i}) = j
<1> DEFINE upTo(i) == {h \in H : h <= i}
           rank    == [i \in H |-> Cardinality(upTo(i))]
           n       == Cardinality(H)
<1>1. \A i \in H : IsFiniteSet(upTo(i)) /\ Cardinality(upTo(i)) <= n /\ i \in upTo(i)
  <2> TAKE i \in H
  <2>1. upTo(i) \in SUBSET H
    OBVIOUS
  <2> QED
    BY <2>1, FS_Subset
<1>2. n \in Nat /\ \A i \in H : Cardinality(upTo(i)) \in 1 .. n
  <2>1. n \in Nat
    BY FS_CardinalityType
  <2>2. ASSUME NEW i \in H
        PROVE  Cardinality(upTo(i)) \in 1 .. n
    <3> DEFINE U == upTo(i)
    <3>1. IsFiniteSet(U) /\ Cardinality(U) <= n /\ U # {}
      BY <1>1
    <3> HIDE DEF U
    <3>2. Cardinality(U) \in Nat /\ Cardinality(U) # 0
      BY <3>1, FS_CardinalityType, FS_EmptySet
    <3> QED
      BY <2>1, <3>1, <3>2 DEF U
  <2> QED
    BY <2>1, <2>2
<1>3. ASSUME NEW i \in H, NEW k \in H, i < k
      PROVE  Cardinality(upTo(i)) # Cardinality(upTo(k))
  <2>0. H \subseteq Int /\ i \in Int /\ k \in Int
    OBVIOUS
  <2>1. k <= k /\ ~(k <= i) /\ \A h \in H : h <= i => h <= k
    BY <1>3, <2>0
  <2>2. upTo(i) \in SUBSET upTo(k) /\ k \in upTo(k) /\ k \notin upTo(i)
    BY <2>1
  <2>3. IsFiniteSet(upTo(k))
    BY <1>1
  <2> HIDE DEF upTo
  <2> QED
    BY <2>2, <2>3, FS_Subset
<1>4. rank \in Injection(H, 1 .. n)
  <2>1. rank \in [H -> 1 .. n]
    BY <1>2
  <2>2. ASSUME NEW i \in H, NEW k \in H, rank[i] = rank[k]
        PROVE  i = k
    <3>1. ~(i < k) /\ ~(k < i)
      BY <1>3, <2>2
    <3> QED
      BY <3>1
  <2> QED
    BY <2>1, <2>2, Zenon DEF Injection, IsInjective
<1>5. IsFiniteSet(1 .. n) /\ Cardinality(1 .. n) = n
  BY <1>2, FS_Interval
<1>6. rank \in Surjection(H, 1 .. n)
  BY <1>4, <1>5, FS_Injection
<1> QED
  BY <1>6 DEF Surjection

LEMMA HeardType ==
  ASSUME NEW kinds, link.air \in Seq(Frame)
  PROVE  /\ Heard(kinds) \in Seq(Frame)
         /\ \A j \in 1 .. Len(Heard(kinds)) :
              \E i \in DOMAIN link.air :
                 Heard(kinds)[j] = link.air[i] /\ link.air[i].kind \in kinds
<1> DEFINE H       == HeardAt(kinds)
           n       == Cardinality(H)
           place(j) == CHOOSE i \in H : Cardinality({h \in H : h <= i}) = j
<1>1. H \in SUBSET Nat /\ IsFiniteSet(H) /\ H \in SUBSET DOMAIN link.air
  <2>1. /\ DOMAIN link.air = 1 .. Len(link.air)
        /\ Len(link.air) \in Nat
    OBVIOUS
  <2>2. H \in SUBSET (1 .. Len(link.air))
    BY <2>1 DEF HeardAt
  <2>3. IsFiniteSet(1 .. Len(link.air))
    BY <2>1, FS_Interval
  <2> QED
    BY <2>1, <2>2, <2>3, FS_Subset
<1>2. n \in Nat
  BY <1>1, FS_CardinalityType
<1>3. \A i \in H : link.air[i].kind \in kinds
  BY DEF HeardAt
<1>4. Heard(kinds) = [j \in 1 .. n |-> link.air[place(j)]]
  BY DEF Heard
<1> HIDE DEF H
<1>5. \A j \in 1 .. n : place(j) \in H
  BY <1>1, RankExists
<1> HIDE DEF n, place
<1>6. Heard(kinds) \in [1 .. n -> Frame]
  <2>1. \A i \in DOMAIN link.air : link.air[i] \in Frame
    OBVIOUS
  <2> QED
    BY <1>1, <1>4, <1>5, <2>1
<1>7. Heard(kinds) \in Seq(Frame) /\ Len(Heard(kinds)) = n
  BY <1>2, <1>6
<1> QED
  BY <1>1, <1>3, <1>4, <1>5, <1>7

-----------------------------------------------------------------------------
(***************************************************************************)
(* The invariant.  The notification buffer is never cleared by a           *)
(* connection, so what keeps two cameras apart is an order: the worker     *)
(* holds exactly its target's stream from the connection on (Linked), and  *)
(* the first poll of the first wait, in "pin" or "session", throws away    *)
(* whatever was left before any later phase reads.  The worker has a       *)
(* target at all because every command that names a camera names one that  *)
(* the operator picked (Named).                                            *)
(***************************************************************************)
Resting == {"idle", "scan", "connect", "stopped"}

Unsorted == {"idle", "scan", "connect", "stopped", "pin", "session"}

NothingPaired ==
  /\ \A i \in DOMAIN cmds : cmds[i].do \in {"scan", "cancel"}
  /\ worker.at \in {"idle", "scan", "stopped"}
  /\ \A i \in DOMAIN events : events[i].kind # "credentials"
  /\ screen \notin {"wifiReady", "homeWifi"}

Named ==
  /\ picked = NoCamera => NothingPaired
  /\ \A i \in DOMAIN cmds :
       cmds[i].do \in {"pair", "station", "reset"} => cmds[i].camera \in Cameras
  /\ worker.at \notin {"idle", "scan", "stopped"} => worker.target \in Cameras

Linked ==
  /\ worker.at \notin Resting =>
       /\ link.peripheral = worker.target /\ link.streams = {worker.target}
       /\ link.up \subseteq half \cup {worker.target}
  /\ worker.at \notin Unsorted =>
       \A i \in DOMAIN link.air : link.air[i].from = worker.target
  /\ worker.at = "password" => worker.ssid = worker.target

IInv == TypeOK /\ Named /\ Linked /\ ReadsItsOwnCamera /\ OnlyHalfConnectsLeak

-----------------------------------------------------------------------------
(***************************************************************************)
(* The channels.                                                           *)
(***************************************************************************)
LEMMA Joined ==
  ASSUME NEW S, NEW s \in Seq(S), NEW u \in Seq(S)
  PROVE  /\ s \o u \in Seq(S)
         /\ \A i \in DOMAIN (s \o u) :
              \/ \E j \in DOMAIN s : (s \o u)[i] = s[j]
              \/ \E j \in DOMAIN u : (s \o u)[i] = u[j]
<1>1. /\ s \o u \in Seq(S) /\ Len(s \o u) = Len(s) + Len(u)
      /\ Len(s) \in Nat /\ Len(u) \in Nat
      /\ \A i \in 1 .. Len(s) + Len(u) :
           (s \o u)[i] = IF i <= Len(s) THEN s[i] ELSE u[i - Len(s)]
  BY ConcatProperties
<1>2. ASSUME NEW i \in 1 .. Len(s) + Len(u)
      PROVE  \/ \E j \in 1 .. Len(s) : (s \o u)[i] = s[j]
             \/ \E j \in 1 .. Len(u) : (s \o u)[i] = u[j]
  <2>1. CASE i <= Len(s)
    BY <1>1, <2>1
  <2>2. CASE ~(i <= Len(s))
    <3>1. i - Len(s) \in 1 .. Len(u)
      BY <1>1, <2>2
    <3> QED
      BY <1>1, <2>2, <3>1
  <2> QED
    BY <2>1, <2>2
<1>3. /\ DOMAIN (s \o u) = 1 .. Len(s) + Len(u)
      /\ DOMAIN s = 1 .. Len(s) /\ DOMAIN u = 1 .. Len(u)
  BY <1>1
<1> QED
  BY <1>1, <1>2, <1>3

LEMMA Shortened ==
  ASSUME NEW S, NEW s \in Seq(S), s # << >>
  PROVE  /\ Tail(s) \in Seq(S) /\ Head(s) \in S
         /\ 1 \in DOMAIN s /\ Head(s) = s[1]
         /\ \A i \in DOMAIN Tail(s) : \E j \in DOMAIN s : Tail(s)[i] = s[j]
<1>1. /\ Tail(s) \in Seq(S) /\ Len(Tail(s)) = Len(s) - 1 /\ Len(s) \in Nat
      /\ Head(s) \in S /\ Len(s) >= 1
      /\ \A i \in 1 .. Len(Tail(s)) : Tail(s)[i] = s[i + 1]
  BY HeadTailProperties
<1>2. DOMAIN Tail(s) = 1 .. Len(s) - 1 /\ DOMAIN s = 1 .. Len(s)
  BY <1>1
<1>3. \A i \in 1 .. Len(s) - 1 : i + 1 \in 1 .. Len(s)
  BY <1>1
<1> QED
  BY <1>1, <1>2, <1>3

(***************************************************************************)
(* A press: the worker, its link and its events stay as they are.          *)
(***************************************************************************)
LEMMA PressKeeps ==
  ASSUME IInv, Press, NEW list \in Seq(Command), Send(list),
         screen' \in Screens, outcome' \in Outcomes, shown' = shown,
         pending' \in Station,
         picked' \in Cameras \/ picked' = picked,
         picked' = NoCamera =>
           /\ screen' \notin {"wifiReady", "homeWifi"}
           /\ \A i \in DOMAIN list : list[i].do \in {"scan", "cancel"},
         \A i \in DOMAIN list :
           list[i].do \in {"pair", "station", "reset"} => list[i].camera \in Cameras
  PROVE  IInv'
<1>1. /\ TypeOK /\ Named /\ Linked /\ ReadsItsOwnCamera /\ OnlyHalfConnectsLeak
      /\ UNCHANGED <<events, worker, link, half, search, saved, shown>>
  BY DEF IInv, Press
<1>2. clicks' \in 0 .. MaxClicks
  BY <1>1, Constants DEF Press, TypeOK
<1>3. /\ cmds' \in Seq(Command)
      /\ \A i \in DOMAIN cmds' :
           \/ \E j \in DOMAIN cmds : cmds'[i] = cmds[j]
           \/ \E j \in DOMAIN list : cmds'[i] = list[j]
  <2>1. CASE worker.at = "stopped"
    BY <1>1, <2>1 DEF Send, TypeOK
  <2>2. CASE worker.at # "stopped"
    <3>1. cmds' = cmds \o list /\ cmds \in Seq(Command)
      BY <1>1, <2>2 DEF Send, TypeOK
    <3> QED
      BY <3>1, Joined
  <2> QED
    BY <2>1, <2>2
<1>4. TypeOK'
  <2>1. picked' \in Some
    BY <1>1 DEF TypeOK, Some
  <2> QED
    BY <1>1, <1>2, <1>3, <2>1 DEF TypeOK
<1>5. Named'
  <2>1. picked' = NoCamera => picked = NoCamera
    BY Constants
  <2> QED
    BY <1>1, <1>3, <2>1 DEF Named, NothingPaired
<1>6. Linked' /\ ReadsItsOwnCamera' /\ OnlyHalfConnectsLeak'
  BY <1>1 DEF Linked, ReadsItsOwnCamera, OnlyHalfConnectsLeak
<1> QED
  BY <1>4, <1>5, <1>6 DEF IInv

(***************************************************************************)
(* A step of the worker: what it takes from one channel and puts into the  *)
(* other, and where it is afterwards.                                      *)
(***************************************************************************)
Taken == cmds' = cmds \/ (cmds # << >> /\ cmds' = Tail(cmds))

LEMMA WorkKeeps ==
  ASSUME IInv, UNCHANGED <<screen, picked, shown, pending, search, outcome, clicks>>,
         saved' \in Station, half' \in SUBSET Cameras, Taken,
         NEW list \in Seq(Event), events' = events \o list,
         \A i \in DOMAIN list : list[i].kind = "credentials" =>
           list[i].ssid = list[i].password /\ picked # NoCamera,
         worker' \in Worker,
         link' \in [peripheral : Some, streams : SUBSET Cameras, up : SUBSET Cameras,
                 air : Seq(Frame)],
         worker'.at \notin {"idle", "scan", "stopped"} =>
           worker'.target \in Cameras /\ picked # NoCamera,
         worker'.ssid \in {NoCamera, worker'.target},
         Linked', OnlyHalfConnectsLeak'
  PROVE  IInv'
<1>1. TypeOK /\ Named /\ ReadsItsOwnCamera
  BY DEF IInv
<1>2. /\ cmds' \in Seq(Command)
      /\ \A i \in DOMAIN cmds' : \E j \in DOMAIN cmds : cmds'[i] = cmds[j]
  <2>1. cmds \in Seq(Command)
    BY <1>1 DEF TypeOK
  <2>2. CASE cmds' = cmds
    BY <2>1, <2>2
  <2>3. CASE cmds # << >> /\ cmds' = Tail(cmds)
    <3>0. \A s \in Seq(Command) : s # << >> =>
            /\ Tail(s) \in Seq(Command)
            /\ \A i \in DOMAIN Tail(s) : \E j \in DOMAIN s : Tail(s)[i] = s[j]
      <4> TAKE s \in Seq(Command)
      <4> HAVE s # << >>
      <4> QED
        BY Shortened
    <3>1. /\ Tail(cmds) \in Seq(Command)
          /\ \A i \in DOMAIN Tail(cmds) : \E j \in DOMAIN cmds : Tail(cmds)[i] = cmds[j]
      BY <2>1, <2>3, <3>0, Zenon
    <3> QED
      BY <2>3, <3>1, Zenon
  <2> QED
    BY <2>2, <2>3 DEF Taken
<1>3. /\ events' \in Seq(Event)
      /\ \A i \in DOMAIN events' :
           \/ \E j \in DOMAIN events : events'[i] = events[j]
           \/ \E j \in DOMAIN list : events'[i] = list[j]
  <2>1. events \in Seq(Event)
    BY <1>1 DEF TypeOK
  <2> QED
    BY <2>1, Joined
<1>4. TypeOK'
  BY <1>1, <1>2, <1>3 DEF TypeOK
<1>5. Named'
  <2>1. ASSUME picked = NoCamera
        PROVE  NothingPaired'
    BY <1>1, <1>2, <1>3, <2>1 DEF Named, NothingPaired
  <2> QED
    BY <1>1, <1>2, <2>1 DEF Named
<1>6. ReadsItsOwnCamera'
  <2>1. DOMAIN events = 1 .. Len(events) /\ DOMAIN events' = 1 .. Len(events')
    BY <1>1, <1>3 DEF TypeOK
  <2> QED
    BY <1>1, <1>3, <2>1 DEF ReadsItsOwnCamera
<1> QED
  BY <1>4, <1>5, <1>6 DEF IInv

LEMMA Quiet ==
  ASSUME TypeOK, UNCHANGED events
  PROVE  << >> \in Seq(Event) /\ events' = events \o << >>
BY DEF TypeOK

(* Inside an operation: the worker stays with its target, and a phase that   *)
(* trusts the buffer is entered with an empty one.                           *)
LEMMA StepKeeps ==
  ASSUME IInv, UNCHANGED <<screen, picked, shown, pending, search, outcome, clicks, saved, half>>,
         Taken, NEW list \in Seq(Event), events' = events \o list,
         \A i \in DOMAIN list : list[i].kind # "credentials",
         worker.at \notin Resting, worker' \in Worker, worker'.at \notin Resting,
         worker'.target = worker.target, worker'.ssid \in {NoCamera, worker.target},
         worker'.at = "password" => worker'.ssid = worker.target,
         link' = link \/ EmptyAir,
         worker'.at \notin Unsorted => worker.at \notin Unsorted \/ EmptyAir
  PROVE  IInv'
<1>1. TypeOK /\ Named /\ Linked /\ OnlyHalfConnectsLeak
  BY DEF IInv
<1>2. worker.target \in Cameras /\ picked # NoCamera
  BY <1>1 DEF Named, NothingPaired, Resting
<1>3. /\ link' \in [peripheral : Some, streams : SUBSET Cameras, up : SUBSET Cameras,
                 air : Seq(Frame)]
      /\ link'.peripheral = link.peripheral /\ link'.streams = link.streams
      /\ link'.up = link.up
      /\ link'.air = link.air \/ link'.air = << >>
      /\ EmptyAir => link'.air = << >>
  <2> DEFINE Link == [peripheral : Some, streams : SUBSET Cameras, up : SUBSET Cameras,
                 air : Seq(Frame)]
  <2>1. link \in Link /\ << >> \in Seq(Frame)
    BY <1>1 DEF TypeOK
  <2>2. [link EXCEPT !.air = << >>] \in Link
    BY <2>1
  <2>3. EmptyAir => /\ link' \in Link /\ link'.air = << >>
                    /\ link'.peripheral = link.peripheral /\ link'.streams = link.streams
                    /\ link'.up = link.up
    BY <2>1, <2>2 DEF EmptyAir
  <2>4. link' = link => link' \in Link
    BY <2>1
  <2> QED
    BY <2>3, <2>4
<1>4. Linked'
  BY <1>1, <1>3 DEF Linked
<1>5. OnlyHalfConnectsLeak'
  BY DEF OnlyHalfConnectsLeak, Resting
<1> QED
  BY <1>1, <1>2, <1>3, <1>4, <1>5, WorkKeeps DEF TypeOK

(* Every exit of an operation disconnects.                                   *)
LEMMA EndKeeps ==
  ASSUME IInv, UNCHANGED <<screen, picked, shown, pending, search, outcome, clicks>>,
         saved' \in Station, UNCHANGED half, Taken,
         NEW list \in Seq(Event), NEW air \in Seq(Frame), End(list, air),
         \A i \in DOMAIN list : list[i].kind = "credentials" =>
           list[i].ssid = list[i].password,
         worker.at \notin Resting
  PROVE  IInv'
<1>1. TypeOK /\ Named /\ Linked
  BY DEF IInv
<1>2. picked # NoCamera
  BY <1>1 DEF Named, NothingPaired, Resting
<1>3. worker' = Idle /\ Idle \in Worker /\ Idle.at = "idle" /\ Idle.ssid = NoCamera
  BY NewMachineType DEF End, Idle, Worker, Places, Some
<1>4. /\ link' = [peripheral |-> NoCamera, streams |-> {}, up |-> link.up \ {worker.target},
                  air |-> air]
      /\ link' \in [peripheral : Some, streams : SUBSET Cameras, up : SUBSET Cameras,
                 air : Seq(Frame)]
  <2>1. link.streams \ {link.peripheral} = {} /\ link.peripheral = worker.target
    BY <1>1 DEF Linked
  <2>2. link.up \subseteq Cameras
    BY <1>1 DEF TypeOK
  <2> QED
    BY <2>1, <2>2 DEF End, Close, Some
<1>5. Linked' /\ OnlyHalfConnectsLeak'
  BY <1>1, <1>3, <1>4 DEF Linked, OnlyHalfConnectsLeak, Resting, Unsorted
<1>6. events' = events \o list
  BY DEF End, Report
<1>7. half' \in SUBSET Cameras
  BY <1>1 DEF TypeOK
<1> QED
  BY <1>2, <1>3, <1>4, <1>5, <1>6, <1>7, WorkKeeps

-----------------------------------------------------------------------------
(***************************************************************************)
(* The invariant holds at the start and after every step.                  *)
(***************************************************************************)
LEMMA InitHolds == Init => IInv
<1> SUFFICES ASSUME Init
             PROVE  IInv
  OBVIOUS
<1>1. Idle \in Worker /\ [Idle EXCEPT !.at = "stopped"] \in Worker
  BY NewMachineType DEF Idle, Worker, Places, Some
<1>2. /\ Idle.at = "idle" /\ Idle.ssid = NoCamera
      /\ [Idle EXCEPT !.at = "stopped"].at = "stopped"
      /\ [Idle EXCEPT !.at = "stopped"].ssid = NoCamera
  BY DEF Idle
<1>3. /\ Do("cancel") \in Command /\ Do("cancel").do = "cancel"
      /\ Do("scan") \in Command /\ Do("scan").do = "scan"
      /\ Ev("error") \in Event /\ Ev("error").kind = "error"
  BY DEF Do, Ev, Command, Event, Some
<1>4. /\ worker \in Worker /\ worker.at \in {"idle", "stopped"} /\ worker.ssid = NoCamera
  BY <1>1, <1>2 DEF Init
<1>5. /\ cmds \in Seq(Command) /\ \A i \in DOMAIN cmds : cmds[i].do \in {"scan", "cancel"}
      /\ events \in Seq(Event) /\ \A i \in DOMAIN events : events[i].kind = "error"
      /\ screen \in {"phones", "scanning"}
  <2> HIDE DEF Do, Ev, Command, Event
  <2> QED
    BY <1>3 DEF Init
<1>6. TypeOK
  BY <1>4, <1>5, Constants
     DEF Init, TypeOK, Some, Screens, Outcomes, Credentials, NoCredentials, Station, Nothing
<1>7. Named
  BY <1>4, <1>5 DEF Named, NothingPaired
<1>8. Linked /\ ReadsItsOwnCamera /\ OnlyHalfConnectsLeak
  <2>1. DOMAIN events = 1 .. Len(events)
    BY <1>5
  <2> QED
    BY <1>4, <1>5, <2>1
       DEF Linked, ReadsItsOwnCamera, OnlyHalfConnectsLeak, Resting, Unsorted, Init, NoCredentials
<1> QED
  BY <1>6, <1>7, <1>8 DEF IInv

LEMMA OperatorKeeps ==
  ASSUME IInv, Operator
  PROVE  IInv'
<1>1. TypeOK /\ Named
  BY DEF IInv
<1>2. /\ <<Do("scan")>> \in Seq(Command) /\ <<Do("cancel")>> \in Seq(Command)
      /\ <<Do("cancel"), Do("scan")>> \in Seq(Command) /\ << >> \in Seq(Command)
      /\ Do("scan").do = "scan" /\ Do("cancel").do = "cancel"
  BY DEF Do, Command, Some
<1>3. \A c \in Some :
        /\ <<[do |-> "pair", camera |-> c]>> \in Seq(Command)
        /\ <<[do |-> "station", camera |-> c]>> \in Seq(Command)
        /\ <<[do |-> "reset", camera |-> c]>> \in Seq(Command)
  BY DEF Command
<1>4. /\ \A next \in {"scanning", "phones", "homeWifi", "pairing"} : next \in Screens
      /\ \A result \in {"connected", "skip", "phone"} : result \in Outcomes
      /\ screen \in Screens /\ outcome \in Outcomes /\ pending \in Station
  BY <1>1 DEF Screens, Outcomes, TypeOK
<1>5. /\ picked \in Some
      /\ screen \in {"wifiReady", "homeWifi"} => picked \in Cameras
      /\ NoCamera \notin Cameras
  BY <1>1, Constants DEF TypeOK, Named, NothingPaired, Some
<1>6. ASSUME NEW c \in Cameras, Pick(c)
      PROVE  IInv'
  <2>1. c \in Some
    BY DEF Some
  <2>2. /\ Press /\ picked' = c /\ screen' = "pairing"
        /\ Send(<<[do |-> "pair", camera |-> c]>>)
        /\ UNCHANGED <<shown, pending, outcome>>
    BY <1>6 DEF Pick, Click, GoTo
  <2> DEFINE list == <<[do |-> "pair", camera |-> c]>>
  <2>3. /\ picked' # NoCamera /\ picked' \in Cameras /\ shown' = shown
        /\ screen' \in Screens /\ outcome' \in Outcomes /\ pending' \in Station
    BY <1>4, <1>5, <2>2
  <2>4. list \in Seq(Command) /\ \A i \in DOMAIN list : list[i].camera \in Cameras
    <3>1. list \in Seq(Command)
      BY <1>3, <2>1
    <3>2. DOMAIN list = 1 .. 1 /\ list[1].camera = c
      OBVIOUS
    <3> HIDE DEF list
    <3> QED
      BY <3>1, <3>2
  <2>5. Press /\ Send(list)
    BY <2>2
  <2> HIDE DEF list
  <2> QED
    BY <2>3, <2>4, <2>5, PressKeeps
<1>7. ASSUME ScanAgain \/ CancelPairing \/ BrowsePhones \/ BackToCameras
      PROVE  IInv'
  <2>1. /\ Press /\ screen' \in {"scanning", "phones"}
        /\ \/ Send(<<Do("scan")>>) \/ Send(<<Do("cancel")>>)
           \/ Send(<<Do("cancel"), Do("scan")>>)
        /\ UNCHANGED <<picked, shown, pending, outcome>>
    BY <1>7 DEF ScanAgain, CancelPairing, BrowsePhones, BackToCameras, Click, GoTo
  <2>2. ASSUME NEW list \in {<<Do("scan")>>, <<Do("cancel")>>, <<Do("cancel"), Do("scan")>>}
        PROVE  \A i \in DOMAIN list : list[i].do \in {"scan", "cancel"}
    BY <1>2
  <2>3. ASSUME NEW list \in {<<Do("scan")>>, <<Do("cancel")>>, <<Do("cancel"), Do("scan")>>},
               Send(list)
        PROVE  IInv'
    <3>1. list \in Seq(Command)
      BY <1>2
    <3>2. \A i \in DOMAIN list : list[i].do \in {"scan", "cancel"}
      BY <2>2
    <3>3. /\ \A i \in DOMAIN list :
               list[i].do \in {"pair", "station", "reset"} => list[i].camera \in Cameras
          /\ picked' = NoCamera => screen' \notin {"wifiReady", "homeWifi"}
          /\ screen' \in Screens /\ outcome' \in Outcomes /\ pending' \in Station
      BY <1>4, <2>1, <3>2
    <3> QED
      BY <2>1, <2>3, <3>1, <3>2, <3>3, PressKeeps
  <2> QED
    BY <2>1, <2>3
<1>8. ASSUME HomeWifi \/ JoinHomeWifi \/ ResetStation
      PROVE  IInv'
  <2> DEFINE station == <<[do |-> "station", camera |-> picked]>>
             reset   == <<[do |-> "reset", camera |-> picked]>>
  <2>1. /\ Press /\ screen' \in {"homeWifi", "pairing"} /\ picked \in Cameras
        /\ \/ Send(<< >>) \/ Send(station) \/ Send(reset)
        /\ pending' \in {pending, [model |-> picked, identity |-> NoCamera]}
        /\ UNCHANGED <<picked, shown, outcome>>
    BY <1>5, <1>8 DEF HomeWifi, JoinHomeWifi, ResetStation, Click, GoTo
  <2>2. /\ pending' \in Station /\ screen' \in Screens /\ outcome' \in Outcomes
        /\ picked' # NoCamera /\ shown' = shown /\ picked' = picked
    BY <1>4, <1>5, <2>1 DEF Station, Some
  <2>3. ASSUME NEW list \in {<< >>, station, reset}
        PROVE  /\ list \in Seq(Command)
               /\ \A i \in DOMAIN list :
                    list[i].do \in {"pair", "station", "reset"} => list[i].camera \in Cameras
    <3>1. CASE list = << >>
      BY <1>2, <3>1
    <3>2. station \in Seq(Command) /\ reset \in Seq(Command)
      BY <1>3, <1>5
    <3>3. /\ DOMAIN station = 1 .. 1 /\ station[1].camera = picked
          /\ DOMAIN reset = 1 .. 1 /\ reset[1].camera = picked
      OBVIOUS
    <3>4. CASE list \in {station, reset}
      <4> HIDE DEF station, reset
      <4> QED
        BY <2>1, <3>2, <3>3, <3>4
    <3> QED
      BY <3>1, <3>4
  <2> HIDE DEF station, reset
  <2>4. ASSUME NEW list \in {<< >>, station, reset}, Send(list)
        PROVE  IInv'
    BY <2>1, <2>2, <2>3, <2>4, PressKeeps
  <2> QED
    BY <2>1, <2>4
<1>9. ASSUME \/ Choose({"wifiReady"}, "connected")
             \/ Choose({"scanning", "choose", "failed"}, "skip")
             \/ Choose({"phones"}, "phone")
      PROVE  IInv'
  <2>1. /\ Press /\ Send(<<Do("cancel")>>) /\ outcome' \in Outcomes
        /\ UNCHANGED <<screen, picked, shown, pending>>
    BY <1>4, <1>9 DEF Choose, Click, Finish
  <2>2. \A i \in DOMAIN <<Do("cancel")>> : <<Do("cancel")>>[i].do = "cancel"
    BY <1>2
  <2>3. picked' = NoCamera => screen' \notin {"wifiReady", "homeWifi"}
    BY <1>5, <2>1
  <2> QED
    BY <1>2, <1>4, <2>1, <2>2, <2>3, PressKeeps
<1> QED
  BY <1>6, <1>7, <1>8, <1>9 DEF Operator

LEMMA DrainKeeps ==
  ASSUME IInv, Drain
  PROVE  IInv'
<1>1. TypeOK /\ Named /\ Linked /\ ReadsItsOwnCamera /\ OnlyHalfConnectsLeak
  BY DEF IInv
<1>2. /\ UNCHANGED <<picked, saved, outcome, cmds, worker, link, half, clicks>>
      /\ events # << >> /\ events' = << >>
      /\ events \in Seq(Event) /\ Len(events) \in DOMAIN events
      /\ \A i \in DOMAIN events : events[i] \in Event
      /\ DOMAIN events = 1 .. Len(events)
  BY <1>1 DEF Drain, TypeOK
<1>3. UNCHANGED <<screen, shown, search, pending>> \/ Show
  BY DEF Drain
<1>4. /\ screen' \in Screens
      /\ screen' \in {"wifiReady", "homeWifi"} =>
           \/ screen' = screen
           \/ \E i \in DOMAIN events : events[i].kind = "credentials"
  <2>1. CASE UNCHANGED screen
    BY <1>1, <2>1 DEF TypeOK
  <2>2. CASE screen' = ScreenOf(events[Len(events)])
    <3>1. \A e \in Event :
            /\ ScreenOf(e) \in Screens
            /\ ScreenOf(e) \in {"wifiReady", "homeWifi"} => e.kind = "credentials"
      BY DEF ScreenOf, Screens, Event
    <3> QED
      BY <1>2, <2>2, <3>1
  <2> QED
    BY <1>3, <2>1, <2>2 DEF Show
<1>5. /\ shown' \in Credentials
      /\ shown.ssid = shown.password => shown'.ssid = shown'.password
  <2>1. CASE UNCHANGED shown
    BY <1>1, <2>1 DEF TypeOK
  <2>2. ASSUME NEW i \in DOMAIN events, events[i].kind = "credentials",
               shown' = [ssid |-> events[i].ssid, password |-> events[i].password,
                         model |-> picked]
        PROVE  shown' \in Credentials /\ shown'.ssid = shown'.password
    <3>1. events[i].ssid \in Some /\ events[i].password \in Some /\ picked \in Some
      BY <1>1, <1>2 DEF TypeOK, Event
    <3>2. events[i].ssid = events[i].password
      BY <1>1, <1>2, <2>2 DEF ReadsItsOwnCamera
    <3> QED
      BY <2>2, <3>1, <3>2 DEF Credentials
  <2> QED
    BY <1>3, <2>1, <2>2 DEF Show, LastOf
<1>6. search' \in Some /\ pending' \in Station
  <2>1. CASE UNCHANGED <<search, pending>>
    BY <1>1, <2>1 DEF TypeOK
  <2>2. ASSUME NEW i \in DOMAIN events, search' = events[i].ssid,
               pending' \in {pending, [pending EXCEPT !.identity = events[i].ssid]}
        PROVE  search' \in Some /\ pending' \in Station
    <3>1. events[i].ssid \in Some /\ pending \in Station
      BY <1>1, <1>2 DEF TypeOK, Event
    <3> QED
      BY <2>2, <3>1 DEF Station
  <2> QED
    BY <1>3, <2>1, <2>2 DEF Show
<1>7. events' \in Seq(Event) /\ DOMAIN events' = {} /\ DOMAIN events' = 1 .. Len(events')
  BY <1>2
<1>8. TypeOK'
  BY <1>1, <1>2, <1>4, <1>5, <1>6, <1>7 DEF TypeOK
<1>9. Named'
  BY <1>1, <1>2, <1>4, <1>7 DEF Named, NothingPaired
<1>10. Linked' /\ OnlyHalfConnectsLeak' /\ ReadsItsOwnCamera'
  BY <1>1, <1>2, <1>5, <1>7 DEF Linked, OnlyHalfConnectsLeak, ReadsItsOwnCamera
<1> QED
  BY <1>8, <1>9, <1>10 DEF IInv

LEMMA SearchKeeps ==
  ASSUME IInv, NEW found \in BOOLEAN, SearchAnswer(found)
  PROVE  IInv'
<1>1. TypeOK /\ Named /\ Linked /\ ReadsItsOwnCamera /\ OnlyHalfConnectsLeak
  BY DEF IInv
<1>2. /\ UNCHANGED <<picked, shown, events, worker, link, half, clicks>>
      /\ search' = NoCamera /\ pending' = Nothing
      /\ saved' \in {saved, pending} /\ outcome' \in {outcome, "station"}
      /\ screen' \in {screen, "failed"}
      /\ cmds' \in {cmds, cmds \o <<Do("cancel")>>}
  BY DEF SearchAnswer, Finish, Send
<1>3. /\ cmds \in Seq(Command) /\ <<Do("cancel")>> \in Seq(Command)
      /\ \A i \in DOMAIN <<Do("cancel")>> : <<Do("cancel")>>[i].do = "cancel"
  BY <1>1 DEF TypeOK, Do, Command, Some
<1>4. /\ cmds' \in Seq(Command)
      /\ \A i \in DOMAIN cmds' :
           cmds'[i].do = "cancel" \/ \E j \in DOMAIN cmds : cmds'[i] = cmds[j]
  <2> DEFINE cancel == <<Do("cancel")>>
  <2>1. cmds \in Seq(Command) /\ cancel \in Seq(Command)
    BY <1>3
  <2>3. \A j \in DOMAIN cancel : cancel[j].do = "cancel"
    BY <1>3
  <2>4. cmds' \in {cmds, cmds \o cancel}
    BY <1>2
  <2> HIDE DEF cancel
  <2>2. /\ cmds \o cancel \in Seq(Command)
        /\ \A i \in DOMAIN (cmds \o cancel) :
             \/ \E j \in DOMAIN cmds : (cmds \o cancel)[i] = cmds[j]
             \/ \E j \in DOMAIN cancel : (cmds \o cancel)[i] = cancel[j]
    BY <2>1, Joined
  <2>5. CASE cmds' = cmds
    BY <1>3, <2>5
  <2>6. CASE cmds' = cmds \o cancel
    BY <2>2, <2>3, <2>6
  <2> QED
    BY <2>4, <2>5, <2>6
<1>5. TypeOK'
  <2>1. Nothing \in Station /\ NoCamera \in Some /\ "failed" \in Screens /\ "station" \in Outcomes
    BY DEF Nothing, Station, Some, Screens, Outcomes
  <2> QED
    BY <1>1, <1>2, <1>4, <2>1 DEF TypeOK
<1>6. Named'
  BY <1>1, <1>2, <1>4 DEF Named, NothingPaired
<1>7. Linked' /\ ReadsItsOwnCamera' /\ OnlyHalfConnectsLeak'
  BY <1>1, <1>2 DEF Linked, ReadsItsOwnCamera, OnlyHalfConnectsLeak
<1> QED
  BY <1>5, <1>6, <1>7 DEF IInv

LEMMA NotifyKeeps ==
  ASSUME IInv, NEW c \in Cameras, NEW kind \in Written(worker.at), Notify(c, kind)
  PROVE  IInv'
<1> DEFINE frame == [from |-> c, kind |-> kind]
<1>1. TypeOK /\ Named /\ Linked /\ ReadsItsOwnCamera /\ OnlyHalfConnectsLeak
  BY DEF IInv
<1>2. UNCHANGED <<ui, cmds, events, worker, half, clicks>> /\ c \in link.streams
  BY DEF Notify
<1>3. frame \in Frame
  BY DEF Frame, Written, Answering
<1> HIDE DEF frame
<1>4. /\ link' \in [peripheral : Some, streams : SUBSET Cameras, up : SUBSET Cameras,
                 air : Seq(Frame)]
      /\ link'.peripheral = link.peripheral /\ link'.streams = link.streams
      /\ link'.up = link.up
      /\ link'.air = Append(link.air, frame)
  <2>1. link' = [link EXCEPT !.air = Append(@, frame)]
    BY DEF Notify, frame
  <2>2. Append(link.air, frame) \in Seq(Frame)
    BY <1>1, <1>3 DEF TypeOK
  <2> QED
    BY <1>1, <2>1, <2>2 DEF TypeOK
<1>5. \A i \in DOMAIN link'.air :
        (i \in DOMAIN link.air /\ link'.air[i] = link.air[i]) \/ link'.air[i] = frame
  BY <1>1, <1>3, <1>4 DEF TypeOK
<1>6. worker.at \notin Resting => c = worker.target
  BY <1>1, <1>2 DEF Linked
<1>7. Linked'
  <2>1. frame.from = c
    BY DEF frame
  <2> QED
    BY <1>1, <1>2, <1>4, <1>5, <1>6, <2>1 DEF Linked, Resting, Unsorted
<1>8. TypeOK' /\ Named' /\ ReadsItsOwnCamera' /\ OnlyHalfConnectsLeak'
  BY <1>1, <1>2, <1>4
     DEF TypeOK, Named, NothingPaired, ReadsItsOwnCamera, OnlyHalfConnectsLeak, ui
<1> QED
  BY <1>7, <1>8 DEF IInv

(***************************************************************************)
(* The worker between two operations.                                      *)
(***************************************************************************)
LEMMA EventTypes ==
  /\ \A kind \in {"scanning", "found", "none", "step", "approval", "stationDone",
                  "stationReset", "error"} :
       /\ Ev(kind) \in Event /\ Ev(kind).kind = kind
       /\ <<Ev(kind)>> \in Seq(Event)
       /\ \A i \in DOMAIN <<Ev(kind)>> : <<Ev(kind)>>[i].kind # "credentials"
  /\ Step \in Event /\ Step.kind = "step" /\ <<Step>> \in Seq(Event)
  /\ \A i \in DOMAIN <<Step>> : <<Step>>[i].kind # "credentials"
  /\ << >> \in Seq(Event) /\ \A i \in DOMAIN << >> : FALSE
BY DEF Ev, Step, Event, Some

LEMMA IdleType ==
  /\ Idle \in Worker /\ Idle.at = "idle" /\ Idle.ssid = NoCamera
  /\ \A at \in Places : [Idle EXCEPT !.at = at] \in Worker
  /\ \A at \in Places : [Idle EXCEPT !.at = at].at = at
  /\ \A at \in Places : [Idle EXCEPT !.at = at].ssid = NoCamera
BY NewMachineType DEF Idle, Worker, Places, Some

LEMMA TakeCommandKeeps ==
  ASSUME IInv, TakeCommand, UNCHANGED <<saved, half>>
  PROVE  IInv'
<1> DEFINE command == Head(cmds)
<1>1. TypeOK /\ Named /\ Linked /\ ReadsItsOwnCamera /\ OnlyHalfConnectsLeak
  BY DEF IInv
<1>2. /\ worker.at = "idle" /\ cmds # << >> /\ cmds' = Tail(cmds)
      /\ UNCHANGED <<screen, picked, shown, pending, search, outcome, clicks, link>>
  BY DEF TakeCommand, Work
<1>3. command \in Command /\ \E j \in DOMAIN cmds : command = cmds[j]
  <2>1. \A s \in Seq(Command) : s # << >> =>
          Head(s) \in Command /\ 1 \in DOMAIN s /\ Head(s) = s[1]
    <3> TAKE s \in Seq(Command)
    <3> HAVE s # << >>
    <3> QED
      BY Shortened
  <2>2. cmds \in Seq(Command)
    BY <1>1 DEF TypeOK
  <2> QED
    BY <1>2, <2>1, <2>2, Zenon
<1>4. /\ \/ events' = events \o <<Ev("scanning")>> /\ worker' = [Idle EXCEPT !.at = "scan"]
         \/ events' = events /\ worker' = [Idle EXCEPT !.at = "stopped"]
         \/ /\ events' = events /\ command.do \notin {"scan", "cancel"}
            /\ worker' = [Idle EXCEPT !.at = "connect", !.op = command.do,
                                      !.target = command.camera]
  BY DEF TakeCommand, Report
<1> HIDE DEF command
<1>5. PICK list \in {<< >>, <<Ev("scanning")>>} : events' = events \o list
  <2>1. events = events \o << >>
    BY <1>1 DEF TypeOK
  <2> QED
    BY <1>4, <2>1
<1>6. list \in Seq(Event) /\ \A i \in DOMAIN list : list[i].kind # "credentials"
  BY EventTypes
<1>7. CASE worker' = [Idle EXCEPT !.at = "scan"] \/ worker' = [Idle EXCEPT !.at = "stopped"]
  <2>0. PICK place \in {"scan", "stopped"} : worker' = [Idle EXCEPT !.at = place]
    BY <1>7
  <2>1. /\ worker' \in Worker /\ worker'.at \in {"scan", "stopped"}
        /\ worker'.ssid = NoCamera
    <3>1. place \in Places
      BY DEF Places
    <3> QED
      BY <2>0, <3>1, IdleType
  <2>2. Linked' /\ OnlyHalfConnectsLeak'
    BY <1>1, <1>2, <2>1 DEF Linked, OnlyHalfConnectsLeak, Resting, Unsorted
  <2>3. /\ saved' \in Station /\ half' \in SUBSET Cameras /\ Taken
        /\ link' \in [peripheral : Some, streams : SUBSET Cameras, up : SUBSET Cameras,
                 air : Seq(Frame)]
    BY <1>1, <1>2 DEF TypeOK, Taken
  <2> QED
    BY <1>2, <1>5, <1>6, <2>1, <2>2, <2>3, WorkKeeps
<1>8. CASE /\ command.do \notin {"scan", "cancel"}
           /\ worker' = [Idle EXCEPT !.at = "connect", !.op = command.do,
                                     !.target = command.camera]
  <2>1. /\ command.do \in {"pair", "station", "reset"}
        /\ command.camera \in Cameras /\ picked # NoCamera
    BY <1>1, <1>3, <1>8 DEF Named, NothingPaired, Command
  <2>2. /\ worker' \in Worker /\ worker'.at = "connect" /\ worker'.target \in Cameras
        /\ worker'.ssid = NoCamera
    BY <1>8, <2>1, IdleType DEF Worker, Places, Some
  <2>3. Linked' /\ OnlyHalfConnectsLeak'
    BY <1>1, <1>2, <2>2 DEF Linked, OnlyHalfConnectsLeak, Resting, Unsorted
  <2>4. /\ saved' \in Station /\ half' \in SUBSET Cameras /\ Taken
        /\ link' \in [peripheral : Some, streams : SUBSET Cameras, up : SUBSET Cameras,
                 air : Seq(Frame)]
    BY <1>1, <1>2 DEF TypeOK, Taken
  <2> QED
    BY <1>2, <1>5, <1>6, <2>1, <2>2, <2>3, <2>4, WorkKeeps
<1> QED
  BY <1>4, <1>7, <1>8

LEMMA ScanEndsKeeps ==
  ASSUME IInv, NEW result \in {"found", "none", "error"}, ScanEnds(result), UNCHANGED <<saved, half>>
  PROVE  IInv'
<1>1. TypeOK /\ Linked /\ OnlyHalfConnectsLeak
  BY DEF IInv
<1>2. /\ UNCHANGED <<screen, picked, shown, pending, search, outcome, clicks, cmds, link>>
      /\ worker.at = "scan" /\ worker' = Idle /\ events' = events \o <<Ev(result)>>
  BY DEF ScanEnds, Work, Report
<1>3. Linked' /\ OnlyHalfConnectsLeak'
  BY <1>1, <1>2, IdleType DEF Linked, OnlyHalfConnectsLeak, Resting, Unsorted
<1>4. /\ saved' \in Station /\ half' \in SUBSET Cameras /\ Taken
      /\ link' \in [peripheral : Some, streams : SUBSET Cameras, up : SUBSET Cameras,
                 air : Seq(Frame)]
  BY <1>1, <1>2 DEF TypeOK, Taken
<1>5. /\ <<Ev(result)>> \in Seq(Event)
      /\ \A i \in DOMAIN <<Ev(result)>> : <<Ev(result)>>[i].kind # "credentials"
  BY EventTypes
<1> QED
  BY <1>2, <1>3, <1>4, <1>5, WorkKeeps, IdleType

LEMMA ConnectKeeps ==
  ASSUME IInv, Connect, UNCHANGED saved
  PROVE  IInv'
<1>1. TypeOK /\ Named /\ Linked /\ ReadsItsOwnCamera /\ OnlyHalfConnectsLeak
  BY DEF IInv
<1>2. /\ UNCHANGED <<screen, picked, shown, pending, search, outcome, clicks, cmds>>
      /\ worker.at = "connect" /\ events' = events \o <<Step>>
      /\ link' = [link EXCEPT !.peripheral = worker.target,
                              !.streams = @ \cup {worker.target},
                              !.up = @ \cup {worker.target}]
      /\ half' = half \ {worker.target}
  BY DEF Connect, Work, Report
<1>3. /\ worker.target \in Cameras /\ picked # NoCamera /\ worker \in Worker
      /\ link.streams = {} /\ link.up \subseteq half
  BY <1>1, <1>2 DEF Named, NothingPaired, OnlyHalfConnectsLeak, TypeOK
<1>4. /\ worker' \in Worker /\ worker'.at \in {"pin", "session"}
      /\ worker'.target = worker.target /\ worker'.ssid = worker.ssid
  BY <1>3 DEF Connect, Worker, Places
<1>5. /\ link' \in [peripheral : Some, streams : SUBSET Cameras, up : SUBSET Cameras,
                 air : Seq(Frame)]
      /\ link'.peripheral = worker.target /\ link'.streams = {worker.target}
      /\ link'.up = link.up \cup {worker.target}
  BY <1>1, <1>2, <1>3 DEF TypeOK, Some
<1>6. Linked' /\ OnlyHalfConnectsLeak'
  BY <1>2, <1>3, <1>4, <1>5 DEF Linked, OnlyHalfConnectsLeak, Resting, Unsorted
<1>7. saved' \in Station /\ half' \in SUBSET Cameras /\ Taken /\ worker'.ssid \in {NoCamera, worker'.target}
  BY <1>1, <1>2, <1>4 DEF TypeOK, Taken, ReadsItsOwnCamera
<1> QED
  BY <1>2, <1>3, <1>4, <1>5, <1>6, <1>7, WorkKeeps, EventTypes

LEMMA ConnectFailsKeeps ==
  ASSUME IInv, ConnectFails, UNCHANGED saved
  PROVE  IInv'
<1>1. TypeOK /\ Named /\ OnlyHalfConnectsLeak
  BY DEF IInv
<1>2. /\ UNCHANGED <<screen, picked, shown, pending, search, outcome, clicks, cmds>>
      /\ worker.at = "connect" /\ worker' = Idle /\ events' = events \o <<Ev("error")>>
  BY DEF ConnectFails, Work, Report
<1>3. worker.target \in Cameras /\ link.up \subseteq half
  BY <1>1, <1>2 DEF Named, OnlyHalfConnectsLeak
<1>4. /\ link' \in [peripheral : Some, streams : SUBSET Cameras, up : SUBSET Cameras,
                    air : Seq(Frame)]
      /\ half' \in SUBSET Cameras
      /\ link'.peripheral = link.peripheral /\ link'.streams = link.streams
      /\ link'.up \subseteq half'
  BY <1>1, <1>3 DEF ConnectFails, TypeOK
<1>5. Linked' /\ OnlyHalfConnectsLeak'
  BY <1>1, <1>2, <1>4, IdleType DEF Linked, OnlyHalfConnectsLeak, Resting, Unsorted
<1>6. saved' \in Station /\ Taken
  BY <1>1, <1>2 DEF TypeOK, Taken
<1> QED
  BY <1>2, <1>4, <1>5, <1>6, WorkKeeps, EventTypes, IdleType

(***************************************************************************)
(* The worker inside an operation: its exits first.                        *)
(***************************************************************************)
LEMMA PollTakes ==
  ASSUME PollCommand
  PROVE  Taken
BY DEF PollCommand, Taken

LEMMA ErrorKeeps ==
  ASSUME IInv, UNCHANGED <<screen, picked, shown, pending, search, outcome, clicks, saved, half>>,
         Taken, worker.at \notin Resting,
         NEW air \in Seq(Frame),
         End(<<Ev("error")>>, air) \/ End(<< >>, air)
  PROVE  IInv'
<1>1. saved' \in Station
  BY DEF IInv, TypeOK
<1>2. CASE End(<<Ev("error")>>, air)
  <2>1. /\ <<Ev("error")>> \in Seq(Event)
        /\ \A i \in DOMAIN <<Ev("error")>> : <<Ev("error")>>[i].kind # "credentials"
    BY EventTypes
  <2> QED
    BY <1>1, <1>2, <2>1, EndKeeps
<1>3. CASE End(<< >>, air)
  BY <1>1, <1>3, EventTypes, EndKeeps
<1> QED
  BY <1>2, <1>3

LEMMA FailuresKeep ==
  ASSUME IInv, UNCHANGED <<saved, half>>,
         \/ WriteFails
         \/ \E at \in {"pin", "session", "provision", "reset"} : Cancelled(at)
         \/ ReadCancelled
         \/ \E at \in {"pin", "ssid", "password"} : TimesOut(at)
         \/ Unanswered
  PROVE  IInv'
<1>1. /\ UNCHANGED <<screen, picked, shown, pending, search, outcome, clicks>>
      /\ worker.at \in {"pin", "ap", "ssid", "password", "session", "provision", "reset"}
      /\ PollCommand \/ cmds' = cmds
      /\ End(<<Ev("error")>>, link.air) \/ End(<< >>, link.air)
  BY DEF WriteFails, Cancelled, ReadCancelled, TimesOut, Unanswered, Work
<1>2. Taken /\ worker.at \notin Resting /\ link.air \in Seq(Frame)
  BY <1>1, PollTakes DEF Taken, Resting, IInv, TypeOK
<1> QED
  BY <1>1, <1>2, ErrorKeeps

LEMMA ReadPasswordKeeps ==
  ASSUME IInv, ReadPassword, UNCHANGED <<saved, half>>
  PROVE  IInv'
<1> DEFINE passwords == Heard({"password"})
           event     == [Ev("credentials") EXCEPT !.ssid = worker.ssid,
                                       !.password = passwords[Len(passwords)].from]
<1>1. TypeOK /\ Linked
  BY DEF IInv
<1>2. /\ UNCHANGED <<screen, picked, shown, pending, search, outcome, clicks>>
      /\ worker.at = "password" /\ worker.at \notin Resting /\ Taken
      /\ \/ passwords = << >> /\ EmptyAir /\ UNCHANGED <<worker, events>>
         \/ passwords # << >> /\ End(<<event>>, << >>)
  BY PollTakes DEF ReadPassword, Work, Resting
<1>3. /\ passwords \in Seq(Frame)
      /\ \A j \in 1 .. Len(passwords) : \E i \in DOMAIN link.air : passwords[j] = link.air[i]
  BY <1>1, HeardType DEF TypeOK
<1> HIDE DEF passwords
<1>4. CASE passwords = << >> /\ EmptyAir /\ UNCHANGED <<worker, events>>
  <2>1. worker' \in Worker /\ worker'.ssid \in {NoCamera, worker.target}
    BY <1>1, <1>4 DEF TypeOK, IInv, ReadsItsOwnCamera
  <2>2. worker'.at = "password" /\ worker'.ssid = worker.target
    BY <1>1, <1>2, <1>4 DEF Linked, Unsorted
  <2>3. << >> \in Seq(Event) /\ events' = events \o << >> /\ \A i \in DOMAIN << >> : FALSE
    BY <1>1, <1>4, Quiet
  <2> QED
    BY <1>2, <1>4, <2>1, <2>2, <2>3, StepKeeps
<1>5. CASE passwords # << >> /\ End(<<event>>, << >>)
  <2>1. Len(passwords) \in 1 .. Len(passwords)
    BY <1>3, <1>5
  <2>2. passwords[Len(passwords)].from = worker.target
    BY <1>1, <1>2, <1>3, <2>1 DEF Linked, Unsorted
  <2>3. worker.ssid = worker.target /\ worker.target \in Some
    BY <1>1, <1>2 DEF Linked, TypeOK, Worker
  <2>4. /\ event \in Event /\ event.ssid = event.password
    BY <2>2, <2>3 DEF Ev, Event, Some
  <2> HIDE DEF event
  <2>5. <<event>> \in Seq(Event) /\ \A i \in DOMAIN <<event>> : <<event>>[i] = event
    BY <2>4
  <2>6. saved' \in Station /\ << >> \in Seq(Frame)
    BY <1>1 DEF TypeOK
  <2> QED
    BY <1>2, <1>5, <2>4, <2>5, <2>6, EndKeeps
<1> QED
  BY <1>2, <1>4, <1>5

LEMMA ProvisioningEndsKeeps ==
  ASSUME IInv, ProvisioningEnds, UNCHANGED <<saved, half>>
  PROVE  IInv'
<1> DEFINE event == IF worker.m.state = "failed" THEN Ev("error")
                    ELSE [Ev("stationDone") EXCEPT !.ssid = worker.ssid,
                                                   !.confirmed = worker.m.confirmed]
<1>1. TypeOK
  BY DEF IInv
<1>2. /\ UNCHANGED <<screen, picked, shown, pending, search, outcome, clicks>>
      /\ worker.at \notin Resting /\ Taken /\ End(<<event>>, link.air)
  BY PollTakes DEF ProvisioningEnds, Work, Resting
<1>3. event \in Event /\ event.kind # "credentials"
  <2>1. worker.ssid \in Some /\ worker.m.confirmed \in BOOLEAN
    BY <1>1 DEF TypeOK, Worker, Machine
  <2> QED
    BY <2>1 DEF Ev, Event, Some
<1> HIDE DEF event
<1>4. <<event>> \in Seq(Event) /\ \A i \in DOMAIN <<event>> : <<event>>[i] = event
  BY <1>3
<1>5. saved' \in Station /\ link.air \in Seq(Frame)
  BY <1>1 DEF TypeOK
<1> QED
  BY <1>2, <1>3, <1>4, <1>5, EndKeeps

LEMMA ResetAnsweredKeeps ==
  ASSUME IInv, NEW accepted \in BOOLEAN, ResetAnswered(accepted), UNCHANGED half
  PROVE  IInv'
<1> DEFINE list == <<Ev(IF accepted THEN "stationReset" ELSE "error")>>
<1>1. TypeOK
  BY DEF IInv
<1>2. /\ UNCHANGED <<screen, picked, shown, pending, search, outcome, clicks>>
      /\ worker.at \notin Resting /\ Taken /\ End(list, << >>)
      /\ saved' \in {Nothing, saved}
  BY PollTakes DEF ResetAnswered, Work, Resting
<1>3. list \in Seq(Event) /\ \A i \in DOMAIN list : list[i].kind # "credentials"
  BY EventTypes
<1> HIDE DEF list
<1>4. saved' \in Station /\ << >> \in Seq(Frame)
  BY <1>1, <1>2 DEF TypeOK, Nothing, Station, Some
<1> QED
  BY <1>2, <1>3, <1>4, EndKeeps

(***************************************************************************)
(* And the steps in between.                                               *)
(***************************************************************************)
LEMMA PinPollKeeps ==
  ASSUME IInv, PinPoll, UNCHANGED <<saved, half>>
  PROVE  IInv'
<1> DEFINE said     == Heard({"approval", "refused"})
           accepted == Heard({"accepted", "request"}) # << >>
           reports  == [i \in 1 .. Len(said) |->
                          Ev(IF said[i].kind = "approval" THEN "approval" ELSE "error")]
           steps    == IF accepted THEN <<Step>> ELSE << >>
<1>1. TypeOK /\ ReadsItsOwnCamera
  BY DEF IInv
<1>2. /\ UNCHANGED <<screen, picked, shown, pending, search, outcome, clicks>>
      /\ worker.at = "pin" /\ worker.at \notin Resting /\ Taken /\ EmptyAir
      /\ events' = events \o (reports \o steps)
      /\ worker' = worker \/ worker' = [worker EXCEPT !.at = "ap"]
  BY PollTakes DEF PinPoll, Work, Resting, Report
<1>3. said \in Seq(Frame)
  BY <1>1, HeardType DEF TypeOK
<1>4. /\ steps \in Seq(Event) /\ \A i \in DOMAIN steps : steps[i].kind # "credentials"
  BY EventTypes
<1>5. reports \in Seq(Event) /\ \A i \in DOMAIN reports : reports[i].kind # "credentials"
  <2> HIDE DEF said
  <2>1. Len(said) \in Nat
    BY <1>3
  <2> QED
    BY <2>1, EventTypes
<1> HIDE DEF reports, steps
<1>6. /\ reports \o steps \in Seq(Event)
      /\ \A i \in DOMAIN (reports \o steps) : (reports \o steps)[i].kind # "credentials"
  <2>1. /\ reports \o steps \in Seq(Event)
        /\ \A i \in DOMAIN (reports \o steps) :
             \/ \E j \in DOMAIN reports : (reports \o steps)[i] = reports[j]
             \/ \E j \in DOMAIN steps : (reports \o steps)[i] = steps[j]
    BY <1>4, <1>5, Joined
  <2> QED
    BY <1>4, <1>5, <2>1
<1>7. /\ worker' \in Worker /\ worker'.at \in {"pin", "ap"} /\ worker'.target = worker.target
      /\ worker'.ssid \in {NoCamera, worker.target}
  BY <1>1, <1>2 DEF TypeOK, Worker, Places, ReadsItsOwnCamera
<1> QED
  BY <1>2, <1>6, <1>7, StepKeeps DEF Resting

LEMMA WakeKeeps ==
  ASSUME IInv, WakePoll \/ WakeEnds, UNCHANGED <<saved, half>>
  PROVE  IInv'
<1>1. TypeOK /\ ReadsItsOwnCamera
  BY DEF IInv
<1>2. /\ UNCHANGED <<screen, picked, shown, pending, search, outcome, clicks>>
      /\ worker.at = "ap" /\ Taken /\ (link' = link \/ EmptyAir)
      /\ \/ events' = events /\ worker' = worker
         \/ events' = events \o <<Step>> /\ worker' = [worker EXCEPT !.at = "ssid"]
  BY PollTakes DEF WakePoll, WakeEnds, ToTheName, Work, Report
<1>3. PICK list \in {<< >>, <<Step>>} : events' = events \o list
  BY <1>1, <1>2, Quiet
<1>4. list \in Seq(Event) /\ \A i \in DOMAIN list : list[i].kind # "credentials"
  BY EventTypes
<1>5. /\ worker' \in Worker /\ worker'.at \in {"ap", "ssid"} /\ worker'.target = worker.target
      /\ worker'.ssid \in {NoCamera, worker.target}
  BY <1>1, <1>2 DEF TypeOK, Worker, Places, ReadsItsOwnCamera
<1>6. /\ worker.at \notin Resting /\ worker.at \notin Unsorted
      /\ worker'.at \notin Resting /\ worker'.at # "password"
  BY <1>2, <1>5 DEF Resting, Unsorted
<1> QED
  BY <1>2, <1>3, <1>4, <1>5, <1>6, StepKeeps

LEMMA ReadNameKeeps ==
  ASSUME IInv, ReadName, UNCHANGED <<saved, half>>
  PROVE  IInv'
<1> DEFINE names == Heard({"ssid"})
<1>1. TypeOK /\ Linked /\ ReadsItsOwnCamera
  BY DEF IInv
<1>2. /\ UNCHANGED <<screen, picked, shown, pending, search, outcome, clicks>>
      /\ worker.at = "ssid" /\ Taken /\ EmptyAir
      /\ \/ UNCHANGED <<worker, events>>
         \/ /\ names # << >> /\ events' = events \o <<Step>>
            /\ worker' = [worker EXCEPT !.at = "password", !.ssid = names[Len(names)].from]
  BY PollTakes DEF ReadName, Work, Report
<1>3. /\ names \in Seq(Frame)
      /\ \A j \in 1 .. Len(names) : \E i \in DOMAIN link.air : names[j] = link.air[i]
  BY <1>1, HeardType DEF TypeOK
<1> HIDE DEF names
<1>4. worker.at \notin Resting /\ worker.at \notin Unsorted /\ worker.target \in Some
  BY <1>1, <1>2 DEF Resting, Unsorted, TypeOK, Worker
<1>5. CASE UNCHANGED <<worker, events>>
  <2>1. /\ worker' \in Worker /\ worker'.at = "ssid" /\ worker'.target = worker.target
        /\ worker'.ssid \in {NoCamera, worker.target}
    BY <1>1, <1>2, <1>5 DEF TypeOK, ReadsItsOwnCamera
  <2>2. << >> \in Seq(Event) /\ events' = events \o << >> /\ \A i \in DOMAIN << >> : FALSE
    BY <1>1, <1>5, Quiet
  <2> QED
    BY <1>2, <1>4, <2>1, <2>2, StepKeeps DEF Resting
<1>6. CASE /\ names # << >> /\ events' = events \o <<Step>>
           /\ worker' = [worker EXCEPT !.at = "password", !.ssid = names[Len(names)].from]
  <2>1. Len(names) \in 1 .. Len(names)
    BY <1>3, <1>6
  <2>2. names[Len(names)].from = worker.target
    BY <1>1, <1>3, <1>4, <2>1 DEF Linked
  <2>3. /\ worker' \in Worker /\ worker'.at = "password" /\ worker'.target = worker.target
        /\ worker'.ssid = worker.target
    BY <1>1, <1>4, <1>6, <2>2 DEF TypeOK, Worker, Places
  <2>4. worker'.at \notin Resting
    BY <2>3 DEF Resting
  <2> QED
    BY <1>2, <1>4, <1>6, <2>3, <2>4, EventTypes, StepKeeps
<1> QED
  BY <1>2, <1>5, <1>6

LEMMA SessionPollKeeps ==
  ASSUME IInv, SessionPoll, UNCHANGED <<saved, half>>
  PROVE  IInv'
<1> DEFINE said     == Heard({"accepted", "approval", "refused", "request"})
           decisive == Heard({"accepted", "refused", "request"})
           ask      == said # << >> /\ said[1].kind = "approval" /\ ~worker.asked
           asking   == IF ask THEN <<Ev("approval")>> ELSE << >>
<1>1. TypeOK /\ ReadsItsOwnCamera
  BY DEF IInv
<1>2. /\ UNCHANGED <<screen, picked, shown, pending, search, outcome, clicks>>
      /\ worker.at = "session" /\ Taken
      /\ \/ End(Append(asking, Ev("error")), << >>)
         \/ /\ EmptyAir /\ events' = events \o asking
            /\ worker' = [worker EXCEPT !.asked = @ \/ ask]
         \/ /\ EmptyAir /\ events' = events \o Append(asking, Step)
            /\ worker' = [worker EXCEPT
                 !.at = IF worker.op = "reset" THEN "reset" ELSE "provision",
                 !.m = NewMachine(BodyOf(worker.target))]
  BY PollTakes DEF SessionPoll, Work, Report
<1>3. ask \in BOOLEAN
  OBVIOUS
<1> HIDE DEF ask
<1>4. /\ asking \in Seq(Event) /\ \A i \in DOMAIN asking : asking[i].kind # "credentials"
  BY EventTypes
<1> HIDE DEF asking
<1>5. ASSUME NEW event \in {Ev("error"), Step}
      PROVE  /\ Append(asking, event) \in Seq(Event)
             /\ \A i \in DOMAIN Append(asking, event) :
                  Append(asking, event)[i].kind # "credentials"
  <2>1. event \in Event /\ event.kind # "credentials"
    BY EventTypes
  <2> QED
    BY <1>4, <2>1
<1>6. worker.at \notin Resting /\ worker \in Worker
  BY <1>1, <1>2 DEF Resting, TypeOK
<1>7. CASE End(Append(asking, Ev("error")), << >>)
  <2>1. saved' \in Station /\ << >> \in Seq(Frame)
    BY <1>1 DEF TypeOK
  <2> QED
    BY <1>2, <1>5, <1>6, <1>7, <2>1, EndKeeps
<1>8. CASE /\ EmptyAir /\ events' = events \o asking
           /\ worker' = [worker EXCEPT !.asked = @ \/ ask]
  <2>1. /\ worker' \in Worker /\ worker'.at = "session" /\ worker'.target = worker.target
        /\ worker'.ssid \in {NoCamera, worker.target}
    BY <1>1, <1>2, <1>3, <1>6, <1>8 DEF Worker, ReadsItsOwnCamera
  <2> QED
    BY <1>2, <1>4, <1>6, <1>8, <2>1, StepKeeps DEF Resting
<1>9. CASE /\ EmptyAir /\ events' = events \o Append(asking, Step)
           /\ worker' = [worker EXCEPT
                !.at = IF worker.op = "reset" THEN "reset" ELSE "provision",
                !.m = NewMachine(BodyOf(worker.target))]
  <2>1. /\ worker' \in Worker /\ worker'.at \in {"reset", "provision"}
        /\ worker'.target = worker.target /\ worker'.ssid \in {NoCamera, worker.target}
    BY <1>1, <1>6, <1>9, NewMachineType DEF Worker, Places, ReadsItsOwnCamera
  <2>2. worker'.at \notin Resting /\ worker'.at # "password"
    BY <2>1 DEF Resting
  <2> QED
    BY <1>2, <1>5, <1>6, <1>9, <2>1, <2>2, StepKeeps
<1> QED
  BY <1>2, <1>7, <1>8, <1>9

LEMMA AnsweredType ==
  ASSUME worker \in Worker, NEW answer
  PROVE  Follows(worker.m, Receive(worker.m, answer)) /\ Receive(worker.m, answer) \in Machine
<1>1. worker.m \in Machine
  BY DEF Worker
<1>2. \A m \in Machine : Follows(m, Receive(m, answer))
  BY ReceiveFollows
<1> QED
  BY <1>1, <1>2 DEF Follows

LEMMA SendStepKeeps ==
  ASSUME IInv, SendStep, UNCHANGED <<saved, half>>
  PROVE  IInv'
<1> DEFINE list == IF worker.m.reads > 0 THEN << >> ELSE <<Step>>
           m    == IF worker.m.step = "videoMode" THEN Receive(worker.m, "sent")
                   ELSE [worker.m EXCEPT !.sent = TRUE]
<1>1. TypeOK /\ ReadsItsOwnCamera
  BY DEF IInv
<1>2. /\ UNCHANGED <<screen, picked, shown, pending, search, outcome, clicks, link>>
      /\ worker.at = "provision" /\ Taken /\ events' = events \o list
      /\ worker' = [worker EXCEPT !.m = m]
  BY PollTakes DEF SendStep, Work, Report
<1>3. m \in Machine
  <2>1. worker \in Worker /\ worker.m \in Machine
    BY <1>1 DEF TypeOK, Worker
  <2>2. [worker.m EXCEPT !.sent = TRUE] \in Machine
    BY <2>1 DEF Machine
  <2> QED
    BY <2>1, <2>2, AnsweredType
<1>4. list \in Seq(Event) /\ \A i \in DOMAIN list : list[i].kind # "credentials"
  BY EventTypes
<1> HIDE DEF m, list
<1>5. /\ worker' \in Worker /\ worker'.at = "provision" /\ worker'.target = worker.target
      /\ worker'.ssid \in {NoCamera, worker.target}
  BY <1>1, <1>2, <1>3 DEF TypeOK, Worker, ReadsItsOwnCamera
<1>6. worker.at \notin Resting /\ worker.at \notin Unsorted /\ worker'.at \notin Resting
  BY <1>2, <1>5 DEF Resting, Unsorted
<1> QED
  BY <1>2, <1>4, <1>5, <1>6, StepKeeps

LEMMA StepAnsweredKeeps ==
  ASSUME IInv, NEW answer, StepAnswered(answer), UNCHANGED <<saved, half>>
  PROVE  IInv'
<1> DEFINE replies == Heard({Answering})
<1>1. TypeOK /\ Linked /\ ReadsItsOwnCamera
  BY DEF IInv
<1>2. /\ UNCHANGED <<screen, picked, shown, pending, search, outcome, clicks, events>>
      /\ worker.at = "provision" /\ Taken /\ EmptyAir /\ replies # << >>
      /\ worker' = [worker EXCEPT
           !.m = Receive(worker.m, answer),
           !.ssid = IF answer = "identity" THEN replies[1].from ELSE worker.ssid]
  BY PollTakes DEF StepAnswered, Work
<1>3. /\ replies \in Seq(Frame)
      /\ \A j \in 1 .. Len(replies) : \E i \in DOMAIN link.air : replies[j] = link.air[i]
  BY <1>1, HeardType DEF TypeOK
<1> HIDE DEF replies
<1>4. 1 \in 1 .. Len(replies)
  BY <1>2, <1>3
<1>5. replies[1].from = worker.target
  BY <1>1, <1>2, <1>3, <1>4 DEF Linked, Unsorted
<1>6. Receive(worker.m, answer) \in Machine /\ worker \in Worker /\ worker.target \in Some
  BY <1>1, AnsweredType DEF TypeOK, Worker
<1>7. /\ worker' \in Worker /\ worker'.at = "provision" /\ worker'.target = worker.target
      /\ worker'.ssid \in {NoCamera, worker.target}
  <2> DEFINE m == Receive(worker.m, answer)
             ssid == IF answer = "identity" THEN replies[1].from ELSE worker.ssid
  <2>1. m \in Machine /\ ssid \in Some /\ ssid \in {NoCamera, worker.target}
    BY <1>1, <1>5, <1>6 DEF ReadsItsOwnCamera, Some
  <2>2. worker' = [worker EXCEPT !.m = m, !.ssid = ssid]
    BY <1>2
  <2> HIDE DEF m, ssid
  <2> QED
    BY <1>2, <1>6, <2>1, <2>2 DEF Worker
<1>8. worker.at \notin Resting /\ worker.at \notin Unsorted /\ worker'.at \notin Resting
  BY <1>2, <1>7 DEF Resting, Unsorted
<1>9. << >> \in Seq(Event) /\ events' = events \o << >> /\ \A i \in DOMAIN << >> : FALSE
  BY <1>1, <1>2, Quiet
<1> QED
  BY <1>2, <1>7, <1>8, <1>9, StepKeeps

LEMMA WaitsKeep ==
  ASSUME IInv, StepWaits \/ ResetWaits, UNCHANGED <<saved, half>>
  PROVE  IInv'
<1>1. TypeOK /\ ReadsItsOwnCamera
  BY DEF IInv
<1>2. /\ UNCHANGED <<screen, picked, shown, pending, search, outcome, clicks, events, worker>>
      /\ worker.at \in {"provision", "reset"} /\ Taken /\ EmptyAir
  BY PollTakes DEF StepWaits, ResetWaits, Work
<1>3. /\ worker' \in Worker /\ worker'.at = worker.at /\ worker'.target = worker.target
      /\ worker'.ssid \in {NoCamera, worker.target} /\ worker'.at # "password"
      /\ worker.at \notin Resting
  BY <1>1, <1>2 DEF TypeOK, ReadsItsOwnCamera, Resting
<1>4. << >> \in Seq(Event) /\ events' = events \o << >> /\ \A i \in DOMAIN << >> : FALSE
  BY <1>1, <1>2, Quiet
<1> QED
  BY <1>2, <1>3, <1>4, StepKeeps

LEMMA StepUnansweredKeeps ==
  ASSUME IInv, StepUnanswered, UNCHANGED <<saved, half>>
  PROVE  IInv'
<1>1. TypeOK /\ ReadsItsOwnCamera
  BY DEF IInv
<1>2. /\ UNCHANGED <<screen, picked, shown, pending, search, outcome, clicks,
                     cmds, events, link>>
      /\ worker.at = "provision"
      /\ worker' = [worker EXCEPT !.m = Receive(worker.m, "timeout")]
  BY DEF StepUnanswered, Work
<1>3. Receive(worker.m, "timeout") \in Machine /\ worker \in Worker
  BY <1>1, AnsweredType DEF TypeOK
<1>4. /\ worker' \in Worker /\ worker'.at = "provision" /\ worker'.target = worker.target
      /\ worker'.ssid \in {NoCamera, worker.target}
  <2> DEFINE m == Receive(worker.m, "timeout")
  <2>1. m \in Machine /\ worker' = [worker EXCEPT !.m = m]
    BY <1>2, <1>3
  <2> HIDE DEF m
  <2> QED
    BY <1>1, <1>2, <1>3, <2>1 DEF Worker, ReadsItsOwnCamera
<1>5. worker.at \notin Resting /\ worker.at \notin Unsorted /\ worker'.at \notin Resting /\ Taken
  BY <1>2, <1>4 DEF Resting, Unsorted, Taken
<1>6. << >> \in Seq(Event) /\ events' = events \o << >> /\ \A i \in DOMAIN << >> : FALSE
  BY <1>1, <1>2, Quiet
<1> QED
  BY <1>2, <1>4, <1>5, <1>6, StepKeeps

-----------------------------------------------------------------------------
LEMMA NextKeeps == IInv /\ [Next]_vars => IInv'
<1> SUFFICES ASSUME IInv, [Next]_vars
             PROVE  IInv'
  OBVIOUS
<1>1. CASE Operator
  BY <1>1, OperatorKeeps
<1>2. CASE Drain
  BY <1>2, DrainKeeps
<1>3. CASE \E found \in BOOLEAN : SearchAnswer(found)
  BY <1>3, SearchKeeps
<1>4. CASE \E c \in Cameras : \E kind \in Written(worker.at) : Notify(c, kind)
  BY <1>4, NotifyKeeps
<1>5. CASE Works
  BY <1>5, TakeCommandKeeps, ScanEndsKeeps, FailuresKeep,
     PinPollKeeps, ReadNameKeeps, ReadPasswordKeeps, WakeKeeps, SessionPollKeeps,
     SendStepKeeps, WaitsKeep, ProvisioningEndsKeeps, StepAnsweredKeeps
     DEF Works
<1>6. CASE Connects \/ Resets
  BY <1>6, ConnectKeeps, ConnectFailsKeeps, ResetAnsweredKeeps DEF Connects, Resets
<1>7. CASE Deadline
  BY <1>7, FailuresKeep, StepUnansweredKeeps DEF Deadline
<1>8. CASE UNCHANGED vars
  BY <1>8 DEF vars, ui, IInv, TypeOK, Named, NothingPaired, Linked, ReadsItsOwnCamera,
              OnlyHalfConnectsLeak
<1> QED
  BY <1>1, <1>2, <1>3, <1>4, <1>5, <1>6, <1>7, <1>8 DEF Next

LEMMA Invariance == Spec => []IInv
BY InitHolds, NextKeeps, PTL DEF Spec

(* Every variable of the connection screen, its two channels, the worker and *)
(* its link keeps its type, whatever the operator and the camera do.         *)
THEOREM TypeCorrect == Spec => []TypeOK
<1>1. IInv => TypeOK
  BY DEF IInv
<1> QED
  BY Invariance, <1>1, PTL

(* Credentials come from the camera that was paired, although the            *)
(* notification buffer outlives every connection: for any number of cameras, *)
(* attempts, presses and notifications left over.                            *)
THEOREM CredentialsAreOneCameras == Spec => []ReadsItsOwnCamera
<1>1. IInv => ReadsItsOwnCamera
  BY DEF IInv
<1> QED
  BY Invariance, <1>1, PTL

(* No exit of Pair, provision or reset leaves a peripheral or a stream, and   *)
(* no Bluetooth connection is left but by connects that fail halfway.        *)
THEOREM OnlyHalfConnects == Spec => []OnlyHalfConnectsLeak
<1>1. IInv => OnlyHalfConnectsLeak
  BY DEF IInv
<1> QED
  BY Invariance, <1>1, PTL

(* A step of the machine is one answer, and an answer ends it unconfirmed    *)
(* only at the last attempt.                                                 *)
LEMMA UnconfirmedNext ==
  ASSUME TypeOK, [Next]_vars,
         worker.m.state = "working", worker'.m.state = "done", ~worker'.m.confirmed
  PROVE  worker.m.attempt = Attempts
<1>1. worker \in Worker
  BY DEF TypeOK
<1>2. ASSUME NEW answer, worker'.m = Receive(worker.m, answer)
      PROVE  worker.m.attempt = Attempts
  BY <1>1, <1>2, AnsweredType DEF Follows
<1>3. Idle.m.state = "working" /\ \A at \in Places : [Idle EXCEPT !.at = at].m.state = "working"
  BY NewMachineType DEF Idle
<1>4. CASE Operator \/ Drain \/ UNCHANGED vars
  BY <1>4 DEF Operator, Pick, ScanAgain, CancelPairing, BrowsePhones, BackToCameras, HomeWifi,
     JoinHomeWifi, ResetStation, Choose, Click, Press, Drain, vars
<1>5. CASE \/ \E found \in BOOLEAN : SearchAnswer(found)
           \/ \E c \in Cameras : \E kind \in Written(worker.at) : Notify(c, kind)
  BY <1>5 DEF SearchAnswer, Notify
<1>6. CASE \/ WriteFails \/ ReadCancelled \/ Unanswered \/ ProvisioningEnds \/ ConnectFails
           \/ \E at \in {"pin", "session", "provision", "reset"} : Cancelled(at)
           \/ \E at \in {"pin", "ssid", "password"} : TimesOut(at)
           \/ \E result \in {"found", "none", "error"} : ScanEnds(result)
           \/ \E accepted \in BOOLEAN : ResetAnswered(accepted)
  <2>1. worker' = Idle
    BY <1>6 DEF WriteFails, ReadCancelled, Unanswered, ProvisioningEnds, ConnectFails,
                Cancelled, TimesOut, ScanEnds, ResetAnswered, End
  <2> QED
    BY <1>3, <2>1
<1>7. CASE TakeCommand
  <2>1. worker'.m.state = "working"
    BY <1>7, NewMachineType DEF TakeCommand, Idle
  <2> QED
    BY <2>1
<1>8. CASE Connect \/ PinPoll \/ ReadName \/ WakePoll \/ WakeEnds
           \/ StepWaits \/ ResetWaits
  <2>1. worker'.m = worker.m
    BY <1>1, <1>8 DEF Connect, PinPoll, ReadName, WakePoll, WakeEnds, ToTheName, StepWaits,
                 ResetWaits, Worker
  <2> QED
    BY <2>1
<1>9. CASE ReadPassword
  <2>1. worker' = Idle \/ worker' = worker
    BY <1>9 DEF ReadPassword, End
  <2> QED
    BY <1>3, <2>1
<1>10. CASE SessionPoll
  <2>1. \/ worker' = Idle
        \/ worker'.m = worker.m
        \/ worker'.m = NewMachine(BodyOf(worker.target))
    BY <1>1, <1>10 DEF SessionPoll, End, Worker
  <2> QED
    BY <1>3, <2>1, NewMachineType
<1>11. CASE SendStep
  <2>1. \/ worker'.m = Receive(worker.m, "sent")
        \/ worker'.m = [worker.m EXCEPT !.sent = TRUE]
    BY <1>1, <1>11 DEF SendStep, Worker
  <2>2. [worker.m EXCEPT !.sent = TRUE].state = worker.m.state
    BY <1>1 DEF Worker, Machine
  <2> QED
    BY <1>2, <2>1, <2>2
<1>12. CASE StepUnanswered \/ \E answer \in Answers(worker.m) : StepAnswered(answer)
  <2>1. PICK answer : StepUnanswered \/ StepAnswered(answer)
    BY <1>12
  <2>2. worker'.m = Receive(worker.m, "timeout") \/ worker'.m = Receive(worker.m, answer)
    BY <1>1, <2>1 DEF StepUnanswered, StepAnswered, Worker
  <2> QED
    BY <1>2, <2>2
<1> QED
  BY <1>4, <1>5, <1>6, <1>7, <1>8, <1>9, <1>10, <1>11, <1>12 
     DEF Next, Works, Connects, Resets, Deadline

(* The LAN search is asked about a join the camera never confirmed only      *)
(* after every attempt the policy allows.                                    *)
THEOREM UnconfirmedOnlyAfterEveryAttempt == Spec => UnconfirmedAfterEveryAttempt
<1>1. ASSUME TypeOK, [Next]_vars
      PROVE  [worker.m.state = "working" /\ worker'.m.state = "done" /\ ~worker'.m.confirmed
                => worker.m.attempt = Attempts]_vars
  BY <1>1, UnconfirmedNext
<1> QED
  BY TypeCorrect, <1>1, PTL DEF Spec, UnconfirmedAfterEveryAttempt

-----------------------------------------------------------------------------
(***************************************************************************)
(* What the worker is asked and what the operator is shown: for any number *)
(* of cameras, of presses and of notifications and events in flight.       *)
(*                                                                         *)
(* The operator clicks on what the last event shows (View).  The channels  *)
(* carry no attempt, so what keeps two attempts apart is that few orders   *)
(* wait ahead of a Cancel, and none when an operation on the operator's    *)
(* Wi-Fi is done.  They are few because an order costs the operator the    *)
(* view that offered it: a Load is the orders that wait, less the Cancels  *)
(* among them, and what may still offer one more, namely the view, the     *)
(* operation that runs and the search.  A press leaves the Load as it is   *)
(* or lowers it, a poll eats an order or finds none, and what adds to it   *)
(* (a refusal while nothing waits, a Cancel that only ends a phase) can do *)
(* so only when it is low.                                                 *)
(***************************************************************************)
Alive == outcome = "none" /\ worker.at # "stopped"

View == IF screen = "phones" \/ events = << >> THEN screen
        ELSE ScreenOf(events[Len(events)])

One(condition) == IF condition THEN 1 ELSE 0

(* h[i] is what the commands from i on weigh.                                *)
Weight(command) == IF command.do = "cancel" THEN -1 ELSE 1

Weighs(h, queue) ==
  /\ h \in [1 .. Len(queue) + 1 -> Int]
  /\ h[Len(queue) + 1] = 0
  /\ \A i \in 1 .. Len(queue) : h[i] = h[i + 1] + Weight(queue[i])

Offering == {"choose", "failed", "info", "wifiReady", "homeWifi", "phones"}

Offers == One(View \in Offering) + One(worker.at # "idle") + One(search # NoCamera)

(* The command that the worker takes next, if any, is a Cancel.              *)
Clear == cmds # << >> => cmds[1].do = "cancel"

HasCancel == \E i \in DOMAIN cmds : cmds[i].do = "cancel"

EndsInCancel == cmds # << >> /\ cmds[Len(cmds)].do = "cancel"

Unstarted == /\ worker.at = "provision" /\ worker.m.state = "working"
             /\ worker.m.step = "identity" /\ ~worker.m.sent

Begun == worker.at = "provision" /\ ~Unstarted

Apart(queue) ==
  \A i \in DOMAIN queue : i + 1 \in DOMAIN queue /\ queue[i].do = "cancel"
                            => queue[i + 1].do # "cancel"

(* A Cancel is sent with a scan behind it, or ends the queue while the phone *)
(* screen is shown.                                                          *)
Cancels == Alive =>
  /\ Apart(cmds)
  /\ EndsInCancel => screen = "phones"
  /\ screen = "phones" => \/ EndsInCancel
                          \/ cmds = << >> /\ worker.at \in {"idle", "ssid", "password"}

Low == worker.at \in {"ap", "password"} \/ Unstarted \/ (worker.at = "ssid" /\ Clear)

Covered(h) ==
  /\ Weighs(h, cmds)
  /\ \A i \in 1 .. Len(cmds) + 1 : h[i] + One(screen = "phones") >= 0

Balance(h) ==
  /\ Covered(h)
  /\ h[1] + Offers <= IF Low THEN 2 ELSE 3

Balanced == Alive => \E h : Balance(h)

(* In an operation the operator is shown its progress, or has asked to leave *)
(* it; once the first step of provisioning is sent no order waits.           *)
Followed == Alive =>
  /\ worker.at \in {"session", "provision", "reset"} =>
       \/ View \in {"pairing", "approval"}
       \/ View \in {"scanning", "phones"} /\ HasCancel
  /\ worker.at \in {"ap", "ssid", "password"} =>
       View \in {"pairing", "approval", "scanning", "phones"}
  /\ Begun => Clear

(* While the home Wi-Fi screen can be reached the worker does nothing else.  *)
Ready == Alive /\ View \in {"wifiReady", "homeWifi"} => worker.at = "idle" /\ Clear

(* A join that was asked for or that runs is the one pending; one that is    *)
(* asked for behind a Cancel will never be heard.                            *)
Asked(i) ==
  /\ worker.at = "idle"
  /\ \/ cmds[1].do = "cancel"
     \/ i = 1 /\ pending.model = cmds[1].camera /\ View \notin {"wifiReady", "homeWifi"}

Joins == Alive =>
  /\ \A i \in DOMAIN cmds : cmds[i].do = "station" => Asked(i)
  /\ worker.op = "station" /\ worker.at \in {"connect", "session", "provision"} =>
       pending.model = worker.target
  /\ worker.at = "session" => worker.op \in {"station", "reset"}
  /\ worker.at = "provision" => worker.op = "station"

(* A join that is done is the one pending and the last thing the worker did, *)
(* and so is the one that is searched for.                                   *)
Rests == worker.at = "idle" /\ cmds = << >>

Done(i) == /\ i = Len(events) /\ Rests /\ search = NoCamera
           /\ events[i].ssid \in {NoCamera, pending.model}

Searches == outcome = "none" =>
  /\ screen # "phones" =>
       \A i \in DOMAIN events : events[i].kind = "stationDone" => Done(i)
  /\ search # NoCamera =>
       /\ screen = "searching" /\ events = << >> /\ Rests
       /\ pending.model = search /\ pending.identity = search

Orderly == Cancels /\ Balanced /\ Followed /\ Ready /\ Joins /\ Searches
             /\ RemembersOneCamera

LEMMA Shorter ==
  ASSUME NEW S, NEW q \in Seq(S), q # << >>, NEW h, Weighs(h, q)
  PROVE  /\ Tail(q) \in Seq(S) /\ Len(Tail(q)) = Len(q) - 1 /\ Len(q) \in Nat
         /\ \A i \in 1 .. Len(q) - 1 : Tail(q)[i] = q[i + 1]
         /\ \E k : /\ Weighs(k, Tail(q))
                  /\ k[1] = h[1] - Weight(q[1])
                  /\ \A i \in 1 .. Len(q) : k[i] = h[i + 1]
<1> DEFINE t == Tail(q)
           k == [i \in 1 .. Len(q) |-> h[i + 1]]
<1>1. /\ t \in Seq(S) /\ Len(t) = Len(q) - 1 /\ Len(q) \in Nat /\ Len(q) >= 1
      /\ \A i \in 1 .. Len(t) : t[i] = q[i + 1]
  BY HeadTailProperties
<1>2. /\ h \in [1 .. Len(q) + 1 -> Int] /\ h[Len(q) + 1] = 0
      /\ \A i \in 1 .. Len(q) : h[i] = h[i + 1] + Weight(q[i])
      /\ \A i \in 1 .. Len(q) : Weight(q[i]) \in Int
  BY DEF Weighs, Weight
<1> HIDE DEF t
<1>3. k \in [1 .. Len(q) -> Int] /\ \A i \in 1 .. Len(q) : k[i] = h[i + 1]
  BY <1>1, <1>2
<1> HIDE DEF k
<1>4. k[Len(t) + 1] = 0
  BY <1>1, <1>2, <1>3
<1>5. \A i \in 1 .. Len(t) : k[i] = k[i + 1] + Weight(t[i])
  <2> TAKE i \in 1 .. Len(t)
  <2>1. i + 1 \in 1 .. Len(q) /\ i \in 1 .. Len(q)
    BY <1>1
  <2>2. h[i + 1] = h[(i + 1) + 1] + Weight(q[i + 1])
    BY <1>2, <2>1
  <2>3. k[i] = h[i + 1] /\ k[i + 1] = h[(i + 1) + 1] /\ t[i] = q[i + 1]
    BY <1>1, <1>3, <2>1
  <2> QED
    BY <2>2, <2>3
<1>6. k[1] = h[1] - Weight(q[1])
  <2>1. h[1] = h[2] + Weight(q[1]) /\ h[2] \in Int /\ Weight(q[1]) \in Int
    BY <1>1, <1>2
  <2>2. k[1] = h[2]
    BY <1>1, <1>3
  <2> QED
    BY <2>1, <2>2
<1>7. Weighs(k, t)
  BY <1>1, <1>3, <1>4, <1>5 DEF Weighs
<1> QED
  BY <1>1, <1>3, <1>6, <1>7 DEF t

LEMMA Longer ==
  ASSUME NEW S, NEW q \in Seq(S), NEW command \in S, NEW h, Weighs(h, q)
  PROVE  /\ q \o <<command>> \in Seq(S) /\ Len(q \o <<command>>) = Len(q) + 1
         /\ Len(q) \in Nat
         /\ \A i \in 1 .. Len(q) : (q \o <<command>>)[i] = q[i]
         /\ (q \o <<command>>)[Len(q) + 1] = command
         /\ \E k : /\ Weighs(k, q \o <<command>>)
                  /\ k[Len(q) + 2] = 0
                  /\ \A i \in 1 .. Len(q) + 1 : k[i] = h[i] + Weight(command)
<1> DEFINE t == q \o <<command>>
           k == [i \in 1 .. Len(q) + 2 |->
                   IF i = Len(q) + 2 THEN 0 ELSE h[i] + Weight(command)]
<1>1. /\ t \in Seq(S) /\ Len(t) = Len(q) + 1 /\ Len(q) \in Nat
      /\ \A i \in 1 .. Len(q) : t[i] = q[i]
      /\ t[Len(q) + 1] = command
  OBVIOUS
<1>2. /\ h \in [1 .. Len(q) + 1 -> Int] /\ h[Len(q) + 1] = 0
      /\ \A i \in 1 .. Len(q) : h[i] = h[i + 1] + Weight(q[i])
      /\ Weight(command) \in Int /\ \A i \in 1 .. Len(q) : Weight(q[i]) \in Int
  BY DEF Weighs, Weight
<1> HIDE DEF t
<1>3. /\ k \in [1 .. Len(q) + 2 -> Int]
      /\ k[Len(q) + 2] = 0 /\ \A i \in 1 .. Len(q) + 1 : k[i] = h[i] + Weight(command)
  BY <1>1, <1>2
<1> HIDE DEF k
<1>4. \A i \in 1 .. Len(t) : k[i] = k[i + 1] + Weight(t[i])
  <2> TAKE i \in 1 .. Len(t)
  <2>1. CASE i = Len(q) + 1
    <3>1. k[i] = h[Len(q) + 1] + Weight(command) /\ k[i + 1] = 0 /\ t[i] = command
      BY <1>1, <1>3, <2>1
    <3> QED
      BY <1>2, <3>1
  <2>2. CASE i \in 1 .. Len(q)
    <3>1. k[i] = h[i] + Weight(command) /\ k[i + 1] = h[i + 1] + Weight(command)
      BY <1>1, <1>3, <2>2
    <3>2. h[i] = h[i + 1] + Weight(q[i]) /\ t[i] = q[i]
      BY <1>1, <1>2, <2>2
    <3>3. h[i + 1] \in Int /\ Weight(q[i]) \in Int /\ Weight(command) \in Int
      BY <1>1, <1>2, <2>2
    <3> QED
      BY <3>1, <3>2, <3>3
  <2> QED
    BY <1>1, <2>1, <2>2
<1>5. Weighs(k, t)
  BY <1>1, <1>3, <1>4 DEF Weighs
<1> QED
  BY <1>1, <1>3, <1>5 DEF t

(* A command taken from the queue, or put behind it, leaves the others and   *)
(* the order of the Cancels.                                                 *)
LEMMA Taking ==
  ASSUME cmds \in Seq(Command), cmds # << >>, cmds' = Tail(cmds)
  PROVE  /\ cmds[1] = Head(cmds) /\ 1 \in DOMAIN cmds
         /\ \A i \in DOMAIN cmds' : i + 1 \in DOMAIN cmds /\ cmds'[i] = cmds[i + 1]
         /\ Apart(cmds) => Apart(cmds')
         /\ Apart(cmds) /\ cmds[1].do = "cancel" /\ Clear' => cmds' = << >>
         /\ cmds' # << >> => (EndsInCancel' <=> EndsInCancel)
         /\ cmds' = << >> => (EndsInCancel <=> cmds[1].do = "cancel")
         /\ cmds[1].do # "cancel" => (HasCancel' <=> HasCancel)
<1>1. /\ cmds' \in Seq(Command) /\ Len(cmds') = Len(cmds) - 1 /\ Len(cmds) \in Nat
      /\ Len(cmds) >= 1 /\ Head(cmds) = cmds[1]
      /\ \A i \in 1 .. Len(cmds) - 1 : cmds'[i] = cmds[i + 1]
  BY HeadTailProperties
<1>2. DOMAIN cmds = 1 .. Len(cmds) /\ DOMAIN cmds' = 1 .. Len(cmds) - 1
  BY <1>1
<1>3. \A i \in DOMAIN cmds' : i + 1 \in DOMAIN cmds /\ cmds'[i] = cmds[i + 1]
  BY <1>1, <1>2
<1>4. Apart(cmds) => Apart(cmds')
  BY <1>1, <1>2, <1>3 DEF Apart
<1>5. cmds' = << >> <=> Len(cmds) = 1
  <2>1. \A s \in Seq(Command) : s = << >> <=> Len(s) = 0
    OBVIOUS
  <2>2. cmds' = << >> <=> Len(cmds') = 0
    BY <1>1, <2>1, Zenon
  <2> QED
    BY <1>1, <2>2
<1>6. Apart(cmds) /\ cmds[1].do = "cancel" /\ Clear' => cmds' = << >>
  <2> SUFFICES ASSUME Apart(cmds), cmds[1].do = "cancel", cmds' # << >>
               PROVE  cmds'[1].do # "cancel"
    BY DEF Clear
  <2>1. 1 \in DOMAIN cmds' /\ 1 \in DOMAIN cmds
    BY <1>1, <1>2, <1>5
  <2> QED
    BY <1>3, <2>1 DEF Apart
<1>7. cmds' # << >> => (EndsInCancel' <=> EndsInCancel)
  <2> SUFFICES ASSUME cmds' # << >>
               PROVE  cmds'[Len(cmds')] = cmds[Len(cmds)]
    BY DEF EndsInCancel
  <2>1. Len(cmds') \in DOMAIN cmds' /\ Len(cmds') + 1 = Len(cmds)
    BY <1>1, <1>2, <1>5
  <2> QED
    BY <1>3, <2>1
<1>8. cmds' = << >> => (EndsInCancel <=> cmds[1].do = "cancel")
  BY <1>5 DEF EndsInCancel
<1>9. cmds[1].do # "cancel" => (HasCancel' <=> HasCancel)
  <2> HAVE cmds[1].do # "cancel"
  <2>1. ASSUME NEW i \in DOMAIN cmds, cmds[i].do = "cancel"
        PROVE  HasCancel'
    <3>1. i - 1 \in DOMAIN cmds' /\ (i - 1) + 1 = i
      BY <1>1, <1>2, <2>1
    <3>2. cmds'[i - 1] = cmds[i]
      BY <1>3, <3>1
    <3>3. cmds'[i - 1].do = "cancel"
      BY <2>1, <3>2
    <3> QED
      BY <3>1, <3>3 DEF HasCancel
  <2> QED
    BY <1>3, <2>1 DEF HasCancel
<1> QED
  BY <1>1, <1>2, <1>3, <1>4, <1>6, <1>7, <1>8, <1>9

LEMMA Putting ==
  ASSUME cmds \in Seq(Command), NEW command \in Command, cmds' = cmds \o <<command>>
  PROVE  /\ Len(cmds) \in Nat /\ DOMAIN cmds = 1 .. Len(cmds)
         /\ DOMAIN cmds' = 1 .. Len(cmds) + 1 /\ Len(cmds') = Len(cmds) + 1
         /\ \A i \in DOMAIN cmds : cmds'[i] = cmds[i]
         /\ cmds'[Len(cmds) + 1] = command
         /\ cmds # << >> => cmds'[1] = cmds[1]
         /\ cmds = << >> => cmds'[1] = command /\ Len(cmds) = 0
         /\ cmds' # << >>
         /\ Apart(cmds) /\ ~(EndsInCancel /\ command.do = "cancel") => Apart(cmds')
         /\ EndsInCancel' <=> command.do = "cancel"
         /\ HasCancel => HasCancel' /\ cmds # << >>
         /\ command.do = "cancel" => HasCancel'
         /\ Clear' => Clear
         /\ Clear /\ (cmds = << >> => command.do = "cancel") => Clear'
<1>1. /\ Len(cmds) \in Nat /\ DOMAIN cmds = 1 .. Len(cmds)
      /\ DOMAIN cmds' = 1 .. Len(cmds) + 1 /\ Len(cmds') = Len(cmds) + 1
      /\ \A i \in DOMAIN cmds : cmds'[i] = cmds[i]
      /\ cmds'[Len(cmds) + 1] = command
  OBVIOUS
<1>2. /\ cmds # << >> => cmds'[1] = cmds[1]
      /\ cmds = << >> => cmds'[1] = command /\ Len(cmds) = 0
      /\ cmds' # << >>
  OBVIOUS
<1>3. Apart(cmds) /\ ~(EndsInCancel /\ command.do = "cancel") => Apart(cmds')
  <2> SUFFICES ASSUME Apart(cmds), ~(EndsInCancel /\ command.do = "cancel"),
                      NEW i \in DOMAIN cmds', i + 1 \in DOMAIN cmds', cmds'[i].do = "cancel"
               PROVE  cmds'[i + 1].do # "cancel"
    BY DEF Apart
  <2>1. CASE i = Len(cmds)
    <3>1. i \in DOMAIN cmds /\ cmds # << >>
      BY <1>1, <2>1
    <3> QED
      BY <1>1, <2>1, <3>1 DEF EndsInCancel
  <2>2. CASE i # Len(cmds)
    <3>1. i \in DOMAIN cmds /\ i + 1 \in DOMAIN cmds
      BY <1>1, <2>2
    <3> QED
      BY <1>1, <3>1 DEF Apart
  <2> QED
    BY <2>1, <2>2
<1>4. EndsInCancel' <=> command.do = "cancel"
  <2>1. cmds' # << >> /\ cmds'[Len(cmds')] = command
    BY <1>1, <1>2
  <2> QED
    BY <2>1 DEF EndsInCancel
<1>5. /\ HasCancel => HasCancel' /\ cmds # << >>
      /\ command.do = "cancel" => HasCancel'
  BY <1>1 DEF HasCancel
<1>6. /\ Clear' => Clear
      /\ Clear /\ (cmds = << >> => command.do = "cancel") => Clear'
  BY <1>2 DEF Clear
<1> QED
  BY <1>1, <1>2, <1>3, <1>4, <1>5, <1>6


LEMMA CoveredTaking ==
  ASSUME cmds \in Seq(Command), cmds # << >>, cmds' = Tail(cmds), UNCHANGED screen,
         NEW h, Covered(h)
  PROVE  /\ h[1] \in Int /\ h[1] + One(screen = "phones") >= 0
         /\ \E k : Covered(k)' /\ k[1] \in Int /\ k[1] = h[1] - Weight(cmds[1])
<1>1. \A q \in Seq(Command) : q # << >> => \A g : Weighs(g, q) =>
         /\ Len(Tail(q)) = Len(q) - 1
         /\ \E k : /\ Weighs(k, Tail(q)) /\ k[1] = g[1] - Weight(q[1])
                  /\ \A i \in 1 .. Len(q) : k[i] = g[i + 1]
  BY Shorter
<1>2. PICK k : /\ Weighs(k, cmds') /\ k[1] = h[1] - Weight(cmds[1])
               /\ \A i \in 1 .. Len(cmds) : k[i] = h[i + 1]
  BY <1>1 DEF Covered
<1>3. Len(cmds') = Len(cmds) - 1 /\ Len(cmds) \in Nat
  BY <1>1 DEF Covered
<1>4. ASSUME NEW i \in 1 .. Len(cmds') + 1
      PROVE  k[i] + One(screen' = "phones") >= 0
  <2>1. i \in 1 .. Len(cmds) /\ i + 1 \in 1 .. Len(cmds) + 1
    BY <1>3
  <2> QED
    BY <1>2, <2>1 DEF Covered
<1>5. /\ h[1] \in Int /\ h[1] + One(screen = "phones") >= 0
      /\ k[1] \in Int
  <2>1. 1 \in 1 .. Len(cmds) + 1 /\ 1 \in 1 .. Len(cmds') + 1
    BY <1>3
  <2> QED
    BY <1>2, <2>1 DEF Covered, Weighs
<1> QED
  BY <1>2, <1>4, <1>5 DEF Covered

(* What a queue weighs that is empty, and the least one does that begins     *)
(* with an order, or with two.                                               *)
LEMMA CoveredHeads ==
  ASSUME cmds \in Seq(Command), NEW h, Covered(h)
  PROVE  /\ h[1] \in Int
         /\ cmds = << >> => h[1] = 0
         /\ ~Clear => h[1] + One(screen = "phones") >= 1
         /\ ~Clear /\ 2 \in DOMAIN cmds /\ cmds[2].do # "cancel"
              => h[1] + One(screen = "phones") >= 2
<1>1. /\ Len(cmds) \in Nat /\ DOMAIN cmds = 1 .. Len(cmds)
      /\ cmds = << >> <=> Len(cmds) = 0
  OBVIOUS
<1>2. /\ h \in [1 .. Len(cmds) + 1 -> Int] /\ h[Len(cmds) + 1] = 0
      /\ \A i \in 1 .. Len(cmds) : h[i] = h[i + 1] + Weight(cmds[i])
      /\ \A i \in 1 .. Len(cmds) + 1 : h[i] \in Int /\ h[i] + One(screen = "phones") >= 0
  BY DEF Covered, Weighs
<1>3. One(screen = "phones") \in {0, 1}
  BY DEF One
<1>4. ~Clear => 1 \in 1 .. Len(cmds) /\ 2 \in 1 .. Len(cmds) + 1 /\ h[1] = h[2] + 1
  <2> HAVE ~Clear
  <2>1. 1 \in 1 .. Len(cmds) /\ 2 \in 1 .. Len(cmds) + 1 /\ Weight(cmds[1]) = 1
    BY <1>1 DEF Clear, Weight
  <2> QED
    BY <1>2, <2>1
<1>5. 2 \in DOMAIN cmds /\ cmds[2].do # "cancel" =>
        3 \in 1 .. Len(cmds) + 1 /\ h[2] = h[3] + 1
  <2> HAVE 2 \in DOMAIN cmds /\ cmds[2].do # "cancel"
  <2>1. 3 \in 1 .. Len(cmds) + 1 /\ Weight(cmds[2]) = 1
    BY <1>1 DEF Weight
  <2> QED
    BY <1>1, <1>2, <2>1
<1>6. 1 \in 1 .. Len(cmds) + 1
  BY <1>1
<1> QED
  BY <1>1, <1>2, <1>3, <1>4, <1>5, <1>6

LEMMA CoveredPutting ==
  ASSUME cmds \in Seq(Command), NEW command \in Command, cmds' = cmds \o <<command>>,
         NEW h, Covered(h),
         Weight(command) + One(screen' = "phones") >= One(screen = "phones")
  PROVE  \E k : Covered(k)' /\ k[1] \in Int /\ k[1] = h[1] + Weight(command)
<1>1. \A q \in Seq(Command) : \A g : Weighs(g, q) =>
         /\ Len(q \o <<command>>) = Len(q) + 1
         /\ \E k : /\ Weighs(k, q \o <<command>>) /\ k[Len(q) + 2] = 0
                  /\ \A i \in 1 .. Len(q) + 1 : k[i] = g[i] + Weight(command)
  BY Longer
<1>2. PICK k : /\ Weighs(k, cmds') /\ k[Len(cmds) + 2] = 0
               /\ \A i \in 1 .. Len(cmds) + 1 : k[i] = h[i] + Weight(command)
  BY <1>1 DEF Covered
<1>3. Len(cmds') = Len(cmds) + 1 /\ Len(cmds) \in Nat
  BY <1>1 DEF Covered
<1>4. /\ One(screen = "phones") \in {0, 1} /\ One(screen' = "phones") \in {0, 1}
      /\ Weight(command) \in {-1, 1}
  BY DEF One, Weight
<1>5. ASSUME NEW i \in 1 .. Len(cmds') + 1
      PROVE  k[i] + One(screen' = "phones") >= 0
  <2>1. CASE i = Len(cmds) + 2
    BY <1>2, <1>4, <2>1
  <2>2. CASE i \in 1 .. Len(cmds) + 1
    <3>1. /\ k[i] = h[i] + Weight(command) /\ h[i] \in Int
          /\ h[i] + One(screen = "phones") >= 0
      BY <1>2, <2>2 DEF Covered, Weighs
    <3> QED
      BY <1>4, <3>1
  <2> QED
    BY <1>3, <2>1, <2>2
<1>6. k[1] \in Int /\ k[1] = h[1] + Weight(command)
  <2>1. 1 \in 1 .. Len(cmds) + 1 /\ 1 \in 1 .. Len(cmds') + 1
    BY <1>3
  <2> QED
    BY <1>2, <2>1 DEF Weighs
<1> QED
  BY <1>2, <1>5, <1>6 DEF Covered

-----------------------------------------------------------------------------
(***************************************************************************)
(* A press.                                                                *)
(***************************************************************************)

(* Once nobody looks any more there is nothing to keep.                      *)
LEMMA Over ==
  ASSUME outcome' # "none", RemembersOneCamera'
  PROVE  Orderly'
BY DEF Orderly, Cancels, Balanced, Followed, Ready, Joins, Searches, Alive

(* What is sent to a worker that has stopped is read by nobody.              *)
LEMMA Lost ==
  ASSUME Orderly, worker.at = "stopped", outcome = "none",
         UNCHANGED <<search, worker, events, saved, outcome>>,
         screen' = "phones" \/ screen # "phones" \/ events = << >>
  PROVE  Orderly'
<1>1. search = NoCamera
  BY DEF Orderly, Searches, Rests
<1>2. screen # "phones" => \A i \in DOMAIN events : events[i].kind # "stationDone"
  BY DEF Orderly, Searches, Done, Rests
<1>3. Searches'
  BY <1>1, <1>2 DEF Searches
<1>4. ~Alive'
  BY DEF Alive
<1> QED
  BY <1>3, <1>4 DEF Orderly, Cancels, Balanced, Followed, Ready, Joins, RemembersOneCamera

(* The operator clicks on what is shown, with no event waiting.              *)
LEMMA Clicked ==
  ASSUME events = << >>, UNCHANGED events
  PROVE  View = screen /\ View' = screen'
BY DEF View

LEMMA OffersAre ==
  /\ Offers \in Int
  /\ Offers = One(View \in Offering) + One(worker.at # "idle") + One(search # NoCamera)
  /\ One(View \in Offering) \in {0, 1} /\ One(worker.at # "idle") \in {0, 1}
  /\ One(search # NoCamera) \in {0, 1}
BY DEF Offers, One

(* An order behind the others costs the view that offered it.                *)
LEMMA OrderKeeps ==
  ASSUME IInv, Orderly, Alive, NEW command \in Command, command.do # "cancel",
         cmds' = cmds \o <<command>>, events = << >>,
         UNCHANGED <<events, worker, search, saved, outcome>>,
         screen \in Offering, screen' \in {"pairing", "scanning"},
         screen = "phones" => screen' = "scanning",
         \/ UNCHANGED pending /\ command.do # "station"
         \/ /\ screen = "homeWifi" /\ command.do = "station"
            /\ pending'.model = command.camera
  PROVE  Orderly'
<1>1. /\ cmds \in Seq(Command) /\ outcome = "none"
      /\ View = screen /\ View' = screen'
      /\ screen' # "phones" /\ screen' \notin Offering
  BY Clicked DEF IInv, TypeOK, Alive, Offering
<1>2. search = NoCamera
  BY <1>1 DEF Orderly, Searches, Offering
<1>3. /\ Apart(cmds) => Apart(cmds')
      /\ ~EndsInCancel'
      /\ HasCancel => HasCancel'
      /\ Clear' => Clear
      /\ Clear /\ cmds # << >> => Clear'
      /\ cmds # << >> => cmds'[1] = cmds[1]
      /\ cmds = << >> => cmds'[1] = command /\ Len(cmds) = 0
      /\ DOMAIN cmds' = 1 .. Len(cmds) + 1 /\ Len(cmds) \in Nat
      /\ DOMAIN cmds = 1 .. Len(cmds)
      /\ \A i \in DOMAIN cmds : cmds'[i] = cmds[i]
      /\ cmds'[Len(cmds) + 1] = command
      /\ HasCancel => cmds # << >>
  BY <1>1, Putting
<1>4. Cancels'
  BY <1>1, <1>3 DEF Orderly, Cancels
<1>5. Balanced'
  <2>1. PICK h : Balance(h)
    BY DEF Orderly, Balanced
  <2>2. /\ Weight(command) = 1
        /\ Weight(command) + One(screen' = "phones") >= One(screen = "phones")
    BY <1>1 DEF Weight, One
  <2>3. PICK k : Covered(k)' /\ k[1] \in Int /\ k[1] = h[1] + 1
    BY <1>1, <2>1, <2>2, CoveredPutting DEF Balance
  <2>4. h[1] \in Int
    BY <1>1, <2>1, CoveredHeads DEF Balance
  <2>5. Low' => Low
    BY <1>3 DEF Low, Unstarted
  <2>6. Offers' = Offers - 1 /\ Offers \in Int
    BY <1>1 DEF Offers, One
  <2> QED
    BY <2>1, <2>3, <2>4, <2>5, <2>6 DEF Balance, Balanced
<1>6. Followed'
  <2>1. /\ worker.at \in {"session", "provision", "reset"} => screen = "phones" /\ HasCancel
        /\ Begun => Clear
    BY <1>1 DEF Orderly, Followed, Offering
  <2>2. Begun' => Begun /\ worker.at = "provision"
    BY DEF Begun, Unstarted
  <2>3. Begun' => Clear'
    BY <1>3, <2>1, <2>2
  <2> QED
    BY <1>1, <1>3, <2>1, <2>3 DEF Followed
<1>7. Ready'
  BY <1>1 DEF Ready
<1>8. Joins'
  <2>1. ASSUME NEW i \in DOMAIN cmds', cmds'[i].do = "station"
        PROVE  Asked(i)'
    <3>1. CASE i \in DOMAIN cmds
      <4>1. Asked(i) /\ cmds'[1] = cmds[1]
        BY <1>3, <2>1, <3>1 DEF Orderly, Joins
      <4>2. UNCHANGED pending \/ cmds[1].do = "cancel"
        <5>1. CASE screen = "homeWifi"
          BY <1>1, <1>3, <3>1, <5>1 DEF Orderly, Ready, Clear
        <5> QED
          BY <5>1
      <4> QED
        BY <1>1, <4>1, <4>2 DEF Asked
    <3>2. CASE i \notin DOMAIN cmds
      <4>1. i = Len(cmds) + 1 /\ screen = "homeWifi" /\ pending'.model = command.camera
        BY <1>3, <2>1, <3>2
      <4>2. worker.at = "idle" /\ Clear
        BY <1>1, <4>1 DEF Orderly, Ready
      <4>3. CASE cmds = << >>
        BY <1>1, <1>3, <4>1, <4>2, <4>3 DEF Asked
      <4>4. CASE cmds # << >>
        BY <1>3, <4>2, <4>4 DEF Asked, Clear
      <4> QED
        BY <4>3, <4>4
    <3> QED
      BY <3>1, <3>2
  <2>2. worker.at \in {"connect", "session", "provision"} => UNCHANGED pending
    BY <1>1 DEF Orderly, Ready
  <2> QED
    BY <2>1, <2>2 DEF Orderly, Joins, Alive
<1>9. Searches'
  BY <1>2 DEF Searches
<1>10. RemembersOneCamera'
  BY DEF Orderly, RemembersOneCamera
<1> QED
  BY <1>4, <1>5, <1>6, <1>7, <1>8, <1>9, <1>10 DEF Orderly

(* The phone screen costs the scanner a Cancel, and offers the way back: the *)
(* worker's last events are dropped.                                         *)
LEMMA BrowseKeeps ==
  ASSUME IInv, Orderly, Alive, NEW command \in Command, command.do = "cancel",
         cmds' = cmds \o <<command>>,
         UNCHANGED <<events, worker, search, saved, outcome, pending>>,
         screen \in {"scanning", "choose", "failed"}, screen' = "phones"
  PROVE  Orderly'
<1>1. /\ cmds \in Seq(Command) /\ outcome = "none"
      /\ View' = "phones" /\ screen # "phones"
  BY DEF IInv, TypeOK, Alive, View
<1>2. search = NoCamera
  BY <1>1 DEF Orderly, Searches
<1>3. Apart(cmds) /\ ~EndsInCancel
  BY <1>1 DEF Orderly, Cancels
<1>4. /\ Apart(cmds') /\ EndsInCancel' /\ HasCancel'
      /\ Clear' => Clear
      /\ Clear => Clear'
      /\ cmds # << >> => cmds'[1] = cmds[1]
      /\ DOMAIN cmds' = 1 .. Len(cmds) + 1 /\ Len(cmds) \in Nat
      /\ DOMAIN cmds = 1 .. Len(cmds)
      /\ \A i \in DOMAIN cmds : cmds'[i] = cmds[i]
      /\ cmds'[Len(cmds) + 1] = command
  BY <1>1, <1>3, Putting
<1>5. Cancels'
  BY <1>4 DEF Cancels
<1>6. Balanced'
  <2>1. PICK h : Balance(h)
    BY DEF Orderly, Balanced
  <2>2. /\ Weight(command) = -1
        /\ Weight(command) + One(screen' = "phones") >= One(screen = "phones")
    BY <1>1 DEF Weight, One
  <2>3. PICK k : Covered(k)' /\ k[1] \in Int /\ k[1] = h[1] + Weight(command)
    BY <1>1, <2>1, <2>2, CoveredPutting DEF Balance
  <2>4. h[1] \in Int /\ k[1] = h[1] - 1
    BY <1>1, <2>1, <2>2, <2>3, CoveredHeads DEF Balance
  <2>5. Low' => Low
    BY <1>4 DEF Low, Unstarted
  <2>6. Offers' <= Offers + 1 /\ Offers \in Int /\ Offers' \in Int
    BY <1>1 DEF Offers, One, Offering
  <2> QED
    BY <2>1, <2>3, <2>4, <2>5, <2>6 DEF Balance, Balanced
<1>7. Followed'
  <2>1. Begun' => Begun
    BY DEF Begun, Unstarted
  <2>2. Begun' => Clear'
    BY <1>4, <2>1 DEF Orderly, Followed
  <2> QED
    BY <1>1, <1>4, <2>2 DEF Followed
<1>8. Ready'
  BY <1>1 DEF Ready
<1>9. Joins'
  <2>1. ASSUME NEW i \in DOMAIN cmds', cmds'[i].do = "station"
        PROVE  Asked(i)'
    <3>1. i \in DOMAIN cmds /\ cmds[i].do = "station" /\ cmds # << >>
      BY <1>4, <2>1
    <3>2. Asked(i) /\ cmds'[1] = cmds[1]
      BY <1>4, <3>1 DEF Orderly, Joins
    <3> QED
      BY <1>1, <3>2 DEF Asked
  <2> QED
    BY <2>1 DEF Orderly, Joins, Alive
<1>10. Searches'
  BY <1>2 DEF Searches
<1>11. RemembersOneCamera'
  BY DEF Orderly, RemembersOneCamera
<1> QED
  BY <1>5, <1>6, <1>7, <1>8, <1>9, <1>10, <1>11 DEF Orderly

(* Cancel, with a scan behind it.                                            *)
LEMMA LeaveKeeps ==
  ASSUME IInv, Orderly, Alive, NEW cancel \in Command, cancel.do = "cancel",
         NEW scan \in Command, scan.do = "scan",
         cmds' = cmds \o <<cancel, scan>>, events = << >>,
         UNCHANGED <<events, worker, search, saved, outcome, pending>>,
         screen \in {"pairing", "approval"}, screen' = "scanning"
  PROVE  Orderly'
<1>1. /\ cmds \in Seq(Command) /\ outcome = "none"
      /\ View = screen /\ View' = "scanning" /\ screen # "phones" /\ screen' # "phones"
  BY Clicked DEF IInv, TypeOK, Alive
<1>2. search = NoCamera
  BY <1>1 DEF Orderly, Searches
<1>3. Apart(cmds) /\ ~EndsInCancel
  BY <1>1 DEF Orderly, Cancels
<1>4. /\ Len(cmds) \in Nat /\ DOMAIN cmds = 1 .. Len(cmds)
      /\ Len(cmds') = Len(cmds) + 2 /\ DOMAIN cmds' = 1 .. Len(cmds) + 2
      /\ \A i \in DOMAIN cmds : cmds'[i] = cmds[i]
      /\ cmds'[Len(cmds) + 1] = cancel /\ cmds'[Len(cmds) + 2] = scan
      /\ cmds' # << >> /\ (cmds = << >> => cmds'[1] = cancel)
      /\ cmds # << >> => cmds'[1] = cmds[1]
  BY <1>1
<1>5. HasCancel' /\ (Clear' <=> Clear)
  <2>1. Len(cmds) + 1 \in DOMAIN cmds'
    BY <1>4
  <2> QED
    BY <1>4, <2>1 DEF HasCancel, Clear
<1>6. Cancels'
  <2>1. ~EndsInCancel'
    BY <1>4 DEF EndsInCancel
  <2>2. ASSUME NEW i \in DOMAIN cmds', i + 1 \in DOMAIN cmds', cmds'[i].do = "cancel"
        PROVE  cmds'[i + 1].do # "cancel"
    <3>1. CASE i = Len(cmds) + 1
      BY <1>4, <3>1
    <3>2. CASE i = Len(cmds)
      <4>1. i \in DOMAIN cmds /\ cmds # << >>
        BY <1>4, <3>2
      <4> QED
        BY <1>3, <1>4, <2>2, <3>2, <4>1 DEF EndsInCancel
    <3>3. CASE i + 1 \in DOMAIN cmds
      <4>1. i \in DOMAIN cmds
        BY <1>4, <3>3
      <4> QED
        BY <1>3, <1>4, <2>2, <3>3, <4>1 DEF Apart
    <3> QED
      BY <1>4, <2>2, <3>1, <3>2, <3>3
  <2> QED
    BY <1>1, <2>1, <2>2 DEF Cancels, Apart
<1>7. Balanced'
  <2>1. PICK h : Balance(h)
    BY DEF Orderly, Balanced
  <2> DEFINE n == Len(cmds)
             k == [i \in 1 .. n + 3 |->
                     IF i = n + 3 THEN 0 ELSE IF i = n + 2 THEN 1 ELSE h[i]]
  <2>7. /\ \A i \in 1 .. n + 1 : h[i] \in Int /\ h[i] >= 0
        /\ \A i \in 1 .. n : h[i] = h[i + 1] + Weight(cmds[i])
        /\ h[n + 1] = 0 /\ n \in Nat /\ Len(cmds') = n + 2
        /\ h[1] + Offers <= IF Low THEN 2 ELSE 3
    <3>1. One(screen = "phones") = 0
      BY <1>1 DEF One
    <3>2. /\ h \in [1 .. n + 1 -> Int] /\ h[n + 1] = 0
          /\ \A i \in 1 .. n : h[i] = h[i + 1] + Weight(cmds[i])
          /\ \A i \in 1 .. n + 1 : h[i] + 0 >= 0
          /\ h[1] + Offers <= IF Low THEN 2 ELSE 3
      BY <2>1, <3>1 DEF Balance, Covered, Weighs
    <3> QED
      BY <1>4, <3>2
  <2>8. /\ k \in [1 .. n + 3 -> Int]
        /\ \A i \in 1 .. n + 1 : k[i] = h[i]
        /\ k[n + 2] = 1 /\ k[n + 3] = 0
    BY <2>7
  <2> HIDE DEF k
  <2>9. Weighs(k, cmds')
    <3>1. Weight(cancel) = -1 /\ Weight(scan) = 1
      BY DEF Weight
    <3>2. ASSUME NEW i \in 1 .. n + 2
          PROVE  k[i] = k[i + 1] + Weight(cmds'[i])
      <4>1. CASE i \in 1 .. n
        <5>1. i \in DOMAIN cmds /\ i \in 1 .. n + 1 /\ i + 1 \in 1 .. n + 1
          BY <1>4, <2>7, <4>1
        <5> QED
          BY <1>4, <2>7, <2>8, <4>1, <5>1
      <4>2. CASE i = n + 1
        <5>1. k[i] = 0 /\ k[i + 1] = 1 /\ cmds'[i] = cancel
          BY <1>4, <2>7, <2>8, <4>2
        <5> QED
          BY <3>1, <5>1
      <4>3. CASE i = n + 2
        <5>1. k[i] = 1 /\ k[i + 1] = 0 /\ cmds'[i] = scan
          BY <1>4, <2>7, <2>8, <4>3
        <5> QED
          BY <3>1, <5>1
      <4> QED
        BY <2>7, <4>1, <4>2, <4>3
    <3>3. Len(cmds') + 1 = n + 3
      BY <2>7
    <3> QED
      BY <2>7, <2>8, <3>2, <3>3 DEF Weighs
  <2>10. ASSUME NEW i \in 1 .. Len(cmds') + 1
         PROVE  k[i] + One(screen' = "phones") >= 0
    <3>1. i \in 1 .. n + 1 \/ i = n + 2 \/ i = n + 3
      BY <2>7
    <3> QED
      BY <1>1, <2>7, <2>8, <3>1 DEF One
  <2>11. k[1] = h[1]
    BY <2>7, <2>8
  <2>12. Offers' = Offers
    BY <1>1 DEF Offers, Offering
  <2>13. Low' <=> Low
    BY <1>5 DEF Low, Unstarted
  <2> QED
    BY <2>7, <2>9, <2>10, <2>11, <2>12, <2>13 DEF Balanced, Balance, Covered
<1>8. Followed'
  <2>1. Begun' => Begun
    BY DEF Begun, Unstarted
  <2>2. Begun' => Clear'
    BY <1>5, <2>1 DEF Orderly, Followed
  <2> QED
    BY <1>1, <1>5, <2>2 DEF Followed
<1>9. Ready'
  BY <1>1 DEF Ready
<1>10. Joins'
  <2>1. ASSUME NEW i \in DOMAIN cmds', cmds'[i].do = "station"
        PROVE  Asked(i)'
    <3>1. i \in DOMAIN cmds
      BY <1>4, <2>1
    <3>2. Asked(i) /\ cmds'[1] = cmds[1]
      BY <1>4, <2>1, <3>1 DEF Orderly, Joins
    <3> QED
      BY <1>1, <3>2 DEF Asked
  <2> QED
    BY <2>1 DEF Orderly, Joins, Alive
<1>11. Searches'
  BY <1>2, <1>1 DEF Searches
<1>12. RemembersOneCamera'
  BY DEF Orderly, RemembersOneCamera
<1> QED
  BY <1>6, <1>7, <1>8, <1>9, <1>10, <1>11, <1>12 DEF Orderly

(* The home Wi-Fi screen asks nothing of the worker.                         *)
LEMMA HomeWifiKeeps ==
  ASSUME IInv, Orderly, Alive, events = << >>,
         UNCHANGED <<cmds, events, worker, search, saved, outcome, pending>>,
         screen = "wifiReady", screen' = "homeWifi"
  PROVE  Orderly'
<1>1. View = "wifiReady" /\ View' = "homeWifi" /\ outcome = "none"
  BY Clicked DEF Alive
<1>2. search = NoCamera /\ worker.at = "idle" /\ Clear
  BY <1>1 DEF Orderly, Searches, Ready
<1>3. Cancels'
  BY <1>2 DEF Orderly, Cancels, Apart, EndsInCancel, Alive
<1>4. Balanced'
  <2>1. PICK h : Balance(h)
    BY DEF Orderly, Balanced
  <2>2. Offers' = Offers /\ (Low' <=> Low)
    BY <1>1 DEF Offers, Offering, Low, Unstarted, Clear
  <2>3. Covered(h)'
    BY <2>1 DEF Balance, Covered, Weighs, One
  <2> QED
    BY <2>1, <2>2, <2>3 DEF Balance, Balanced
<1>5. Followed' /\ Ready'
  BY <1>2 DEF Followed, Ready, Begun, Clear
<1>6. Joins'
  BY <1>2 DEF Orderly, Joins, Asked, Clear, Alive
<1>7. Searches' /\ RemembersOneCamera'
  BY <1>2 DEF Orderly, Searches, RemembersOneCamera
<1> QED
  BY <1>3, <1>4, <1>5, <1>6, <1>7 DEF Orderly

LEMMA OperatorIsOrderly ==
  ASSUME IInv, Orderly, Operator
  PROVE  Orderly'
<1>1. /\ UNCHANGED <<events, worker, search, saved>> /\ outcome = "none"
      /\ picked \in Some /\ cmds \in Seq(Command)
      /\ RemembersOneCamera'
  BY DEF Operator, Pick, ScanAgain, CancelPairing, BrowsePhones, BackToCameras, HomeWifi,
         JoinHomeWifi, ResetStation, Choose, Click, Press, Orderly, RemembersOneCamera,
         IInv, TypeOK
<1>2. ASSUME \/ Choose({"wifiReady"}, "connected")
             \/ Choose({"scanning", "choose", "failed"}, "skip")
             \/ Choose({"phones"}, "phone")
      PROVE  Orderly'
  BY <1>1, <1>2, Over DEF Choose, Finish
<1>3. CASE worker.at = "stopped"
  <2>1. ASSUME \/ \E c \in Cameras : Pick(c)
               \/ ScanAgain \/ CancelPairing \/ BrowsePhones \/ BackToCameras
               \/ HomeWifi \/ JoinHomeWifi \/ ResetStation
        PROVE  Orderly'
    <3>1. /\ UNCHANGED outcome
          /\ screen' = "phones" \/ screen # "phones" \/ events = << >>
      BY <2>1 DEF Pick, ScanAgain, CancelPairing, BrowsePhones, BackToCameras, HomeWifi,
         JoinHomeWifi, ResetStation, Click, GoTo
    <3> QED
      BY <1>1, <1>3, <3>1, Lost
  <2> QED
    BY <1>2, <2>1 DEF Operator
<1>4. CASE worker.at # "stopped"
  <2>1. /\ Alive
        /\ \A list : Send(list) => cmds' = cmds \o list
        /\ Do("scan") \in Command /\ Do("scan").do = "scan"
        /\ Do("cancel") \in Command /\ Do("cancel").do = "cancel"
    BY <1>1, <1>4 DEF Alive, Send, Do, Command, Some
  <2>2. ASSUME NEW command \in Command, command.do \in {"scan", "pair", "reset"}, Click,
               Send(<<command>>), UNCHANGED <<pending, outcome>>,
               screen \in Offering, screen' \in {"pairing", "scanning"},
               screen = "phones" => screen' = "scanning"
        PROVE  Orderly'
    BY <1>1, <2>1, <2>2, OrderKeeps DEF Click
  <2>3. ASSUME NEW c \in Cameras, Pick(c)
        PROVE  Orderly'
    <3> DEFINE command == [do |-> "pair", camera |-> c]
    <3>1. command \in Command /\ command.do = "pair"
      BY DEF Command, Some
    <3>2. /\ Click /\ Send(<<command>>) /\ UNCHANGED <<pending, outcome>>
          /\ screen = "choose" /\ screen' = "pairing"
      BY <2>3 DEF Pick, GoTo
    <3> HIDE DEF command
    <3> QED
      BY <2>2, <3>1, <3>2 DEF Offering
  <2>4. ASSUME ScanAgain \/ BackToCameras
        PROVE  Orderly'
    BY <2>1, <2>2, <2>4 DEF ScanAgain, BackToCameras, GoTo, Offering
  <2>5. ASSUME ResetStation
        PROVE  Orderly'
    <3> DEFINE command == [do |-> "reset", camera |-> picked]
    <3>1. command \in Command /\ command.do = "reset"
      BY <1>1 DEF Command
    <3>2. /\ Click /\ Send(<<command>>) /\ UNCHANGED <<pending, outcome>>
          /\ screen = "homeWifi" /\ screen' = "pairing"
      BY <2>5 DEF ResetStation, GoTo
    <3> HIDE DEF command
    <3>3. \A order \in Command : order.do = "reset" /\ Send(<<order>>) => Orderly'
      BY <2>2, <3>2 DEF Offering
    <3> QED
      BY <3>1, <3>2, <3>3
  <2>6. ASSUME JoinHomeWifi
        PROVE  Orderly'
    <3> DEFINE command == [do |-> "station", camera |-> picked]
    <3>1. command \in Command /\ command.do = "station" /\ command.camera = picked
      BY <1>1 DEF Command
    <3>2. /\ events = << >> /\ Send(<<command>>) /\ UNCHANGED outcome
          /\ pending'.model = picked /\ screen = "homeWifi" /\ screen' = "pairing"
      BY <2>6 DEF JoinHomeWifi, Click, GoTo
    <3> HIDE DEF command
    <3>3. \A order \in Command :
            order.do = "station" /\ order.camera = picked /\ Send(<<order>>) => Orderly'
      BY <1>1, <2>1, <3>2, OrderKeeps DEF Offering
    <3> QED
      BY <3>1, <3>2, <3>3
  <2>7. ASSUME BrowsePhones
        PROVE  Orderly'
    BY <1>1, <2>1, <2>7, BrowseKeeps DEF BrowsePhones, GoTo
  <2>8. ASSUME CancelPairing
        PROVE  Orderly'
    <3>1. cmds' = cmds \o <<Do("cancel"), Do("scan")>>
      BY <2>1, <2>8 DEF CancelPairing, GoTo
    <3>2. /\ events = << >> /\ UNCHANGED <<outcome, pending>>
          /\ screen \in {"pairing", "approval"} /\ screen' = "scanning"
      BY <2>8 DEF CancelPairing, Click, GoTo
    <3> QED
      BY <1>1, <2>1, <3>1, <3>2, LeaveKeeps
  <2>9. ASSUME HomeWifi
        PROVE  Orderly'
    <3>1. cmds' = cmds \o << >> /\ cmds \o << >> = cmds
      BY <1>1, <2>1, <2>9 DEF HomeWifi, GoTo
    <3> QED
      BY <1>1, <2>1, <2>9, <3>1, HomeWifiKeeps DEF HomeWifi, Click, GoTo
  <2> QED
    BY <1>2, <2>3, <2>4, <2>5, <2>6, <2>7, <2>8, <2>9 DEF Operator
<1> QED
  BY <1>3, <1>4

-----------------------------------------------------------------------------
(***************************************************************************)
(* The start, the update loop and the camera.                              *)
(***************************************************************************)

(* Nothing to press and nothing to do but the search.                        *)
LEMMA NothingToPress ==
  ASSUME cmds' = << >>, worker'.at = "idle", screen' # "phones",
         View' \notin {"wifiReady", "homeWifi"}
  PROVE  Cancels' /\ Balanced' /\ Followed' /\ Ready' /\ Joins'
<1>1. DOMAIN cmds' = {} /\ Len(cmds') = 0 /\ Apart(cmds') /\ ~EndsInCancel'
  BY DEF Apart, EndsInCancel
<1>2. Cancels' /\ Followed' /\ Ready' /\ Joins'
  BY <1>1 DEF Cancels, Followed, Ready, Joins, Begun, Clear, Unstarted
<1>3. PICK h \in [{1} -> Int] : h[1] = 0
  <2>1. [i \in {1} |-> 0] \in [{1} -> Int] /\ [i \in {1} |-> 0][1] = 0
    OBVIOUS
  <2> QED
    BY <2>1
<1>4. Balance(h)'
  <2>1. 1 .. Len(cmds') + 1 = {1} /\ 1 .. Len(cmds') = {}
    BY <1>1
  <2>2. Weighs(h, cmds')
    BY <1>1, <1>3, <2>1 DEF Weighs
  <2>3. One(screen' = "phones") = 0
    BY DEF One
  <2>4. Covered(h)'
    BY <1>3, <2>1, <2>2, <2>3 DEF Covered
  <2>5. h[1] + Offers' \in Int /\ h[1] + Offers' <= 2
    BY <1>3 DEF Offers, One
  <2>6. ~Low'
    BY DEF Low, Unstarted
  <2> QED
    BY <2>4, <2>5, <2>6 DEF Balance
<1> QED
  BY <1>2, <1>4 DEF Balanced

LEMMA OrderlyAtFirst == Init => Orderly
<1> SUFFICES ASSUME Init
             PROVE  Orderly
  OBVIOUS
<1>1. /\ search = NoCamera /\ saved.model = saved.identity /\ outcome = "none"
      /\ events = << >> => View = screen
  BY DEF Init, View
<1>2. Searches /\ RemembersOneCamera
  <2>1. Ev("error").kind # "stationDone"
    BY DEF Ev
  <2>2. \A i \in DOMAIN events : events[i].kind # "stationDone"
    <3>1. events = << >> \/ events = <<Ev("error")>>
      BY DEF Init
    <3> HIDE DEF Ev
    <3> QED
      BY <2>1, <3>1
  <2> QED
    BY <1>1, <2>2 DEF Searches, RemembersOneCamera
<1>3. CASE worker.at = "stopped"
  BY <1>2, <1>3 DEF Orderly, Cancels, Balanced, Followed, Ready, Joins, Alive
<1>4. CASE worker.at # "stopped"
  <2>1. /\ worker.at = "idle" /\ events = << >> /\ View = screen
        /\ \/ screen = "phones" /\ cmds = <<Do("cancel")>>
           \/ screen = "scanning" /\ cmds = <<Do("scan")>>
    BY <1>1, <1>4 DEF Init, Idle
  <2>2. /\ Do("cancel").do = "cancel" /\ Do("scan").do = "scan"
    BY DEF Do
  <2> HIDE DEF Do
  <2>3. PICK only \in {Do("cancel"), Do("scan")} :
          /\ cmds = <<only>> /\ (only.do = "cancel" <=> screen = "phones")
          /\ only.do \in {"scan", "cancel"}
    BY <2>1, <2>2
  <2>4. Len(cmds) = 1 /\ DOMAIN cmds = 1 .. 1 /\ cmds[1] = only /\ cmds # << >>
    BY <2>3
  <2>5. Cancels
    BY <2>3, <2>4 DEF Cancels, Apart, EndsInCancel
  <2>6. Followed /\ Ready /\ Joins
    BY <2>1, <2>3, <2>4 DEF Followed, Ready, Joins, Begun
  <2>7. Balanced
    <3> DEFINE h == [i \in {1, 2} |-> IF i = 1 THEN Weight(only) ELSE 0]
    <3>1. /\ h[1] = Weight(only) /\ h[2] = 0 /\ h \in [{1, 2} -> Int]
          /\ 1 .. Len(cmds) + 1 = {1, 2} /\ 1 .. Len(cmds) = {1}
      BY <2>4 DEF Weight
    <3> HIDE DEF h
    <3>2. Weighs(h, cmds)
      BY <2>4, <3>1 DEF Weighs, Weight
    <3>3. /\ Offers = One(screen = "phones") /\ ~Low
      BY <1>1, <2>1 DEF Offers, One, Offering, Low, Unstarted
    <3>4. /\ Weight(only) + One(screen = "phones") = IF screen = "phones" THEN 0 ELSE 1
          /\ One(screen = "phones") \in {0, 1} /\ Weight(only) \in {-1, 1}
      BY <2>3 DEF Weight, One
    <3>5. Covered(h)
      BY <3>1, <3>2, <3>4 DEF Covered
    <3> QED
      BY <3>1, <3>3, <3>4, <3>5 DEF Balanced, Balance
  <2> QED
    BY <1>2, <2>5, <2>6, <2>7 DEF Orderly
<1> QED
  BY <1>3, <1>4

(* A frame shows what the last event said it would.                          *)
LEMMA DrainIsOrderly ==
  ASSUME IInv, Orderly, Drain
  PROVE  Orderly'
<1>1. /\ UNCHANGED <<saved, outcome, cmds, worker>> /\ outcome = "none"
      /\ events # << >> /\ events' = << >> /\ events \in Seq(Event)
      /\ Len(events) \in DOMAIN events /\ DOMAIN events' = {}
      /\ search = NoCamera
  BY DEF Drain, IInv, TypeOK, Orderly, Searches
<1>2. View' = View /\ (screen' = "phones" <=> screen = "phones")
  <2>1. CASE screen = "phones"
    BY <2>1 DEF Drain, View
  <2>2. CASE screen # "phones"
    <3>1. screen' = View
      BY <1>1, <2>2 DEF Drain, Show, View
    <3>2. \A event \in Event : ScreenOf(event) # "phones"
      BY DEF ScreenOf
    <3>3. View # "phones"
      BY <1>1, <2>2, <3>2 DEF View
    <3> QED
      BY <1>1, <2>2, <3>1, <3>3 DEF View
  <2> QED
    BY <2>1, <2>2
<1>3. RemembersOneCamera'
  BY <1>1 DEF Orderly, RemembersOneCamera
<1>4. CASE UNCHANGED <<search, pending>>
  <2>1. Cancels' /\ Followed' /\ Ready' /\ Joins'
    <3>1. Cancels'
      BY <1>1, <1>2 DEF Orderly, Cancels, Alive, Apart, EndsInCancel
    <3>2. Followed' /\ Ready'
      BY <1>1, <1>2 DEF Orderly, Followed, Ready, Alive, HasCancel, Begun, Unstarted, Clear
    <3>3. Joins'
      BY <1>1, <1>2, <1>4 DEF Orderly, Joins, Alive, Asked
    <3> QED
      BY <3>1, <3>2, <3>3
  <2>2. Searches'
    BY <1>1, <1>4 DEF Searches
  <2>3. Balanced'
    <3>1. ASSUME NEW h, Balance(h)
          PROVE  Balance(h)'
      BY <1>1, <1>2, <1>4, <3>1 DEF Balance, Covered, Weighs, Offers, Low, Unstarted, Clear, One
    <3> QED
      BY <1>1, <3>1 DEF Orderly, Balanced, Alive
  <2> QED
    BY <1>3, <2>1, <2>2, <2>3 DEF Orderly
<1>5. CASE ~UNCHANGED <<search, pending>>
  <2>1. /\ screen # "phones"
        /\ \E i \in DOMAIN events :
             /\ events[i].kind = "stationDone"
             /\ search' = events[i].ssid
             /\ pending' = IF pending = Nothing THEN pending
                           ELSE [pending EXCEPT !.identity = events[i].ssid]
    BY <1>5 DEF Drain, Show, LastOf
  <2>2. PICK i \in DOMAIN events :
          /\ events[i].kind = "stationDone"
          /\ search' = events[i].ssid
          /\ pending' = IF pending = Nothing THEN pending
                        ELSE [pending EXCEPT !.identity = events[i].ssid]
    BY <2>1
  <2>3. Done(i)
    BY <1>1, <2>1, <2>2 DEF Orderly, Searches
  <2>4. View = "searching" /\ screen' = "searching"
    BY <1>1, <1>2, <2>1, <2>2, <2>3 DEF View, ScreenOf, Done
  <2>5. Rests' /\ cmds' = << >> /\ worker'.at = "idle"
    BY <1>1, <2>3 DEF Done, Rests
  <2>6. search' # NoCamera => pending'.model = search' /\ pending'.identity = search'
    <3> HAVE search' # NoCamera
    <3>1. pending.model = search' /\ pending \in Station
      BY <2>2, <2>3 DEF Done, IInv, TypeOK
    <3>2. pending # Nothing
      BY <3>1 DEF Nothing
    <3> QED
      BY <2>2, <3>1, <3>2 DEF Station
  <2>7. Searches'
    BY <1>1, <2>4, <2>5, <2>6 DEF Searches
  <2>8. Cancels' /\ Balanced' /\ Followed' /\ Ready' /\ Joins'
    <3>1. View' \notin {"wifiReady", "homeWifi"} /\ screen' # "phones"
      BY <1>2, <2>4
    <3> QED
      BY <2>5, <3>1, NothingToPress
  <2> QED
    BY <1>3, <2>7, <2>8 DEF Orderly
<1> QED
  BY <1>4, <1>5

LEMMA SearchIsOrderly ==
  ASSUME IInv, Orderly, NEW found \in BOOLEAN, SearchAnswer(found)
  PROVE  Orderly'
<1>1. /\ outcome = "none" /\ search # NoCamera /\ search' = NoCamera
      /\ screen = "searching" /\ events = << >> /\ Rests
      /\ pending.model = search /\ pending.identity = search
      /\ UNCHANGED <<events, worker>>
  BY DEF SearchAnswer, Orderly, Searches
<1>2. RemembersOneCamera'
  BY <1>1 DEF SearchAnswer, Orderly, RemembersOneCamera
<1>3. CASE found
  BY <1>2, <1>3, Over DEF SearchAnswer, Finish
<1>4. CASE ~found
  <2>1. screen' = "failed" /\ cmds' = << >> /\ worker'.at = "idle" /\ View' = "failed"
    BY <1>1, <1>4 DEF SearchAnswer, Rests, View
  <2>2. Cancels' /\ Balanced' /\ Followed' /\ Ready' /\ Joins'
    BY <2>1, NothingToPress
  <2>3. Searches'
    BY <1>1 DEF Searches
  <2> QED
    BY <1>2, <2>2, <2>3 DEF Orderly
<1> QED
  BY <1>3, <1>4

LEMMA SameIsOrderly ==
  ASSUME Orderly, UNCHANGED <<screen, pending, search, saved, outcome, cmds, events, worker>>
  PROVE  Orderly'
<1>1. View' = View /\ Offers' = Offers
  BY DEF View, Offers
<1>2. Cancels' /\ Followed' /\ Ready'
  BY <1>1 DEF Orderly, Cancels, Followed, Ready, Alive, Apart, EndsInCancel, HasCancel,
              Begun, Unstarted, Clear
<1>3. Joins' /\ Searches' /\ RemembersOneCamera'
  BY <1>1 DEF Orderly, Joins, Searches, RemembersOneCamera, Alive, Asked, Done, Rests
<1>4. Balanced'
  <2>1. ASSUME NEW h, Balance(h)
        PROVE  Balance(h)'
    BY <1>1, <2>1 DEF Balance, Covered, Weighs, Low, Unstarted, Clear, One
  <2> QED
    BY <2>1 DEF Orderly, Balanced, Alive
<1> QED
  BY <1>2, <1>3, <1>4 DEF Orderly

LEMMA NotifyIsOrderly ==
  ASSUME Orderly, NEW c \in Cameras, NEW kind \in Written(worker.at), Notify(c, kind)
  PROVE  Orderly'
BY SameIsOrderly DEF Notify, ui

-----------------------------------------------------------------------------
(***************************************************************************)
(* The worker.  A poll finds no command, throws one away or obeys a        *)
(* Cancel, and what it tells the operator is what is shown from then on.   *)
(***************************************************************************)
Operating == {"connect", "pin", "ap", "ssid", "password", "session", "provision", "reset"}

Waited == ~CancelNext /\ PollCommand

CutShort == CancelNext /\ PollCommand

LEMMA Tells ==
  ASSUME events \in Seq(Event), NEW list \in Seq(Event), events' = events \o list,
         UNCHANGED screen
  PROVE  /\ View' = IF screen = "phones" \/ list = << >> THEN View
                    ELSE ScreenOf(list[Len(list)])
         /\ DOMAIN events = 1 .. Len(events) /\ DOMAIN events' = 1 .. Len(events')
         /\ \A i \in DOMAIN events' :
              \/ i \in DOMAIN events /\ events'[i] = events[i]
              \/ \E j \in DOMAIN list : events'[i] = list[j] /\ i = Len(events) + j
         /\ Len(events) \in Nat /\ Len(events') = Len(events) + Len(list)
<1>1. /\ Len(events) \in Nat /\ Len(list) \in Nat /\ events' \in Seq(Event)
      /\ Len(events') = Len(events) + Len(list)
      /\ \A i \in 1 .. Len(events) + Len(list) :
           events'[i] = IF i <= Len(events) THEN events[i] ELSE list[i - Len(events)]
  BY ConcatProperties
<1>2. /\ DOMAIN events = 1 .. Len(events) /\ DOMAIN events' = 1 .. Len(events')
      /\ DOMAIN list = 1 .. Len(list)
  BY <1>1
<1>3. \A i \in DOMAIN events' :
        \/ i \in DOMAIN events /\ events'[i] = events[i]
        \/ \E j \in DOMAIN list : events'[i] = list[j] /\ i = Len(events) + j
  <2> TAKE i \in DOMAIN events'
  <2>1. CASE i <= Len(events)
    BY <1>1, <1>2, <2>1
  <2>2. CASE ~(i <= Len(events))
    <3>1. i - Len(events) \in DOMAIN list /\ i = Len(events) + (i - Len(events))
      BY <1>1, <1>2, <2>2
    <3>2. events'[i] = list[i - Len(events)]
      BY <1>1, <1>2, <2>2
    <3> QED
      BY <3>1, <3>2
  <2> QED
    BY <2>1, <2>2
<1>4. View' = IF screen = "phones" \/ list = << >> THEN View
              ELSE ScreenOf(list[Len(list)])
  <2>1. CASE screen = "phones"
    BY <2>1 DEF View
  <2>2. CASE screen # "phones" /\ list = << >>
    <3>1. events' = events
      BY <2>2
    <3> QED
      BY <2>2, <3>1 DEF View
  <2>3. CASE screen # "phones" /\ list # << >>
    <3>1. Len(list) \in 1 .. Len(list)
      BY <2>3
    <3>2. /\ Len(events') \in 1 .. Len(events) + Len(list) /\ ~(Len(events') <= Len(events))
          /\ Len(events') - Len(events) = Len(list)
      BY <1>1, <3>1
    <3>3. events'[Len(events')] = list[Len(list)]
      BY <1>1, <3>2
    <3>4. events' # << >>
      BY <1>1, <3>2
    <3> QED
      BY <2>3, <3>3, <3>4 DEF View
  <2> QED
    BY <2>1, <2>2, <2>3
<1> QED
  BY <1>1, <1>2, <1>3, <1>4

(* An operation keeps the search and the finished joins away.                *)
LEMMA Busy ==
  ASSUME Orderly, outcome = "none", worker.at \notin {"idle", "stopped"}
  PROVE  /\ Alive /\ search = NoCamera
         /\ \A i \in DOMAIN cmds : cmds[i].do # "station"
         /\ screen # "phones" => \A i \in DOMAIN events : events[i].kind # "stationDone"
BY DEF Orderly, Alive, Searches, Joins, Asked, Done, Rests

(* A poll that was not cut short at a low Load leaves no order.              *)
LEMMA NoneWaits ==
  ASSUME IInv, Orderly, Alive, Low, Waited
  PROVE  Clear' /\ (Clear => cmds = << >> /\ cmds' = << >>)
<1>1. /\ cmds \in Seq(Command) /\ worker.at \in Operating
      /\ One(worker.at # "idle") = 1
  BY DEF IInv, TypeOK, Low, Unstarted, Operating, One
<1>2. CASE cmds = << >>
  BY <1>2 DEF Waited, PollCommand, Clear
<1>3. CASE cmds # << >>
  <2>1. cmds' = Tail(cmds) /\ ~Clear
    <3>1. cmds[1] = Head(cmds)
      BY <1>1, <1>3
    <3> QED
      BY <1>3, <3>1 DEF Waited, PollCommand, CancelNext, Clear
  <2>2. PICK h : Balance(h)
    BY DEF Orderly, Balanced
  <2>3. ~(2 \in DOMAIN cmds /\ cmds[2].do # "cancel")
    <3>1. h[1] \in Int /\ h[1] + Offers <= 2
      BY <1>1, <2>2, CoveredHeads DEF Balance
    <3>2. Offers >= One(screen = "phones") + 1
      BY <1>1 DEF Offers, One, View, Offering
    <3>3. One(screen = "phones") \in {0, 1}
      BY DEF One
    <3>4. ~(h[1] + One(screen = "phones") >= 2)
      BY <3>1, <3>2, <3>3, OffersAre
    <3> QED
      BY <1>1, <2>1, <2>2, <3>4, CoveredHeads DEF Balance
  <2>4. ASSUME cmds' # << >>
        PROVE  2 \in DOMAIN cmds /\ cmds'[1] = cmds[2]
    <3>1. cmds' \in Seq(Command)
      BY <1>1, <1>3, <2>1
    <3>2. 1 \in DOMAIN cmds'
      BY <2>4, <3>1
    <3>3. \A i \in DOMAIN cmds' : i + 1 \in DOMAIN cmds /\ cmds'[i] = cmds[i + 1]
      BY <1>1, <1>3, <2>1, Taking
    <3>4. 1 + 1 \in DOMAIN cmds /\ cmds'[1] = cmds[1 + 1]
      BY <3>2, <3>3
    <3> QED
      BY <3>4
  <2> QED
    BY <2>1, <2>3, <2>4 DEF Clear
<1> QED
  BY <1>2, <1>3

(* What a poll does to the queue and its weight.                             *)
LEMMA Polls ==
  ASSUME IInv, Orderly, Alive, UNCHANGED screen, UNCHANGED cmds \/ Waited \/ CutShort,
         worker.at # "idle"
  PROVE  /\ \A i \in DOMAIN cmds' : cmds'[i].do = "station" =>
              \E j \in DOMAIN cmds : cmds[j].do = "station"
         /\ Apart(cmds')
         /\ EndsInCancel' => screen = "phones"
         /\ screen = "phones" => EndsInCancel' \/ cmds' = << >>
         /\ screen = "phones" /\ ~CutShort /\ worker.at \notin {"ssid", "password"}
              => EndsInCancel'
         /\ CutShort => Clear /\ (Clear' => cmds' = << >>)
         /\ Waited => (HasCancel => HasCancel')
         /\ Waited /\ Clear => UNCHANGED cmds /\ cmds = << >>
<1>1. /\ cmds \in Seq(Command) /\ Apart(cmds)
      /\ EndsInCancel => screen = "phones"
      /\ screen = "phones" => EndsInCancel \/ cmds = << >>
      /\ screen = "phones" /\ worker.at \notin {"ssid", "password"} => EndsInCancel
  BY DEF IInv, TypeOK, Orderly, Cancels
<1>2. CASE UNCHANGED cmds
  <2>1. ~CutShort \/ cmds = << >>
    <3>1. ASSUME cmds # << >>
          PROVE  Tail(cmds) # cmds
      <4>1. Len(Tail(cmds)) # Len(cmds)
        BY <1>1, <3>1
      <4> QED
        BY <4>1
    <3> QED
      BY <1>2, <3>1 DEF CutShort, PollCommand, CancelNext
  <2>2. ~CutShort
    BY <2>1 DEF CutShort, CancelNext
  <2>3. Waited /\ Clear => cmds = << >>
    <3>1. cmds # << >> => cmds[1] = Head(cmds)
      BY <1>1
    <3> QED
      BY <3>1 DEF Waited, Clear, CancelNext
  <2> QED
    BY <1>1, <1>2, <2>2, <2>3 DEF EndsInCancel, HasCancel, Apart
<1>3. CASE cmds # << >> /\ cmds' = Tail(cmds)
  <2>1. /\ cmds[1] = Head(cmds) /\ 1 \in DOMAIN cmds
        /\ \A i \in DOMAIN cmds' : i + 1 \in DOMAIN cmds /\ cmds'[i] = cmds[i + 1]
        /\ Apart(cmds')
        /\ cmds[1].do = "cancel" /\ Clear' => cmds' = << >>
        /\ cmds' # << >> => (EndsInCancel' <=> EndsInCancel)
        /\ cmds' = << >> => (EndsInCancel <=> cmds[1].do = "cancel")
        /\ cmds[1].do # "cancel" => (HasCancel' <=> HasCancel)
    BY <1>1, <1>3, Taking
  <2>2. /\ CancelNext <=> cmds[1].do = "cancel"
        /\ Clear <=> cmds[1].do = "cancel"
    BY <1>3, <2>1 DEF CancelNext, Clear
  <2>3. cmds' = << >> => ~EndsInCancel'
    BY DEF EndsInCancel
  <2>4. PollCommand
    BY <1>3 DEF PollCommand
  <2> QED
    BY <1>1, <1>3, <2>1, <2>2, <2>3, <2>4 DEF Waited, CutShort
<1> QED
  BY <1>2, <1>3 DEF Waited, CutShort, PollCommand

(* The Load after a poll: what the view offers counts.                       *)
LEMMA LoadTurns ==
  ASSUME IInv, Orderly, Alive, UNCHANGED <<screen, search>>,
         UNCHANGED cmds \/ Waited \/ CutShort,
         worker.at # "idle", search = NoCamera,
         View' \in Offering => View \in Offering \/ Waited \/ worker'.at = "idle",
         CutShort => \/ worker'.at = "idle" /\ (View' \in Offering => View \in Offering \/ Low)
                     \/ /\ Low /\ (Low' => cmds' = << >>)
                        /\ View' \in Offering => screen = "phones",
         ~Waited /\ ~CutShort /\ Low' => Low,
         Waited /\ Low' => Low \/ View' \notin Offering \/ View \in Offering
  PROVE  Balanced'
<1>1. /\ cmds \in Seq(Command) /\ worker.at # "idle"
      /\ One(worker.at # "idle") = 1 /\ One(search # NoCamera) = 0
      /\ One(search' # NoCamera) = 0
      /\ screen = "phones" => View \in Offering /\ View' \in Offering
  BY DEF IInv, TypeOK, Operating, One, View, Offering
<1>2. PICK h : Balance(h)
  BY DEF Orderly, Balanced
<1>3. PICK v \in {0, 1}, v1 \in {0, 1}, w1 \in {0, 1} :
        /\ v = One(View \in Offering) /\ v1 = One(View' \in Offering)
        /\ w1 = One(worker'.at # "idle")
  BY DEF One
<1>4. /\ View' \in Offering <=> v1 = 1
      /\ View \in Offering <=> v = 1
      /\ worker'.at = "idle" <=> w1 = 0
      /\ Offers = v + 1 + 0 /\ Offers' = v1 + w1 + 0
  BY <1>1, <1>3 DEF Offers, One
<1>5. /\ h[1] \in Int /\ (cmds = << >> => h[1] = 0)
      /\ h[1] + v + 1 <= IF Low THEN 2 ELSE 3
      /\ Covered(h)
  BY <1>1, <1>2, <1>3, <1>4, CoveredHeads DEF Balance
<1>6. Low' => w1 = 1
  <2>1. Low' => worker'.at # "idle"
    BY DEF Low, Unstarted
  <2> QED
    BY <1>3, <1>4, <2>1
<1>7. CASE UNCHANGED cmds
  <2>1. Covered(h)'
    BY <1>5, <1>7 DEF Covered, Weighs
  <2>2. h[1] + Offers' = h[1] + v1 + w1
    BY <1>3, <1>4, <1>5
  <2>3. h[1] + v1 + w1 <= IF Low' THEN 2 ELSE 3
    <3>1. CASE cmds = << >>
      <4>1. h[1] = 0 /\ (Low' => v1 + w1 <= 2)
        BY <1>3, <1>5, <3>1
      <4> QED
        BY <1>3, <4>1
    <3>2. CASE cmds # << >>
      <4>1. ~Waited /\ ~CutShort
        <5>1. Tail(cmds) # cmds
          <6>1. Len(Tail(cmds)) # Len(cmds)
            BY <1>1, <3>2
          <6> QED
            BY <6>1
        <5> QED
          BY <1>7, <3>2, <5>1 DEF Waited, CutShort, PollCommand
      <4>2. v1 = 1 => v = 1 \/ w1 = 0
        BY <1>4, <4>1
      <4>3. Low' => Low
        BY <4>1
      <4> QED
        BY <1>3, <1>5, <1>6, <4>2, <4>3
    <3> QED
      BY <3>1, <3>2
  <2> QED
    BY <2>1, <2>2, <2>3 DEF Balance, Balanced
<1>8. CASE cmds # << >> /\ cmds' = Tail(cmds)
  <2>1. PICK k : Covered(k)' /\ k[1] \in Int /\ k[1] = h[1] - Weight(cmds[1])
    BY <1>1, <1>5, <1>8, CoveredTaking
  <2>2. cmds[1] = Head(cmds)
    BY <1>1, <1>8
  <2>3. /\ Waited => Weight(cmds[1]) = 1
        /\ CutShort => Weight(cmds[1]) = -1
        /\ Waited \/ CutShort
    BY <1>8, <2>2 DEF Waited, CutShort, CancelNext, PollCommand, Weight
  <2>4. k[1] + Offers' = k[1] + v1 + w1
    BY <1>3, <1>4, <2>1
  <2>5. cmds' = << >> => k[1] = 0
    BY <2>1 DEF Covered, Weighs
  <2>6. k[1] + v1 + w1 <= IF Low' THEN 2 ELSE 3
    <3>1. CASE Waited
      <4>1. k[1] = h[1] - 1
        BY <2>1, <2>3, <3>1
      <4>2. ~Low' \/ Low \/ v1 = 0 \/ v = 1
        BY <1>3, <1>4, <3>1
      <4> QED
        BY <1>3, <1>5, <4>1, <4>2
    <3>2. CASE CutShort
      <4>1. k[1] = h[1] + 1
        BY <1>5, <2>1, <2>3, <3>2
      <4>2. CASE w1 = 0 /\ (v1 = 1 => v = 1 \/ Low)
        BY <1>3, <1>5, <1>6, <4>1, <4>2
      <4>3. CASE Low /\ (Low' => cmds' = << >>) /\ (v1 = 1 => v = 1)
        <5>1. CASE Low'
          BY <1>3, <2>5, <4>3, <5>1
        <5>2. CASE ~Low'
          BY <1>3, <1>5, <4>1, <4>3, <5>2
        <5> QED
          BY <5>1, <5>2
      <4> QED
        BY <1>1, <1>4, <3>2, <4>2, <4>3
    <3> QED
      BY <2>3, <3>1, <3>2
  <2> QED
    BY <2>1, <2>4, <2>6 DEF Balance, Balanced
<1> QED
  BY <1>7, <1>8 DEF Waited, CutShort, PollCommand

(* How an operation moves from place to place.                               *)
Onward ==
  \/ worker'.at = worker.at
  \/ worker.at = "connect" /\ worker'.at \in {"pin", "session"}
  \/ worker.at = "pin" /\ worker'.at = "ap"
  \/ worker.at = "ap" /\ worker'.at = "ssid"
  \/ worker.at = "ssid" /\ worker'.at = "password"
  \/ worker.at = "session" /\ worker'.at \in {"provision", "reset"}

(* What an operation tells while it goes on: its progress, or a refusal that *)
(* the pairing outlives.                                                     *)
Progress(list) ==
  /\ \A i \in DOMAIN list : list[i].kind \in {"step", "approval", "error"}
  /\ list = << >> => worker'.at = worker.at
  /\ list # << >> =>
       \/ list[Len(list)].kind \in {"step", "approval"}
       \/ list[Len(list)].kind = "error" /\ worker'.at = "pin" /\ Waited

Moves(list) ==
  \/ Waited
  \/ UNCHANGED cmds /\ (worker.at = "connect" \/ list = << >>)
  \/ CutShort /\ worker.at = "ap" /\ worker'.at = "ssid"

LEMMA GoesOn ==
  ASSUME IInv, Orderly, outcome = "none",
         UNCHANGED <<screen, pending, search, saved, outcome>>,
         worker.at \in Operating, worker'.at \in Operating, Onward,
         worker'.op = worker.op, worker'.target = worker.target,
         NEW list \in Seq(Event), events' = events \o list, Progress(list), Moves(list),
         Unstarted' => Unstarted \/ (worker.at = "session" /\ Waited),
         Begun' => Begun \/ (Unstarted /\ Waited),
         worker'.at = "session" => worker'.op \in {"station", "reset"},
         worker'.at = "provision" => worker'.op = "station"
  PROVE  Orderly'
<1>1. /\ Alive /\ Alive' /\ search = NoCamera /\ search' = NoCamera
      /\ worker.at # "idle" /\ worker'.at # "idle"
      /\ \A i \in DOMAIN cmds : cmds[i].do # "station"
      /\ screen # "phones" => \A i \in DOMAIN events : events[i].kind # "stationDone"
  BY Busy DEF Operating, Alive
<1>2. /\ events \in Seq(Event) /\ cmds \in Seq(Command) /\ UNCHANGED screen
      /\ UNCHANGED cmds \/ Waited \/ CutShort
  BY DEF IInv, TypeOK, Moves
<1>3. /\ \/ View' = View /\ (screen = "phones" \/ worker'.at = worker.at)
         \/ View' \in {"pairing", "approval"}
         \/ View' = "failed" /\ worker'.at = "pin" /\ Waited
      /\ screen = "phones" => View = "phones" /\ View' = "phones"
  <2>1. /\ View' = IF screen = "phones" \/ list = << >> THEN View
                   ELSE ScreenOf(list[Len(list)])
    BY <1>2, Tells
  <2>2. screen = "phones" => View = "phones"
    BY DEF View
  <2>3. /\ \A event \in Event : event.kind = "step" => ScreenOf(event) = "pairing"
        /\ \A event \in Event : event.kind = "approval" => ScreenOf(event) = "approval"
        /\ \A event \in Event : event.kind = "error" => ScreenOf(event) = "failed"
    BY DEF ScreenOf
  <2>4. list # << >> => list[Len(list)] \in Event
    OBVIOUS
  <2> QED
    BY <2>1, <2>2, <2>3, <2>4 DEF Progress
<1>4. /\ \A i \in DOMAIN cmds' : cmds'[i].do = "station" =>
           \E j \in DOMAIN cmds : cmds[j].do = "station"
      /\ Apart(cmds')
      /\ EndsInCancel' => screen = "phones"
      /\ screen = "phones" => EndsInCancel' \/ cmds' = << >>
      /\ screen = "phones" /\ ~CutShort /\ worker.at \notin {"ssid", "password"}
           => EndsInCancel'
      /\ CutShort => Clear /\ (Clear' => cmds' = << >>)
      /\ Waited => (HasCancel => HasCancel')
      /\ Waited /\ Clear => UNCHANGED cmds /\ cmds = << >>
  BY <1>1, <1>2, Polls
<1>5. CutShort => ~Waited /\ list # << >> /\ worker.at = "ap" /\ worker'.at = "ssid"
  <2>1. CutShort => ~UNCHANGED cmds
    <3>1. cmds # << >> => Len(Tail(cmds)) # Len(cmds)
      BY <1>2
    <3>2. cmds # << >> => Tail(cmds) # cmds
      BY <3>1
    <3> QED
      BY <3>2 DEF CutShort, PollCommand, CancelNext
  <2>2. CutShort => ~Waited
    BY DEF CutShort, Waited
  <2> QED
    BY <2>1, <2>2 DEF Moves, Progress
<1>6. Cancels'
  BY <1>2, <1>4, <1>5 DEF Cancels, Onward, Operating
<1>7. Balanced'
  <2>1. View' \in Offering => View \in Offering \/ Waited \/ worker'.at = "idle"
    BY <1>3 DEF Offering
  <2>2. CutShort => \/ worker'.at = "idle" /\ (View' \in Offering => View \in Offering \/ Low)
                    \/ /\ Low /\ (Low' => cmds' = << >>)
                       /\ View' \in Offering => screen = "phones"
    <3> HAVE CutShort
    <3>1. Low /\ worker'.at = "ssid"
      BY <1>5 DEF Low
    <3>2. Low' => cmds' = << >>
      BY <1>4, <3>1 DEF Low, Unstarted
    <3>3. View' \in Offering => screen = "phones"
      BY <1>3, <1>5 DEF Offering
    <3> QED
      BY <3>1, <3>2, <3>3
  <2>3. ~Waited /\ ~CutShort /\ Low' => Low
    <3> HAVE ~Waited /\ ~CutShort /\ Low'
    <3>1. UNCHANGED cmds /\ (worker.at = "connect" \/ worker'.at = worker.at)
      BY DEF Moves, Progress
    <3>2. worker.at # "connect"
      BY DEF Onward, Low, Unstarted
    <3> QED
      BY <3>1, <3>2 DEF Low, Clear
  <2>4. Waited /\ Low' => Low \/ View' \notin Offering \/ View \in Offering
    BY <1>3 DEF Offering, Low, Unstarted
  <2> QED
    BY <1>1, <1>2, <2>1, <2>2, <2>3, <2>4, LoadTurns
<1>8. Followed'
  <2>1. EndsInCancel => HasCancel
    BY <1>2 DEF EndsInCancel, HasCancel
  <2>2. screen = "phones" /\ worker.at \notin {"ssid", "password"} => HasCancel
    BY <1>1, <2>1 DEF Orderly, Cancels
  <2>3. ASSUME worker'.at \in {"session", "provision", "reset"}
        PROVE  \/ View' \in {"pairing", "approval"}
               \/ View' \in {"scanning", "phones"} /\ HasCancel'
    <3>1. worker.at \in {"connect", "session", "provision", "reset"} /\ ~CutShort
      BY <1>5, <2>3 DEF Onward
    <3>2. HasCancel => HasCancel'
      BY <1>4, <3>1 DEF Moves, HasCancel
    <3>3. CASE View' = View /\ worker'.at = worker.at
      BY <1>1, <2>3, <3>2, <3>3 DEF Orderly, Followed
    <3>4. CASE screen = "phones"
      BY <1>3, <2>2, <3>1, <3>2, <3>4
    <3> QED
      BY <1>3, <2>3, <3>3, <3>4
  <2>4. ASSUME worker'.at \in {"ap", "ssid", "password"}
        PROVE  View' \in {"pairing", "approval", "scanning", "phones"}
    <3>1. CASE View' = View /\ worker'.at = worker.at
      BY <1>1, <2>4, <3>1 DEF Orderly, Followed
    <3> QED
      BY <1>3, <2>4, <3>1
  <2>5. ASSUME Begun'
        PROVE  Clear'
    <3>1. CASE Begun
      <4>1. Clear /\ worker.at = "provision"
        BY <1>1, <3>1 DEF Orderly, Followed, Begun
      <4> QED
        BY <1>4, <1>5, <4>1 DEF Moves, Clear
    <3>2. CASE Unstarted /\ Waited
      BY <1>1, <3>2, NoneWaits DEF Low
    <3> QED
      BY <2>5, <3>1, <3>2
  <2> QED
    BY <2>3, <2>4, <2>5 DEF Followed
<1>9. Ready'
  <2>1. View \notin {"wifiReady", "homeWifi"}
    BY <1>1 DEF Orderly, Ready
  <2> QED
    BY <1>3, <2>1 DEF Ready
<1>10. Joins'
  <2>1. \A i \in DOMAIN cmds' : cmds'[i].do # "station"
    BY <1>1, <1>4
  <2>2. worker.op = "station" /\ worker'.at \in {"connect", "session", "provision"} =>
          pending'.model = worker'.target
    BY <1>1 DEF Orderly, Joins, Onward
  <2> QED
    BY <2>1, <2>2 DEF Joins
<1>11. Searches'
  <2>1. screen # "phones" => \A i \in DOMAIN events' : events'[i].kind # "stationDone"
    BY <1>1, <1>2, Tells DEF Progress
  <2> QED
    BY <1>1, <2>1 DEF Searches
<1> QED
  BY <1>6, <1>7, <1>8, <1>9, <1>10, <1>11 DEF Orderly, RemembersOneCamera

(* The operation is over, and the worker takes orders again.                 *)
LEMMA Ends ==
  ASSUME IInv, Orderly, outcome = "none",
         UNCHANGED <<screen, pending, search, outcome>>, RemembersOneCamera',
         worker.at \notin {"idle", "stopped"}, worker' = Idle,
         NEW list \in Seq(Event), events' = events \o list,
         UNCHANGED cmds \/ Waited \/ CutShort,
         CutShort => list = << >> \/ Low,
         \A i \in DOMAIN list :
           /\ list[i].kind = "credentials" => Low /\ Waited
           /\ list[i].kind = "stationDone" =>
                i = Len(list) /\ Begun /\ Waited /\ list[i].ssid = worker.ssid
  PROVE  Orderly'
<1>1. /\ Alive /\ Alive' /\ search = NoCamera /\ search' = NoCamera
      /\ worker'.at = "idle" /\ worker'.op = "pair"
      /\ \A i \in DOMAIN cmds : cmds[i].do # "station"
      /\ screen # "phones" => \A i \in DOMAIN events : events[i].kind # "stationDone"
  BY Busy DEF Idle, Alive
<1>2. /\ events \in Seq(Event) /\ cmds \in Seq(Command) /\ UNCHANGED screen
      /\ worker.at # "idle"
  BY DEF IInv, TypeOK
<1>3. /\ View' = IF screen = "phones" \/ list = << >> THEN View ELSE ScreenOf(list[Len(list)])
      /\ DOMAIN events = 1 .. Len(events) /\ DOMAIN events' = 1 .. Len(events')
      /\ \A i \in DOMAIN events' :
           \/ i \in DOMAIN events /\ events'[i] = events[i]
           \/ \E j \in DOMAIN list : events'[i] = list[j] /\ i = Len(events) + j
      /\ Len(events') = Len(events) + Len(list)
  BY <1>2, Tells
<1>4. /\ \A i \in DOMAIN cmds' : cmds'[i].do = "station" =>
           \E j \in DOMAIN cmds : cmds[j].do = "station"
      /\ Apart(cmds')
      /\ EndsInCancel' => screen = "phones"
      /\ screen = "phones" => EndsInCancel' \/ cmds' = << >>
      /\ Waited /\ Clear => UNCHANGED cmds /\ cmds = << >>
  BY <1>1, <1>2, Polls
<1>5. Cancels'
  BY <1>1, <1>4 DEF Cancels
<1>6. Balanced'
  <2>1. CutShort => \/ worker'.at = "idle" /\ (View' \in Offering => View \in Offering \/ Low)
                    \/ /\ Low /\ (Low' => cmds' = << >>)
                       /\ View' \in Offering => screen = "phones"
    BY <1>1, <1>3
  <2>2. ~Low'
    BY <1>1 DEF Low, Unstarted
  <2> QED
    BY <1>1, <1>2, <2>1, <2>2, LoadTurns
<1>7. Followed'
  BY <1>1 DEF Followed, Begun
<1>8. Ready'
  <2>1. View \notin {"wifiReady", "homeWifi"}
    BY <1>1, <1>2 DEF Orderly, Ready
  <2>2. \A event \in Event : ScreenOf(event) \in {"wifiReady", "homeWifi"}
                               => event.kind = "credentials"
    BY DEF ScreenOf
  <2>3. list # << >> => Len(list) \in DOMAIN list /\ list[Len(list)] \in Event
    OBVIOUS
  <2>4. View' \in {"wifiReady", "homeWifi"} => Low /\ Waited
    BY <1>3, <2>1, <2>2, <2>3
  <2>5. Low /\ Waited => Clear'
    BY <1>1, NoneWaits
  <2> QED
    BY <1>1, <2>4, <2>5 DEF Ready
<1>9. Joins'
  <2>1. \A i \in DOMAIN cmds' : cmds'[i].do # "station"
    BY <1>1, <1>4
  <2> QED
    BY <1>1, <2>1 DEF Joins
<1>10. Searches'
  <2>1. ASSUME screen # "phones", NEW i \in DOMAIN events', events'[i].kind = "stationDone"
        PROVE  Done(i)'
    <3>1. PICK j \in DOMAIN list : events'[i] = list[j] /\ i = Len(events) + j
      BY <1>1, <1>3, <2>1
    <3>2. j = Len(list) /\ Begun /\ Waited /\ events'[i].ssid = worker.ssid
      BY <2>1, <3>1
    <3>3. i = Len(events')
      BY <1>3, <3>1, <3>2
    <3>4. cmds' = << >>
      BY <1>1, <1>4, <3>2 DEF Orderly, Followed
    <3>5. worker.ssid \in {NoCamera, pending.model}
      BY <1>1, <3>2 DEF Orderly, Joins, Begun, IInv, ReadsItsOwnCamera
    <3> QED
      BY <1>1, <3>2, <3>3, <3>4, <3>5 DEF Done, Rests
  <2> QED
    BY <1>1, <2>1 DEF Searches
<1> QED
  BY <1>5, <1>6, <1>7, <1>8, <1>9, <1>10 DEF Orderly

LEMMA NotCut ==
  ASSUME cmds \in Seq(Command), UNCHANGED cmds \/ Waited
  PROVE  ~CutShort
<1>1. cmds # << >> => Len(Tail(cmds)) # Len(cmds)
  OBVIOUS
<1>2. cmds # << >> => Tail(cmds) # cmds
  BY <1>1
<1> QED
  BY <1>2 DEF CutShort, Waited, PollCommand, CancelNext

(* The worker's own loop obeys: a Cancel stops it for good.                  *)
LEMMA TakeCommandIsOrderly ==
  ASSUME IInv, Orderly, TakeCommand, UNCHANGED saved
  PROVE  Orderly'
<1> DEFINE command == cmds[1]
           scanning == Ev("scanning")
<1>1. /\ outcome = "none" /\ worker.at = "idle" /\ cmds # << >> /\ cmds' = Tail(cmds)
      /\ UNCHANGED <<screen, pending, search, outcome, saved>>
      /\ Alive /\ cmds \in Seq(Command) /\ events \in Seq(Event)
      /\ search = NoCamera /\ ~Rests
      /\ RemembersOneCamera'
  BY DEF TakeCommand, Work, Alive, IInv, TypeOK, Orderly, Searches, Rests, RemembersOneCamera
<1>2. /\ command = Head(cmds) /\ 1 \in DOMAIN cmds
      /\ \A i \in DOMAIN cmds' : i + 1 \in DOMAIN cmds /\ cmds'[i] = cmds[i + 1]
      /\ Apart(cmds) => Apart(cmds')
      /\ cmds' # << >> => (EndsInCancel' <=> EndsInCancel)
      /\ cmds' = << >> => (EndsInCancel <=> command.do = "cancel")
  BY <1>1, Taking
<1>3. screen # "phones" => \A i \in DOMAIN events : events[i].kind # "stationDone"
  BY <1>1 DEF Orderly, Searches, Done
<1>4. CASE command.do = "cancel"
  <2>1. worker'.at = "stopped" /\ events' = events
    <3>1. worker' = [Idle EXCEPT !.at = "stopped"] /\ events' = events
      BY <1>2, <1>4 DEF TakeCommand
    <3> QED
      BY <3>1 DEF Idle
  <2> QED
    BY <1>1, <1>3, <2>1
       DEF Orderly, Cancels, Balanced, Followed, Ready, Joins, Searches, Alive
<1>5. CASE command.do # "cancel"
  <2>1. \/ /\ worker'.at = "scan" /\ worker'.op = "pair"
           /\ events' = events \o <<scanning>>
        \/ /\ worker'.at = "connect" /\ events' = events
           /\ worker'.op = command.do /\ worker'.target = command.camera
    <3>1. CASE command.do = "scan"
      <4>1. worker' = [Idle EXCEPT !.at = "scan"] /\ events' = events \o <<scanning>>
        BY <1>2, <3>1 DEF TakeCommand, Report
      <4> QED
        BY <4>1 DEF Idle
    <3>2. CASE command.do # "scan"
      <4>1. /\ worker' = [Idle EXCEPT !.at = "connect", !.op = command.do,
                                      !.target = command.camera]
            /\ events' = events
        BY <1>2, <1>5, <3>2 DEF TakeCommand
      <4> HIDE DEF command
      <4> QED
        BY <4>1 DEF Idle
    <3> QED
      BY <3>1, <3>2
  <2>2. /\ <<scanning>> \in Seq(Event) /\ scanning.kind = "scanning"
        /\ ScreenOf(scanning) = "scanning"
    BY EventTypes DEF ScreenOf
  <2> HIDE DEF scanning, command
  <2>3. /\ View' = View \/ View' = "scanning"
        /\ screen # "phones" => \A i \in DOMAIN events' : events'[i].kind # "stationDone"
    <3>1. CASE events' = events
      BY <1>1, <1>3, <3>1 DEF View
    <3>2. CASE events' = events \o <<scanning>>
      <4> DEFINE list == <<scanning>>
      <4>1. /\ list \in Seq(Event) /\ list # << >> /\ list[Len(list)] = scanning
            /\ \A j \in DOMAIN list : list[j] = scanning
        BY <2>2
      <4> HIDE DEF list
      <4>2. events' = events \o list
        BY <3>2 DEF list
      <4>3. /\ View' = IF screen = "phones" \/ list = << >> THEN View
                       ELSE ScreenOf(list[Len(list)])
            /\ \A i \in DOMAIN events' :
                 \/ i \in DOMAIN events /\ events'[i] = events[i]
                 \/ \E j \in DOMAIN list : events'[i] = list[j] /\ i = Len(events) + j
        BY <1>1, <4>1, <4>2, Tells
      <4> QED
        BY <1>3, <2>2, <4>1, <4>3
    <3> QED
      BY <2>1, <3>1, <3>2
  <2>4. worker'.at \in {"scan", "connect"} /\ ~Low' /\ Alive'
    BY <1>1, <2>1 DEF Low, Unstarted, Alive
  <2>5. Cancels'
    BY <1>1, <1>2, <1>5 DEF Orderly, Cancels, EndsInCancel
  <2>6. Balanced'
    <3>1. PICK h : Balance(h)
      BY <1>1 DEF Orderly, Balanced
    <3>2. PICK k : Covered(k)' /\ k[1] \in Int /\ k[1] = h[1] - Weight(command)
      BY <1>1, <3>1, CoveredTaking DEF Balance, command
    <3>3. Weight(command) = 1
      BY <1>5 DEF Weight
    <3>4. h[1] \in Int /\ h[1] + Offers <= 3
      BY <1>1, <3>1, CoveredHeads, OffersAre DEF Balance
    <3>5. Offers' <= Offers + 1 /\ Offers' \in Int /\ Offers \in Int
      <4>1. /\ One(worker.at # "idle") = 0 /\ One(worker'.at # "idle") = 1
            /\ One(search' # NoCamera) = One(search # NoCamera)
            /\ One(search # NoCamera) = 0
        BY <1>1, <2>4 DEF One
      <4>2. One(View' \in Offering) <= One(View \in Offering)
        BY <2>3 DEF One, Offering
      <4>3. One(View' \in Offering) \in {0, 1} /\ One(View \in Offering) \in {0, 1}
        BY DEF One
      <4> QED
        BY <4>1, <4>2, <4>3 DEF Offers
    <3>6. k[1] + Offers' <= 3
      BY <3>2, <3>3, <3>4, <3>5
    <3> QED
      BY <2>4, <3>2, <3>6 DEF Balanced, Balance
  <2>7. Followed'
    BY <2>4 DEF Followed, Begun
  <2>8. Ready'
    <3>1. View \notin {"wifiReady", "homeWifi"}
      BY <1>1, <1>5 DEF Orderly, Ready, Clear, command
    <3> QED
      BY <2>3, <3>1 DEF Ready
  <2>9. Joins'
    <3>1. \A i \in DOMAIN cmds' : cmds'[i].do # "station"
      <4> TAKE i \in DOMAIN cmds'
      <4>1. i + 1 \in DOMAIN cmds /\ cmds'[i] = cmds[i + 1] /\ i + 1 # 1
        <5>1. i \in 1 .. Len(cmds')
          BY <1>1
        <5> QED
          BY <1>2, <5>1
      <4>2. ~Asked(i + 1)
        BY <1>5, <4>1 DEF Asked, command
      <4> QED
        BY <1>1, <4>1, <4>2 DEF Orderly, Joins
    <3>2. command.do = "station" => pending.model = command.camera
      BY <1>1, <1>2, <1>5 DEF Orderly, Joins, Asked, command
    <3> QED
      BY <1>1, <2>1, <2>4, <3>1, <3>2 DEF Joins
  <2>10. Searches'
    BY <1>1, <2>3 DEF Searches
  <2> QED
    BY <1>1, <2>5, <2>6, <2>7, <2>8, <2>9, <2>10 DEF Orderly
<1> QED
  BY <1>4, <1>5

(* What a worker that goes back to idle says in the end is one event.        *)
LEMMA EndsWith ==
  ASSUME IInv, Orderly, outcome = "none",
         UNCHANGED <<screen, pending, search, outcome>>, RemembersOneCamera',
         worker.at \notin {"idle", "stopped"}, worker' = Idle,
         NEW event \in Event, events' = events \o <<event>>,
         UNCHANGED cmds \/ Waited \/ (CutShort /\ Low),
         event.kind = "credentials" => Low /\ Waited,
         event.kind = "stationDone" => Begun /\ Waited /\ event.ssid = worker.ssid
  PROVE  Orderly'
<1> DEFINE list == <<event>>
<1>1. /\ list \in Seq(Event) /\ events' = events \o list
      /\ \A i \in DOMAIN list : list[i] = event /\ i = Len(list)
  OBVIOUS
<1> HIDE DEF list
<1>2. CutShort => Low
  BY NotCut DEF IInv, TypeOK
<1> QED
  BY <1>1, <1>2, Ends

LEMMA EndsSilently ==
  ASSUME IInv, Orderly, outcome = "none",
         UNCHANGED <<screen, pending, search, saved, outcome>>,
         worker.at \notin {"idle", "stopped"}, worker' = Idle,
         events' = events \o << >>,
         UNCHANGED cmds \/ Waited \/ CutShort
  PROVE  Orderly'
<1>1. RemembersOneCamera'
  BY DEF Orderly, RemembersOneCamera
<1>2. \A i \in DOMAIN << >> : FALSE
  OBVIOUS
<1>3. << >> \in Seq(Event)
  OBVIOUS
<1> QED
  BY <1>1, <1>2, <1>3, Ends

(* The scan, and every failure that disconnects or never connected.          *)
LEMMA FailuresAreOrderly ==
  ASSUME IInv, Orderly, UNCHANGED saved,
         \/ \E result \in {"found", "none", "error"} : ScanEnds(result)
         \/ ConnectFails
         \/ WriteFails
         \/ \E at \in {"pin", "session", "provision", "reset"} : Cancelled(at)
         \/ ReadCancelled
         \/ \E at \in {"pin", "ssid", "password"} : TimesOut(at)
         \/ Unanswered
  PROVE  Orderly'
<1>1. RemembersOneCamera' /\ cmds \in Seq(Command)
  BY DEF Orderly, RemembersOneCamera, IInv, TypeOK
<1>2. \A kind \in {"found", "none", "error"} : Ev(kind) \in Event /\ Ev(kind).kind = kind
  BY EventTypes
<1>3. ASSUME NEW result \in {"found", "none", "error"}, ScanEnds(result)
      PROVE  Orderly'
  <2>1. /\ outcome = "none" /\ UNCHANGED <<screen, pending, search, outcome, cmds>>
        /\ worker.at = "scan" /\ worker' = Idle /\ events' = events \o <<Ev(result)>>
    BY <1>3 DEF ScanEnds, Work, Report
  <2>2. Ev(result) \in Event /\ Ev(result).kind \notin {"credentials", "stationDone"}
    BY <1>2
  <2> QED
    BY <1>1, <2>1, <2>2, EndsWith
<1>4. ASSUME \/ ConnectFails \/ WriteFails \/ Unanswered \/ ReadCancelled
             \/ \E at \in {"pin", "ssid", "password"} : TimesOut(at)
      PROVE  Orderly'
  <2>1. /\ outcome = "none" /\ UNCHANGED <<screen, pending, search, outcome>>
        /\ worker.at \notin {"idle", "stopped"} /\ worker' = Idle
        /\ events' = events \o <<Ev("error")>>
        /\ \/ UNCHANGED cmds \/ Waited
           \/ CutShort /\ worker.at \in {"ssid", "password"}
    BY <1>4 DEF ConnectFails, WriteFails, Unanswered, ReadCancelled, TimesOut, Work, Report,
                End, Waited, CutShort
  <2>2. CutShort /\ worker.at \in {"ssid", "password"} => Low
    <3>1. CutShort => Clear
      BY <1>1 DEF CutShort, CancelNext, Clear
    <3> QED
      BY <3>1 DEF Low
  <2>3. Ev("error") \in Event /\ Ev("error").kind = "error"
    BY <1>2
  <2> QED
    BY <1>1, <2>1, <2>2, <2>3, EndsWith
<1>5. ASSUME NEW at \in {"pin", "session", "provision", "reset"}, Cancelled(at)
      PROVE  Orderly'
  <2>1. /\ outcome = "none" /\ UNCHANGED <<screen, pending, search, outcome>>
        /\ worker.at \notin {"idle", "stopped"} /\ worker' = Idle
        /\ events' = events \o << >> /\ CutShort
    BY <1>5 DEF Cancelled, Work, Report, End, CutShort
  <2> QED
    BY <2>1, EndsSilently
<1> QED
  BY <1>3, <1>4, <1>5

(* Progress of one step, or none while nothing changes place.                *)
LEMMA OneStep ==
  /\ <<Step>> \in Seq(Event) /\ Progress(<<Step>>)
  /\ << >> \in Seq(Event) /\ (worker'.at = worker.at => Progress(<< >>))
<1>1. Step \in Event /\ Step.kind = "step"
  BY EventTypes
<1> HIDE DEF Step
<1>2. /\ <<Step>>[Len(<<Step>>)] = Step /\ <<Step>> # << >> /\ <<Step>> \in Seq(Event)
      /\ \A i \in DOMAIN <<Step>> : <<Step>>[i] = Step
  BY <1>1
<1>3. \A i \in DOMAIN << >> : FALSE
  OBVIOUS
<1> QED
  BY <1>1, <1>2, <1>3 DEF Progress

LEMMA ConnectIsOrderly ==
  ASSUME IInv, Orderly, Connect, UNCHANGED saved
  PROVE  Orderly'
<1>1. /\ outcome = "none" /\ UNCHANGED <<screen, pending, search, outcome, cmds>>
      /\ worker.at = "connect" /\ worker \in Worker /\ events' = events \o <<Step>>
      /\ worker' = [worker EXCEPT !.at = IF worker.op = "pair" THEN "pin" ELSE "session"]
  BY DEF Connect, Work, Report, IInv, TypeOK
<1>2. /\ worker'.at \in {"pin", "session"} /\ worker'.op = worker.op
      /\ worker'.target = worker.target
      /\ worker'.at = "session" => worker.op \in {"station", "reset"}
  BY <1>1 DEF Worker
<1>3. Moves(<<Step>>) /\ Onward /\ worker.at \in Operating /\ worker'.at \in Operating
  BY <1>1, <1>2 DEF Moves, Onward, Operating
<1>4. ~Unstarted' /\ ~Begun' /\ worker'.at # "provision"
  BY <1>2 DEF Unstarted, Begun
<1> QED
  BY <1>1, <1>2, <1>3, <1>4, OneStep, GoesOn

(* Pair: a poll that reports progress, or moves on.                          *)
LEMMA PairGoesOn ==
  ASSUME IInv, Orderly, outcome = "none",
         UNCHANGED <<screen, pending, search, saved, outcome>>,
         worker.at \in {"pin", "ap", "ssid", "password"},
         worker'.at \in {"pin", "ap", "ssid", "password"}, Onward,
         worker'.op = worker.op, worker'.target = worker.target,
         NEW list \in Seq(Event), events' = events \o list, Progress(list),
         Waited \/ (CutShort /\ worker.at = "ap" /\ worker'.at = "ssid")
  PROVE  Orderly'
<1>1. Moves(list) /\ worker.at \in Operating /\ worker'.at \in Operating
  BY DEF Moves, Operating
<1>2. /\ ~Unstarted' /\ ~Begun' /\ worker'.at # "provision" /\ worker'.at # "session"
  BY DEF Unstarted, Begun
<1> QED
  BY <1>1, <1>2, GoesOn

LEMMA PinPollIsOrderly ==
  ASSUME IInv, Orderly, PinPoll, UNCHANGED saved
  PROVE  Orderly'
<1> DEFINE said     == Heard({"approval", "refused"})
           accepted == Heard({"accepted", "request"}) # << >>
           reports  == [i \in 1 .. Len(said) |->
                          Ev(IF said[i].kind = "approval" THEN "approval" ELSE "error")]
           steps    == IF accepted THEN <<Step>> ELSE << >>
           list     == reports \o steps
<1>1. /\ outcome = "none" /\ UNCHANGED <<screen, pending, search, outcome>>
      /\ worker.at = "pin" /\ Waited /\ worker \in Worker /\ events' = events \o list
      /\ accepted => worker' = [worker EXCEPT !.at = "ap"]
      /\ ~accepted => worker' = worker
  BY DEF PinPoll, Work, Report, Waited, IInv, TypeOK
<1>2. said \in Seq(Frame)
  BY HeardType DEF IInv, TypeOK
<1>3. /\ \A kind \in {"approval", "error"} : Ev(kind) \in Event /\ Ev(kind).kind = kind
      /\ Step \in Event /\ Step.kind = "step"
  BY EventTypes
<1>4. /\ reports \in Seq(Event)
      /\ \A i \in DOMAIN reports : reports[i].kind \in {"approval", "error"}
  <2> HIDE DEF said
  <2>1. Len(said) \in Nat
    BY <1>2
  <2> QED
    BY <1>3, <2>1
<1> HIDE DEF reports
<1>5. /\ accepted => steps = <<Step>>
      /\ ~accepted => steps = << >>
  OBVIOUS
<1>6. CASE accepted
  <2>1. list = reports \o <<Step>>
    BY <1>5, <1>6
  <2> HIDE DEF list, accepted, steps, Step
  <2>2. /\ list \in Seq(Event) /\ list # << >> /\ list[Len(list)] = Step
        /\ \A i \in DOMAIN list : list[i] = Step \/ \E j \in DOMAIN reports : list[i] = reports[j]
    BY <1>3, <1>4, <2>1
  <2>3. Progress(list)
    BY <1>3, <1>4, <2>2 DEF Progress
  <2>4. worker'.at = "ap" /\ worker'.op = worker.op /\ worker'.target = worker.target
    BY <1>1, <1>6 DEF Worker
  <2> QED
    BY <1>1, <2>2, <2>3, <2>4, PairGoesOn DEF Onward
<1>7. CASE ~accepted
  <2>1. list = reports
    BY <1>4, <1>5, <1>7
  <2> HIDE DEF list, accepted, steps
  <2>2. list # << >> => Len(list) \in DOMAIN list
    BY <1>4, <2>1
  <2>3. Progress(list)
    BY <1>1, <1>4, <1>7, <2>1, <2>2 DEF Progress
  <2>4. worker'.at = "pin" /\ worker'.op = worker.op /\ worker'.target = worker.target
    BY <1>1, <1>7
  <2>5. list \in Seq(Event)
    BY <1>4, <2>1
  <2> QED
    BY <1>1, <2>3, <2>4, <2>5, PairGoesOn DEF Onward
<1> QED
  BY <1>6, <1>7

LEMMA ReadsAreOrderly ==
  ASSUME IInv, Orderly, UNCHANGED saved, WakePoll \/ WakeEnds \/ ReadName
  PROVE  Orderly'
<1>1. /\ outcome = "none" /\ UNCHANGED <<screen, pending, search, outcome>>
      /\ worker.at \in {"ap", "ssid"} /\ worker \in Worker
      /\ Waited \/ (CutShort /\ worker.at = "ap" /\ WakeEnds)
      /\ \/ /\ events' = events \o <<Step>>
            /\ \/ worker.at = "ap" /\ worker' = [worker EXCEPT !.at = "ssid"]
               \/ /\ worker.at = "ssid" /\ ~WakeEnds
                  /\ \E ssid : worker' = [worker EXCEPT !.at = "password", !.ssid = ssid]
         \/ UNCHANGED <<worker, events>> /\ ~WakeEnds
  <2>1. WakePoll => /\ worker.at = "ap" /\ Waited
                    /\ UNCHANGED <<screen, pending, search, outcome>> /\ outcome = "none"
                    /\ ToTheName \/ UNCHANGED <<worker, events>>
    BY DEF WakePoll, Work, Waited
  <2>2. WakeEnds => /\ worker.at = "ap" /\ (Waited \/ CutShort) /\ ToTheName
                    /\ UNCHANGED <<screen, pending, search, outcome>> /\ outcome = "none"
    BY DEF WakeEnds, Work, Waited, CutShort
  <2>3. ReadName => /\ worker.at = "ssid" /\ Waited
                    /\ UNCHANGED <<screen, pending, search, outcome>> /\ outcome = "none"
                    /\ \/ UNCHANGED <<worker, events>>
                       \/ /\ Report(<<Step>>)
                          /\ \E ssid : worker' = [worker EXCEPT !.at = "password", !.ssid = ssid]
    BY DEF ReadName, Work, Waited
  <2>4. worker \in Worker
    BY DEF IInv, TypeOK
  <2>5. WakeEnds => worker.at = "ap" /\ worker' = [worker EXCEPT !.at = "ssid"]
    BY <2>2 DEF ToTheName
  <2>6. WakeEnds => worker' # worker
    BY <2>4, <2>5 DEF Worker
  <2> QED
    BY <2>1, <2>2, <2>3, <2>4, <2>5, <2>6 DEF ToTheName, Report
<1>2. CASE UNCHANGED <<worker, events>> /\ ~WakeEnds
  <2>1. events' = events \o << >> /\ Progress(<< >>) /\ << >> \in Seq(Event)
    BY <1>2, OneStep DEF IInv, TypeOK
  <2> QED
    BY <1>1, <1>2, <2>1, PairGoesOn DEF Onward
<1>3. CASE ~(UNCHANGED <<worker, events>> /\ ~WakeEnds)
  <2>1. /\ \/ worker.at = "ap" /\ worker'.at = "ssid"
           \/ worker.at = "ssid" /\ worker'.at = "password"
        /\ worker'.op = worker.op /\ worker'.target = worker.target
        /\ events' = events \o <<Step>>
    BY <1>1, <1>3 DEF Worker
  <2> QED
    BY <1>1, <2>1, OneStep, PairGoesOn DEF Onward
<1> QED
  BY <1>2, <1>3

LEMMA ReadPasswordIsOrderly ==
  ASSUME IInv, Orderly, ReadPassword, UNCHANGED saved
  PROVE  Orderly'
<1> DEFINE passwords == Heard({"password"})
           event == [Ev("credentials") EXCEPT !.ssid = worker.ssid,
                                              !.password = passwords[Len(passwords)].from]
<1>1. /\ outcome = "none" /\ UNCHANGED <<screen, pending, search, outcome>>
      /\ worker.at = "password" /\ Waited /\ worker \in Worker
      /\ \/ UNCHANGED <<worker, events>>
         \/ passwords # << >> /\ worker' = Idle /\ events' = events \o <<event>>
  BY DEF ReadPassword, Work, Report, Waited, End, IInv, TypeOK
<1>2. CASE UNCHANGED <<worker, events>>
  <2>1. events' = events \o << >> /\ Progress(<< >>) /\ << >> \in Seq(Event)
    BY <1>2, OneStep DEF IInv, TypeOK
  <2> QED
    BY <1>1, <1>2, <2>1, PairGoesOn DEF Onward
<1>3. CASE passwords # << >> /\ worker' = Idle /\ events' = events \o <<event>>
  <2>1. /\ passwords \in Seq(Frame)
        /\ passwords # << >> => Len(passwords) \in 1 .. Len(passwords)
    BY HeardType DEF IInv, TypeOK
  <2> HIDE DEF passwords
  <2>2. passwords[Len(passwords)].from \in Some
    <3>1. passwords[Len(passwords)] \in Frame
      BY <1>3, <2>1
    <3>2. \A frame \in Frame : frame.from \in Some
      BY DEF Frame, Some
    <3> QED
      BY <3>1, <3>2
  <2>3. event \in Event /\ event.kind = "credentials"
    BY <1>1, <2>2 DEF Ev, Event, Worker, Some
  <2> HIDE DEF event
  <2>4. Low /\ RemembersOneCamera'
    BY <1>1 DEF Low, Orderly, RemembersOneCamera
  <2> QED
    BY <1>1, <1>3, <2>3, <2>4, EndsWith
<1> QED
  BY <1>1, <1>2, <1>3

LEMMA SessionPollIsOrderly ==
  ASSUME IInv, Orderly, SessionPoll, UNCHANGED saved
  PROVE  Orderly'
<1> DEFINE said     == Heard({"accepted", "approval", "refused", "request"})
           ask      == said # << >> /\ said[1].kind = "approval" /\ ~worker.asked
           asking   == IF ask THEN <<Ev("approval")>> ELSE << >>
           body     == NewMachine(BodyOf(worker.target))
<1>1. /\ outcome = "none" /\ UNCHANGED <<screen, pending, search, outcome>>
      /\ worker.at = "session" /\ Waited /\ worker \in Worker /\ Alive
      /\ \/ worker' = Idle /\ events' = events \o Append(asking, Ev("error"))
         \/ events' = events \o asking /\ worker' = [worker EXCEPT !.asked = @ \/ ask]
         \/ /\ events' = events \o Append(asking, Step)
            /\ worker' = [worker EXCEPT
                 !.at = IF worker.op = "reset" THEN "reset" ELSE "provision", !.m = body]
  BY DEF SessionPoll, Work, Report, Waited, End, IInv, TypeOK, Alive
<1>2. /\ \A kind \in {"approval", "error"} : Ev(kind) \in Event /\ Ev(kind).kind = kind
      /\ Step \in Event /\ Step.kind = "step"
      /\ <<Ev("approval")>> \in Seq(Event) /\ << >> \in Seq(Event)
  BY EventTypes
<1>3. asking \in Seq(Event) /\ \A i \in DOMAIN asking : asking[i].kind = "approval"
  <2>1. CASE ask
    <3>1. asking = <<Ev("approval")>>
      BY <2>1
    <3> HIDE DEF asking
    <3> QED
      BY <1>2, <3>1
  <2>2. CASE ~ask
    <3>1. asking = << >>
      BY <2>2
    <3> HIDE DEF asking
    <3> QED
      BY <1>2, <3>1
  <2> QED
    BY <2>1, <2>2
<1>4. body.step = "identity" /\ ~body.sent /\ body.state = "working"
  BY DEF NewMachine
<1>5. worker.op \in {"station", "reset"}
  BY <1>1 DEF Orderly, Joins
<1>6. RemembersOneCamera'
  BY DEF Orderly, RemembersOneCamera
<1>7. ASSUME NEW event \in {Ev("error"), Step}
      PROVE  /\ Append(asking, event) \in Seq(Event)
             /\ Append(asking, event) # << >>
             /\ Append(asking, event)[Len(Append(asking, event))] = event
             /\ \A i \in DOMAIN Append(asking, event) :
                  Append(asking, event)[i].kind \in {"approval", "error", "step"}
  <2>1. event \in Event /\ event.kind \in {"approval", "error", "step"}
    BY <1>2
  <2> HIDE DEF asking
  <2> QED
    BY <1>3, <2>1
<1> HIDE DEF ask, asking, body
<1>8. CASE worker' = Idle /\ events' = events \o Append(asking, Ev("error"))
  <2>1. PICK list \in Seq(Event) :
          /\ events' = events \o list
          /\ \A i \in DOMAIN list : list[i].kind \in {"approval", "error", "step"}
    BY <1>7, <1>8
  <2>2. ~CutShort
    BY <1>1 DEF Waited, CutShort
  <2> QED
    BY <1>1, <1>6, <1>8, <2>1, <2>2, Ends
<1>9. CASE events' = events \o asking /\ worker' = [worker EXCEPT !.asked = @ \/ ask]
  <2>1. worker'.at = "session" /\ worker'.op = worker.op /\ worker'.target = worker.target
    BY <1>1, <1>9 DEF Worker
  <2>2. /\ ~Unstarted' /\ ~Begun' /\ Moves(asking) /\ Onward
        /\ worker.at \in Operating /\ worker'.at \in Operating
    BY <1>1, <2>1 DEF Unstarted, Begun, Moves, Onward, Operating
  <2>3. asking # << >> => Len(asking) \in DOMAIN asking
    BY <1>3
  <2>4. Progress(asking)
    BY <1>1, <1>3, <2>1, <2>3 DEF Progress
  <2> QED
    BY <1>1, <1>3, <1>5, <1>9, <2>1, <2>2, <2>4, GoesOn
<1>10. CASE /\ events' = events \o Append(asking, Step)
            /\ worker' = [worker EXCEPT
                 !.at = IF worker.op = "reset" THEN "reset" ELSE "provision", !.m = body]
  <2>1. /\ worker'.at \in {"reset", "provision"} /\ worker'.op = worker.op
        /\ worker'.target = worker.target /\ worker'.m = body
        /\ worker'.at = "provision" => worker.op # "reset"
    BY <1>1, <1>10 DEF Worker
  <2>2. PICK list \in Seq(Event) :
          /\ events' = events \o list /\ list # << >> /\ list[Len(list)] = Step
          /\ \A i \in DOMAIN list : list[i].kind \in {"approval", "error", "step"}
    BY <1>7, <1>10
  <2>3. Progress(list)
    BY <1>2, <2>2 DEF Progress
  <2>4. /\ ~Begun' /\ Moves(list) /\ Onward
        /\ worker.at \in Operating /\ worker'.at \in Operating
    BY <1>1, <1>4, <2>1 DEF Unstarted, Begun, Moves, Onward, Operating
  <2> QED
    BY <1>1, <1>5, <2>1, <2>2, <2>3, <2>4, GoesOn
<1> QED
  BY <1>1, <1>8, <1>9, <1>10

(* A machine that was started never asks for the identity again.             *)
LEMMA StaysBegun ==
  ASSUME NEW m \in Machine, NEW answer, m.sent
  PROVE  LET n == Receive(m, answer) IN ~(n.step = "identity" /\ ~n.sent)
<1>1. \A step \in Steps : Schedule(m, step).step = step
  BY DEF Schedule, Machine
<1>2. Fail(m).sent = m.sent
  BY DEF Fail, Machine
<1>3. SettleThenJoin(m).step = "join"
  BY DEF SettleThenJoin, Schedule, Machine
<1>4. /\ [Schedule(m, "set") EXCEPT !.missing = TRUE].step = "set"
      /\ [Schedule(m, "readback") EXCEPT !.reads = 0].step = "readback"
      /\ [Schedule(m, "readback") EXCEPT !.reads = @ + 1].step = "readback"
      /\ [Schedule(m, "join") EXCEPT !.attempt = @ + 1].step = "join"
      /\ m.step = "join" => /\ [m EXCEPT !.state = "done", !.confirmed = TRUE].step = "join"
                            /\ [m EXCEPT !.state = "done"].step = "join"
  BY DEF Schedule, Machine
<1>5. CASE m.step = "identity" \/ m.step = "videoMode"
  <2>1. /\ Schedule(m, "videoMode").step = "videoMode" /\ Schedule(m, "role").step = "role"
    BY <1>1 DEF Steps
  <2>2. Receive(m, answer) \in {Schedule(m, "videoMode"), Schedule(m, "role"), Fail(m)}
    BY <1>5 DEF Receive
  <2> QED
    BY <1>2, <2>1, <2>2
<1>6. CASE m.step \in {"role", "set", "readback", "join"}
  <2> DEFINE set      == Schedule(m, "set")
             missing  == [Schedule(m, "set") EXCEPT !.missing = TRUE]
             first    == [Schedule(m, "readback") EXCEPT !.reads = 0]
             again    == [Schedule(m, "readback") EXCEPT !.reads = @ + 1]
             retry    == [Schedule(m, "join") EXCEPT !.attempt = @ + 1]
             joined   == [m EXCEPT !.state = "done", !.confirmed = TRUE]
             unheard  == [m EXCEPT !.state = "done"]
  <2>1. /\ m.step = "role" => Receive(m, answer) \in {SettleThenJoin(m), set, missing, Fail(m)}
        /\ m.step = "set" => Receive(m, answer) \in {SettleThenJoin(m), first, Fail(m)}
        /\ m.step = "readback" => Receive(m, answer) \in {SettleThenJoin(m), again, Fail(m)}
        /\ m.step = "join" => Receive(m, answer) \in {joined, retry, unheard, Fail(m)}
    BY DEF Receive, ReceiveRole, ReceiveSet, ReceiveReadback, ReceiveJoin
  <2>2. set.step = "set"
    BY <1>1 DEF Steps
  <2> HIDE DEF set, missing, first, again, retry, joined, unheard
  <2>3. \/ Receive(m, answer) \in {SettleThenJoin(m), set, missing, Fail(m), first, again}
        \/ m.step = "join" /\ Receive(m, answer) \in {joined, retry, unheard, Fail(m)}
    BY <1>6, <2>1
  <2>4. /\ missing.step = "set" /\ first.step = "readback" /\ again.step = "readback"
        /\ retry.step = "join"
        /\ m.step = "join" => joined.step = "join" /\ unheard.step = "join"
    BY <1>4 DEF missing, first, again, retry, joined, unheard
  <2> QED
    BY <1>2, <1>3, <2>2, <2>3, <2>4
<1> QED
  BY <1>5, <1>6 DEF Machine, Steps

(* Provisioning goes on: a machine that was started stays so.                *)
LEMMA ProvisioningGoesOn ==
  ASSUME IInv, Orderly, outcome = "none",
         UNCHANGED <<screen, pending, search, saved, outcome>>,
         worker.at = "provision", NEW m, NEW ssid,
         worker' = [worker EXCEPT !.m = m, !.ssid = ssid],
         NEW list \in {<< >>, <<Step>>}, events' = events \o list,
         Waited \/ (UNCHANGED cmds /\ list = << >> /\ Begun),
         ~(m.step = "identity" /\ ~m.sent) \/ m = worker.m
  PROVE  Orderly'
<1>1. worker \in Worker /\ Alive
  BY DEF IInv, TypeOK, Alive
<1>2. /\ worker'.at = "provision" /\ worker'.op = worker.op /\ worker'.target = worker.target
      /\ worker'.m = m
  BY <1>1 DEF Worker
<1>3. worker.op = "station"
  BY <1>1 DEF Orderly, Joins
<1>4. /\ Unstarted' => Unstarted
      /\ Begun' => Begun \/ (Unstarted /\ Waited)
      /\ Onward /\ worker.at \in Operating /\ worker'.at \in Operating
  BY <1>2 DEF Unstarted, Begun, Onward, Operating
<1>5. Progress(list) /\ list \in Seq(Event) /\ Moves(list)
  BY <1>2, OneStep DEF Moves
<1> QED
  BY <1>1, <1>2, <1>3, <1>4, <1>5, GoesOn

LEMMA SendStepIsOrderly ==
  ASSUME IInv, Orderly, SendStep, UNCHANGED saved
  PROVE  Orderly'
<1> DEFINE m    == IF worker.m.step = "videoMode" THEN Receive(worker.m, "sent")
                   ELSE [worker.m EXCEPT !.sent = TRUE]
           list == IF worker.m.reads > 0 THEN << >> ELSE <<Step>>
<1>1. /\ outcome = "none" /\ UNCHANGED <<screen, pending, search, outcome>>
      /\ worker.at = "provision" /\ Waited /\ worker \in Worker /\ worker.m \in Machine
      /\ events' = events \o list /\ worker' = [worker EXCEPT !.m = m]
  BY DEF SendStep, Work, Report, Waited, IInv, TypeOK, Worker
<1>2. ~(m.step = "identity" /\ ~m.sent)
  <2>1. CASE worker.m.step = "videoMode"
    <3>1. m = Schedule(worker.m, "role")
      BY <2>1 DEF Receive
    <3> HIDE DEF m
    <3> QED
      BY <1>1, <3>1 DEF Schedule, Machine
  <2>2. CASE worker.m.step # "videoMode"
    BY <1>1, <2>2 DEF Machine
  <2> QED
    BY <2>1, <2>2
<1>3. list \in {<< >>, <<Step>>}
  OBVIOUS
<1> HIDE DEF m, list
<1>4. PICK n, ssid : /\ worker' = [worker EXCEPT !.m = n, !.ssid = ssid]
                     /\ ~(n.step = "identity" /\ ~n.sent)
  <2>1. worker' = [worker EXCEPT !.m = m, !.ssid = worker.ssid]
    BY <1>1 DEF Worker
  <2> QED
    BY <1>2, <2>1
<1>5. PICK told \in {<< >>, <<Step>>} : events' = events \o told
  BY <1>1, <1>3
<1> QED
  BY <1>1, <1>4, <1>5, ProvisioningGoesOn

LEMMA AnswersAreOrderly ==
  ASSUME IInv, Orderly, UNCHANGED saved,
         (\E answer : StepAnswered(answer)) \/ StepUnanswered \/ StepWaits
  PROVE  Orderly'
<1>1. /\ outcome = "none" /\ UNCHANGED <<screen, pending, search, outcome>>
      /\ worker.at = "provision" /\ worker \in Worker /\ worker.m \in Machine
      /\ UNCHANGED events /\ worker.m.sent /\ Begun
      /\ Waited \/ UNCHANGED cmds
      /\ \/ \E answer, ssid : worker' = [worker EXCEPT !.m = Receive(worker.m, answer),
                                                       !.ssid = ssid]
         \/ worker' = [worker EXCEPT !.m = Receive(worker.m, "timeout")]
         \/ worker' = worker
  <2>1. ASSUME NEW answer, StepAnswered(answer)
        PROVE  /\ outcome = "none" /\ UNCHANGED <<screen, pending, search, outcome, events>>
               /\ worker.at = "provision" /\ worker.m.sent /\ Waited
               /\ \E ssid : worker' = [worker EXCEPT !.m = Receive(worker.m, answer),
                                                    !.ssid = ssid]
    BY <2>1 DEF StepAnswered, Work, Waited
  <2>2. StepUnanswered =>
          /\ outcome = "none" /\ UNCHANGED <<screen, pending, search, outcome, events, cmds>>
          /\ worker.at = "provision" /\ worker.m.sent
          /\ worker' = [worker EXCEPT !.m = Receive(worker.m, "timeout")]
    BY DEF StepUnanswered, Work
  <2>3. StepWaits =>
          /\ outcome = "none" /\ UNCHANGED <<screen, pending, search, outcome, events, worker>>
          /\ worker.at = "provision" /\ worker.m.sent /\ Waited
    BY DEF StepWaits, Work, Waited
  <2>4. worker \in Worker /\ worker.m \in Machine
    BY DEF IInv, TypeOK, Worker
  <2>5. worker.at = "provision" /\ worker.m.sent => Begun
    BY DEF Begun, Unstarted
  <2> QED
    BY <2>1, <2>2, <2>3, <2>4, <2>5
<1>2. PICK m, ssid : /\ worker' = [worker EXCEPT !.m = m, !.ssid = ssid]
                     /\ m = worker.m \/ \E answer : m = Receive(worker.m, answer)
  <2>1. CASE worker' = worker
    <3>1. worker' = [worker EXCEPT !.m = worker.m, !.ssid = worker.ssid]
      BY <1>1, <2>1 DEF Worker
    <3> QED
      BY <3>1
  <2>2. CASE worker' = [worker EXCEPT !.m = Receive(worker.m, "timeout")]
    <3> DEFINE m == Receive(worker.m, "timeout")
    <3>1. worker' = [worker EXCEPT !.m = m] /\ \E answer : m = Receive(worker.m, answer)
      BY <2>2
    <3> HIDE DEF m
    <3>2. worker' = [worker EXCEPT !.m = m, !.ssid = worker.ssid]
      BY <1>1, <3>1 DEF Worker
    <3> QED
      BY <3>1, <3>2
  <2>3. CASE \E answer, ssid : worker' = [worker EXCEPT !.m = Receive(worker.m, answer),
                                                        !.ssid = ssid]
    BY <2>3
  <2> QED
    BY <1>1, <2>1, <2>2, <2>3
<1>3. ~(m.step = "identity" /\ ~m.sent)
  <2>1. \A answer : LET n == Receive(worker.m, answer) IN ~(n.step = "identity" /\ ~n.sent)
    BY <1>1, StaysBegun
  <2> QED
    BY <1>1, <1>2, <2>1
<1>4. events' = events \o << >>
  BY <1>1, Quiet DEF IInv
<1> QED
  BY <1>1, <1>2, <1>3, <1>4, ProvisioningGoesOn

LEMMA ProvisioningEndsIsOrderly ==
  ASSUME IInv, Orderly, ProvisioningEnds, UNCHANGED saved
  PROVE  Orderly'
<1> DEFINE event == IF worker.m.state = "failed" THEN Ev("error")
                    ELSE [Ev("stationDone") EXCEPT !.ssid = worker.ssid,
                                                   !.confirmed = worker.m.confirmed]
<1>1. /\ outcome = "none" /\ UNCHANGED <<screen, pending, search, outcome>>
      /\ worker.at = "provision" /\ Waited /\ worker \in Worker
      /\ worker' = Idle /\ events' = events \o <<event>> /\ Begun
  BY DEF ProvisioningEnds, Work, Report, Waited, End, IInv, TypeOK, Begun, Unstarted
<1>2. event \in Event /\ (event.kind = "error" \/ (event.kind = "stationDone" /\ event.ssid = worker.ssid))
  BY <1>1 DEF Ev, Event, Some, Worker, Machine
<1> HIDE DEF event
<1>3. RemembersOneCamera'
  BY DEF Orderly, RemembersOneCamera
<1> QED
  BY <1>1, <1>2, <1>3, EndsWith

(* The reset is answered, or waited for: what is remembered is forgotten.    *)
LEMMA ResetIsOrderly ==
  ASSUME IInv, Orderly,
         \/ \E accepted \in BOOLEAN : ResetAnswered(accepted)
         \/ ResetWaits /\ UNCHANGED saved
  PROVE  Orderly'
<1>1. /\ outcome = "none" /\ UNCHANGED <<screen, pending, search, outcome>>
      /\ worker.at = "reset" /\ Waited /\ worker \in Worker
  BY DEF ResetAnswered, ResetWaits, Work, Waited, IInv, TypeOK
<1>2. ASSUME NEW accepted \in BOOLEAN, ResetAnswered(accepted)
      PROVE  Orderly'
  <2> DEFINE event == Ev(IF accepted THEN "stationReset" ELSE "error")
  <2>1. worker' = Idle /\ events' = events \o <<event>>
    BY <1>2 DEF ResetAnswered, End, Report
  <2>2. event \in Event /\ event.kind \in {"stationReset", "error"}
    BY DEF Ev, Event, Some
  <2> HIDE DEF event
  <2>3. RemembersOneCamera'
    BY <1>2 DEF ResetAnswered, Orderly, RemembersOneCamera, Nothing
  <2> QED
    BY <1>1, <2>1, <2>2, <2>3, EndsWith
<1>3. CASE ResetWaits /\ UNCHANGED saved
  <2>1. UNCHANGED <<worker, events>> /\ ~Begun' /\ ~Unstarted'
    BY <1>1, <1>3 DEF ResetWaits, Begun, Unstarted
  <2>2. /\ events' = events \o << >> /\ Progress(<< >>) /\ << >> \in Seq(Event)
        /\ Moves(<< >>) /\ Onward /\ worker.at \in Operating /\ worker'.at \in Operating
    BY <1>1, <2>1, OneStep DEF IInv, TypeOK, Moves, Onward, Operating
  <2> QED
    BY <1>1, <1>3, <2>1, <2>2, GoesOn
<1> QED
  BY <1>2, <1>3

-----------------------------------------------------------------------------
LEMMA OrderlyNext ==
  ASSUME IInv, Orderly, [Next]_vars
  PROVE  Orderly'
<1>1. CASE Operator \/ Drain
  BY <1>1, OperatorIsOrderly, DrainIsOrderly
<1>2. CASE \E found \in BOOLEAN : SearchAnswer(found)
  BY <1>2, SearchIsOrderly
<1>3. CASE \E c \in Cameras : \E kind \in Written(worker.at) : Notify(c, kind)
  BY <1>3, NotifyIsOrderly
<1>4. CASE Works
  BY <1>4, TakeCommandIsOrderly, FailuresAreOrderly, PinPollIsOrderly, ReadsAreOrderly,
     ReadPasswordIsOrderly, SessionPollIsOrderly, SendStepIsOrderly, AnswersAreOrderly,
     ProvisioningEndsIsOrderly, ResetIsOrderly DEF Works
<1>5. CASE Connects \/ Resets
  BY <1>5, ConnectIsOrderly, FailuresAreOrderly, ResetIsOrderly DEF Connects, Resets
<1>6. CASE Deadline
  BY <1>6, FailuresAreOrderly, AnswersAreOrderly DEF Deadline
<1>7. CASE UNCHANGED vars
  BY <1>7, SameIsOrderly DEF vars, ui
<1> QED
  BY <1>1, <1>2, <1>3, <1>4, <1>5, <1>6, <1>7 DEF Next

LEMMA OrderlyAlways == Spec => []Orderly
BY OrderlyAtFirst, OrderlyNext, Invariance, PTL DEF Spec

(* However many cameras there are, however often the operator leaves an      *)
(* attempt and starts another, and however many events wait for a frame: the *)
(* model and the identity that are remembered (update, station::save) came   *)
(* from one camera.                                                          *)
THEOREM OneCameraIsRemembered == Spec => []RemembersOneCamera
<1>1. Orderly => RemembersOneCamera
  BY DEF Orderly
<1> QED
  BY <1>1, OrderlyAlways, PTL

LEMMA PhonesNext ==
  ASSUME Orderly, [Next]_vars
  PROVE  screen = "phones" /\ screen' # "phones" => BackToCameras
<1> SUFFICES ASSUME screen = "phones", screen' # "phones"
             PROVE  BackToCameras
  OBVIOUS
<1>1. CASE Operator
  BY <1>1 DEF Operator, Pick, ScanAgain, CancelPairing, BrowsePhones, BackToCameras, HomeWifi,
              JoinHomeWifi, ResetStation, Choose, Finish, Click, Press, GoTo
<1>2. CASE Drain
  BY <1>2 DEF Drain
<1>3. CASE \E found \in BOOLEAN : SearchAnswer(found)
  BY <1>3 DEF SearchAnswer, Orderly, Searches
<1>4. CASE \E c \in Cameras : \E kind \in Written(worker.at) : Notify(c, kind)
  BY <1>4 DEF Notify, ui
<1>5. CASE Works \/ Connects \/ Resets
  BY <1>5 DEF Works, Connects, Resets, TakeCommand, ScanEnds, Connect, ConnectFails,
     WriteFails, Cancelled, PinPoll, ReadName, ReadPassword, ReadCancelled, WakePoll,
     WakeEnds, SessionPoll, SendStep, StepWaits, ProvisioningEnds, StepAnswered, ResetWaits,
     ResetAnswered, Work
<1>6. CASE Deadline
  BY <1>6 DEF Deadline, TimesOut, Unanswered, StepUnanswered, Work
<1>7. CASE UNCHANGED vars
  BY <1>7 DEF vars, ui
<1> QED
  BY <1>1, <1>2, <1>3, <1>4, <1>5, <1>6, <1>7 DEF Next

(* The phone screen is left by its own button alone: the worker's events are *)
(* held back there (update), and no LAN search is still running that could   *)
(* fail under it, after any number of presses, events and attempts.          *)
THEOREM PhonesAreLeftByChoice == Spec => PhonesLeftByChoice
<1>1. Orderly /\ [Next]_vars => [screen = "phones" /\ screen' # "phones" => BackToCameras]_vars
  BY PhonesNext
<1> QED
  BY <1>1, OrderlyAlways, PTL DEF Spec, PhonesLeftByChoice

=============================================================================
