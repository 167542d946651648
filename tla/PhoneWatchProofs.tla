-------------------------- MODULE PhoneWatchProofs --------------------------
(***************************************************************************)
(* Proofs about PhoneWatch for every value of its constants: any time      *)
(* limits, any number of retries the pauses allow for, a wire and a        *)
(* channel of any length, a phone that does what it likes.                 *)
(***************************************************************************)
EXTENDS PhoneWatch, TLAPS

LEMMA Constants ==
  /\ JoinTimeout \in Nat /\ FirstPicture \in Nat /\ SilenceTimeout \in Nat
  /\ StableAfter \in Nat /\ 0 < StableAfter /\ MaxGap \in Nat /\ MaxRetries \in Nat
  /\ ParkWindow \in Nat /\ Off = -1 /\ Off \in Clocks
  /\ MaxWire \in Nat /\ MaxAsks \in Nat
<1>1. Len(Pauses) = 3
  BY DEF Pauses
<1> QED
  BY <1>1, RecoveryAssumption, LeaseAssumption, WatchAssumption DEF Off, Clocks

LEMMA PausesArePositive ==
  ASSUME NEW n \in 0 .. MaxRetries, n < MaxRetries
  PROVE  Pauses[n + 1] \in Nat /\ Pauses[n + 1] > 0
<1>1. Len(Pauses) = 3
  BY DEF Pauses
<1>2. n \in {0, 1, 2}
  BY <1>1, RecoveryAssumption
<1> QED
  BY <1>2 DEF Pauses

-----------------------------------------------------------------------------
(***************************************************************************)
(* The join, as a value of session.                                        *)
(***************************************************************************)
(* What a session at a turn of its loop, or about to dial, agrees on with  *)
(* its recovery policy.                                                    *)
Coherent(s) ==
  /\ s \in Session
  /\ s.open => s.at = "loop"
  /\ s.at # "over" => ~s.recovery.stopped
  /\ s.at = "dial" => s.recovery.retryIn = Off /\ s.status # "live"
  /\ s.at = "loop" /\ s.open => s.recovery.retryIn = Off
  /\ s.at = "loop" /\ ~s.open =>
       s.recovery.retryIn # Off /\ s.recovery.picture = Off /\ s.recovery.deadline = Off
  /\ s.at = "loop" /\ s.status = "live" =>
       s.open /\ s.recovery.accepted /\ s.recovery.picture # Off
  /\ s.at # "over" /\ s.status # "live" => s.token = "host" /\ ~s.recovery.accepted

(* The end of a join.                                                      *)
Ended(s) == Coherent(s) /\ s.at = "over" /\ ~s.open

(* The pause before the next dial.                                         *)
Pausing(s) ==
  /\ Coherent(s) /\ s.at = "loop" /\ ~s.open /\ s.status = "reconnecting"
  /\ s.recovery.retryIn > 0

LEMMA ClockTypes ==
  ASSUME NEW r \in Recovery
  PROVE  /\ r.retries \in 0 .. MaxRetries
         /\ r.retryIn \in Clocks /\ r.deadline \in Clocks /\ r.picture \in Clocks
         /\ r.gap \in Clocks /\ r.steady \in Clocks
         /\ r.accepted \in BOOLEAN /\ r.stopped \in BOOLEAN
BY DEF Recovery

LEMMA SessionTypes ==
  ASSUME NEW s \in Session
  PROVE  /\ s.at \in {"loop", "dial", "over"}
         /\ s.status \in {"connecting", "reconnecting", "live", "passcode", "failed"}
         /\ s.token \in Holders /\ s.allows \in BOOLEAN /\ s.open \in BOOLEAN
         /\ s.recovery \in Recovery
BY DEF Session

LEMMA FailEnds ==
  ASSUME NEW s \in Session
  PROVE  /\ Ended(Fail(s)) /\ Fail(s).recovery.retries = s.recovery.retries
         /\ Fail(s).recovery.retryIn = Off /\ Fail(s).status = "failed"
<1>1. Stop(s.recovery) \in Recovery /\ Stop(s.recovery).retries = s.recovery.retries
      /\ Stop(s.recovery).retryIn = Off
  BY SessionTypes, Constants DEF Stop, Recovery
<1> DEFINE f == [s EXCEPT !.recovery = Stop(@), !.open = FALSE, !.token = "host",
                          !.status = "failed", !.at = "over"]
<1>2. f \in Session
  BY <1>1 DEF Session, Holders
<1>3. f.at = "over" /\ f.open = FALSE /\ f.recovery = Stop(s.recovery) /\ f.status = "failed"
  BY DEF Session
<1> QED
  BY <1>1, <1>2, <1>3 DEF Fail, Ended, Coherent

LEMMA PasscodeEnds ==
  ASSUME NEW s \in Session
  PROVE  /\ Ended(NeedPasscode(s)) /\ NeedPasscode(s).recovery.retries = s.recovery.retries
         /\ NeedPasscode(s).recovery.retryIn = Off /\ NeedPasscode(s).status = "passcode"
<1>1. Stop(s.recovery) \in Recovery /\ Stop(s.recovery).retries = s.recovery.retries
      /\ Stop(s.recovery).retryIn = Off
  BY SessionTypes, Constants DEF Stop, Recovery
<1> DEFINE f == [s EXCEPT !.recovery = Stop(@), !.open = FALSE,
                          !.status = "passcode", !.at = "over"]
<1>2. f \in Session
  BY <1>1 DEF Session
<1>3. f.at = "over" /\ f.open = FALSE /\ f.recovery = Stop(s.recovery) /\ f.status = "passcode"
  BY DEF Session
<1> QED
  BY <1>1, <1>2, <1>3 DEF NeedPasscode, Ended, Coherent

LEMMA BreakEnds ==
  ASSUME NEW s \in Session
  PROVE  Ended(Break(s)) /\ Break(s).recovery = s.recovery /\ Break(s).status = s.status
<1> DEFINE f == [s EXCEPT !.open = FALSE, !.at = "over"]
<1>1. f \in Session
  BY DEF Session
<1>2. f.at = "over" /\ f.open = FALSE /\ f.recovery = s.recovery /\ f.status = s.status
  BY DEF Session
<1> QED
  BY <1>1, <1>2 DEF Break, Ended, Coherent

(* A connection that is lost is followed by a pause, or the retries are     *)
(* used up and the join is over.                                            *)
LEMMA LostPausesOrEnds ==
  ASSUME NEW s \in Session, s.at = "loop", ~s.recovery.stopped, s.recovery.retryIn = Off
  PROVE  LET l == ConnectionLost(s)
         IN /\ Pausing(l) \/ Ended(l)
            /\ l.status # "live"
            /\ Pausing(l) => l.recovery.retries = s.recovery.retries + 1
            /\ Ended(l) => l.recovery.retries = s.recovery.retries /\ l.recovery.retryIn = Off
<1> DEFINE r == s.recovery
           d == Disconnected(r)
           lost == [s EXCEPT !.recovery = d]
<1>1. r \in Recovery /\ r.retries \in 0 .. MaxRetries
  BY SessionTypes, ClockTypes
<1>2. CASE r.retries < MaxRetries
  <2>1. Pauses[r.retries + 1] \in Nat /\ Pauses[r.retries + 1] > 0
    BY <1>1, <1>2, PausesArePositive
  <2>2. r.retries + 1 \in 0 .. MaxRetries
    BY <1>1, <1>2, Constants
  <2>3. d = [[r EXCEPT !.accepted = FALSE, !.steady = Off, !.gap = Off,
                       !.picture = Off, !.deadline = Off]
              EXCEPT !.retryIn = Pauses[r.retries + 1], !.retries = @ + 1]
    BY <1>1, <1>2 DEF Disconnected, Recovery
  <2>4. /\ d \in Recovery
        /\ d.retries = r.retries + 1 /\ d.retryIn = Pauses[r.retries + 1]
        /\ d.picture = Off /\ d.deadline = Off /\ d.accepted = FALSE
        /\ ~d.stopped
    <3>1. Off \in Clocks /\ Pauses[r.retries + 1] \in Clocks
      BY <2>1, Constants DEF Clocks
    <3>2. d \in Recovery
      BY <1>1, <2>2, <2>3, <3>1 DEF Recovery
    <3>3. /\ d.retries = r.retries + 1 /\ d.retryIn = Pauses[r.retries + 1]
          /\ d.picture = Off /\ d.deadline = Off /\ d.accepted = FALSE
          /\ d.stopped = r.stopped
      BY <1>1, <2>3 DEF Recovery
    <3> QED
      BY <3>2, <3>3
  <2> HIDE DEF d
  <2>5. ConnectionLost(s) = [lost EXCEPT !.open = FALSE, !.token = "host",
                                         !.status = "reconnecting"]
    BY <2>4 DEF ConnectionLost, BeginReconnect, Session, d
  <2>6. /\ ConnectionLost(s) \in Session
        /\ ConnectionLost(s).recovery = d /\ ConnectionLost(s).at = "loop"
        /\ ConnectionLost(s).open = FALSE /\ ConnectionLost(s).token = "host"
        /\ ConnectionLost(s).status = "reconnecting"
    BY <2>4, <2>5 DEF Session, Holders
  <2> QED
    BY <2>1, <2>4, <2>6, Constants DEF Pausing, Ended, Coherent
<1>3. CASE ~(r.retries < MaxRetries)
  <2>1. d = [[r EXCEPT !.accepted = FALSE, !.steady = Off, !.gap = Off,
                       !.picture = Off, !.deadline = Off]
              EXCEPT !.stopped = TRUE]
    BY <1>1, <1>3 DEF Disconnected, Recovery
  <2>2. d \in Recovery /\ d.retries = r.retries /\ d.stopped
    BY <1>1, <2>1, Constants DEF Recovery
  <2> HIDE DEF d
  <2>3. lost \in Session /\ lost.recovery = d
    BY <2>2 DEF Session
  <2>4. ConnectionLost(s) = Fail(lost)
    BY <2>2, <2>3 DEF ConnectionLost, d
  <2> QED
    BY <2>2, <2>3, <2>4, FailEnds DEF Pausing, Ended
<1> QED
  BY <1>2, <1>3

LEMMA TickWhilePausing ==
  ASSUME NEW s, Coherent(s), s.at = "loop", ~s.open
  PROVE  LET t == Tick(s)
         IN /\ Coherent(t) /\ ~t.open /\ t.status # "live"
            /\ t.recovery.retries = s.recovery.retries
            /\ t.at \in {"loop", "dial"}
            /\ t.at = "dial" => t.recovery.retryIn = Off /\ s.recovery.retryIn = 0
            /\ t.at = "loop" => t.recovery.retryIn = s.recovery.retryIn
<1> DEFINE r == s.recovery
<1>0. s \in Session /\ r \in Recovery /\ ~r.stopped /\ r.retryIn # Off
      /\ r.picture = Off /\ r.deadline = Off
  BY SessionTypes DEF Coherent
<1>1. ~Overdue(r)
  BY <1>0, Constants DEF Overdue
<1>2. CASE r.retryIn = 0
  <2>1. Tick(s) = Dial(s)
    BY <1>0, <1>2 DEF Tick, RetryDue
  <2>2. Retry(r) \in Recovery /\ Retry(r).retryIn = Off /\ Retry(r).retries = r.retries
        /\ ~Retry(r).stopped /\ ~Retry(r).accepted
    BY <1>0, Constants DEF Retry, Recovery, Clocks, Coherent
  <2>3. /\ Dial(s) \in Session /\ Dial(s).recovery = Retry(r) /\ Dial(s).at = "dial"
        /\ Dial(s).open = FALSE /\ Dial(s).status \in {"reconnecting", "connecting"}
        /\ Dial(s).token = s.token
    BY <1>0, <2>2 DEF Dial, Session
  <2>4. s.token = "host"
    BY <1>0 DEF Coherent
  <2> QED
    BY <1>2, <2>1, <2>2, <2>3, <2>4 DEF Coherent
<1>3. CASE r.retryIn # 0
  <2>1. Tick(s) = BeginReconnect(s)
    BY <1>0, <1>1, <1>3 DEF Tick, RetryDue
  <2>2. /\ BeginReconnect(s) \in Session /\ BeginReconnect(s).recovery = r
        /\ BeginReconnect(s).at = "loop" /\ BeginReconnect(s).open = FALSE
        /\ BeginReconnect(s).status = "reconnecting" /\ BeginReconnect(s).token = "host"
    BY <1>0 DEF BeginReconnect, Session, Holders, Coherent
  <2>3. ~r.accepted
    BY <1>0 DEF Coherent
  <2> QED
    BY <1>0, <2>1, <2>2, <2>3 DEF Coherent
<1> QED
  BY <1>2, <1>3

LEMMA TickWhileOpen ==
  ASSUME NEW s, Coherent(s), s.at = "loop", s.open
  PROVE  Tick(s) = s \/ Tick(s) = ConnectionLost(s)
BY Constants DEF Tick, RetryDue, Coherent

LEMMA TickAfterLoss ==
  ASSUME NEW s, Pausing(s) \/ Ended(s)
  PROVE  Tick(s) = s
<1>1. CASE Ended(s)
  BY <1>1 DEF Ended, Tick
<1>2. CASE Pausing(s)
  <2>1. s \in Session /\ ~RetryDue(s.recovery) /\ ~Overdue(s.recovery)
        /\ s.recovery.retryIn # Off
    BY <1>2, Constants DEF Pausing, Coherent, RetryDue, Overdue
  <2>2. Tick(s) = BeginReconnect(s)
    BY <1>2, <2>1 DEF Tick, Pausing
  <2>3. s.open = FALSE /\ s.token = "host" /\ s.status = "reconnecting"
    BY <1>2, <2>1, SessionTypes DEF Pausing, Coherent
  <2>4. BeginReconnect(s) = s
    BY <2>1, <2>3 DEF BeginReconnect, Session
  <2> QED
    BY <2>2, <2>4
<1> QED
  BY <1>1, <1>2

(* A hello makes the join live.                                            *)
LEMMA HelloGoesLive ==
  ASSUME NEW s, Coherent(s), s.at = "loop", s.open, NEW m \in Message, m.kind = "hello"
  PROVE  LET h == Handle(s, m)
         IN /\ Coherent(h) /\ h.at = "loop" /\ h.open /\ h.status = "live"
            /\ h.token = s.token /\ h.recovery = Connected(s.recovery)
            /\ h.recovery.retries = s.recovery.retries
<1> DEFINE c == Connected(s.recovery)
<1>0. s \in Session /\ s.recovery \in Recovery /\ ~s.recovery.stopped
  BY SessionTypes DEF Coherent
<1>1. /\ c \in Recovery /\ c.accepted /\ c.retryIn = Off /\ c.picture = FirstPicture
      /\ c.retries = s.recovery.retries /\ ~c.stopped
  BY <1>0, Constants DEF Connected, Recovery, Clocks
<1>2. Handle(s, m) = [s EXCEPT !.recovery = c, !.status = "live"]
  BY DEF Handle
<1> HIDE DEF c
<1>3. /\ Handle(s, m) \in Session /\ Handle(s, m).recovery = c /\ Handle(s, m).at = "loop"
      /\ Handle(s, m).open = s.open /\ Handle(s, m).token = s.token
      /\ Handle(s, m).status = "live"
  BY <1>0, <1>1, <1>2 DEF Session
<1> QED
  BY <1>1, <1>3, Constants DEF Coherent, c

LEMMA RefusalEnds ==
  ASSUME NEW s, Coherent(s), s.at = "loop", s.open, NEW m \in Message,
         m.kind \in {"oldHello", "denied", "passcode", "garbage"}
  PROVE  LET h == Handle(s, m)
         IN /\ Ended(h) /\ h.recovery.retries = s.recovery.retries
            /\ h.recovery.retryIn = Off
            /\ m.kind # "garbage" => h.status # "live"
            /\ m.kind = "garbage" => h.status = s.status
<1>1. s \in Session /\ s.recovery.retryIn = Off
  BY DEF Coherent
<1>2. CASE m.kind \in {"oldHello", "denied"}
  <2>1. Handle(s, m) = Fail(s)
    BY <1>2 DEF Handle
  <2> QED
    BY <1>1, <1>2, <2>1, FailEnds
<1>3. CASE m.kind = "passcode"
  <2>1. Handle(s, m) = NeedPasscode(s)
    BY <1>3 DEF Handle
  <2> QED
    BY <1>1, <1>3, <2>1, PasscodeEnds
<1>4. CASE m.kind = "garbage"
  <2>1. Handle(s, m) = Break(s)
    BY <1>4 DEF Handle
  <2> QED
    BY <1>1, <1>4, <2>1, BreakEnds
<1> QED
  BY <1>2, <1>3, <1>4

(* A live join hears the phone's state and its tokens.                     *)
LEMMA LiveHears ==
  ASSUME NEW s, Coherent(s), s.at = "loop", s.status = "live", NEW m \in Message,
         m.kind \in {"state", "token"}
  PROVE  LET h == Handle(s, m)
         IN /\ Coherent(h) /\ h.at = "loop" /\ h.open /\ h.status = "live"
            /\ h.token = IF m.kind = "token" THEN m.holder ELSE s.token
            /\ h.recovery = [s.recovery EXCEPT !.deadline = SilenceTimeout]
            /\ h.recovery.retries = s.recovery.retries
<1> DEFINE c == [s.recovery EXCEPT !.deadline = SilenceTimeout]
<1>0. s \in Session /\ s.recovery \in Recovery /\ ~s.recovery.stopped /\ s.open
      /\ s.recovery.accepted /\ s.recovery.retryIn = Off /\ s.recovery.picture # Off
      /\ m.holder \in Holders /\ m.allows \in BOOLEAN
  BY SessionTypes DEF Coherent, Message
<1>1. Heard(s.recovery) = c
  BY <1>0 DEF Heard, Deaf
<1>2. /\ c \in Recovery /\ c.accepted /\ c.retryIn = Off /\ c.picture # Off
      /\ c.retries = s.recovery.retries /\ ~c.stopped
  BY <1>0, Constants DEF Recovery, Clocks
<1> HIDE DEF c
<1>3. CASE m.kind = "state"
  <2>1. Handle(s, m) = [s EXCEPT !.allows = m.allows, !.recovery = c]
    BY <1>1, <1>3 DEF Handle
  <2>2. /\ Handle(s, m) \in Session /\ Handle(s, m).recovery = c /\ Handle(s, m).at = "loop"
        /\ Handle(s, m).open = s.open /\ Handle(s, m).token = s.token
        /\ Handle(s, m).status = "live"
    BY <1>0, <1>2, <2>1 DEF Session
  <2> QED
    BY <1>0, <1>2, <1>3, <2>2 DEF Coherent, c
<1>4. CASE m.kind = "token"
  <2>1. Handle(s, m) = [s EXCEPT !.token = m.holder, !.recovery = c]
    BY <1>1, <1>4 DEF Handle
  <2>2. /\ Handle(s, m) \in Session /\ Handle(s, m).recovery = c /\ Handle(s, m).at = "loop"
        /\ Handle(s, m).open = s.open /\ Handle(s, m).token = m.holder
        /\ Handle(s, m).status = "live"
    BY <1>0, <1>2, <2>1 DEF Session
  <2> QED
    BY <1>0, <1>2, <1>4, <2>2 DEF Coherent, c
<1> QED
  BY <1>3, <1>4

(* A picture restarts both clocks.                                         *)
LEMMA LiveSees ==
  ASSUME NEW s, Coherent(s), s.at = "loop", s.status = "live", NEW m \in Message,
         m.kind = "frame"
  PROVE  LET h == Handle(s, m)
             r == s.recovery
         IN /\ Coherent(h) /\ h.at = "loop" /\ h.open /\ h.status = "live"
            /\ h.token = s.token
            /\ h.recovery.picture = SilenceTimeout /\ h.recovery.gap = 0
            /\ h.recovery.steady = SteadyAt(r)
            /\ h.recovery.retries = IF SteadyAt(r) >= StableAfter THEN 0 ELSE r.retries
            /\ h.recovery.retryIn = Off
<1> DEFINE r == s.recovery
           c == [r EXCEPT !.deadline = SilenceTimeout, !.picture = SilenceTimeout, !.gap = 0,
                          !.steady = SteadyAt(r),
                          !.retries = IF SteadyAt(r) >= StableAfter THEN 0 ELSE @]
<1>0. s \in Session /\ r \in Recovery /\ ~r.stopped /\ s.open
      /\ r.accepted /\ r.retryIn = Off
  BY SessionTypes DEF Coherent
<1>1. Pictured(r) = c
  BY <1>0 DEF Pictured, Deaf
<1>2. SteadyAt(r) \in Clocks /\ (IF SteadyAt(r) >= StableAfter THEN 0 ELSE r.retries) \in 0 .. MaxRetries
  BY <1>0, ClockTypes, Constants DEF SteadyAt, Clocks
<1>3. /\ c \in Recovery /\ c.accepted /\ c.retryIn = Off /\ c.picture = SilenceTimeout
      /\ c.gap = 0 /\ c.steady = SteadyAt(r)
      /\ c.retries = (IF SteadyAt(r) >= StableAfter THEN 0 ELSE r.retries) /\ ~c.stopped
  <2>1. SilenceTimeout \in Clocks /\ 0 \in Clocks
    BY Constants DEF Clocks
  <2> QED
    BY <1>0, <1>2, <2>1 DEF Recovery
<1> HIDE DEF c
<1>4. Handle(s, m) = [s EXCEPT !.recovery = c]
  BY <1>1 DEF Handle, HandleFrame
<1>5. /\ Handle(s, m) \in Session /\ Handle(s, m).recovery = c /\ Handle(s, m).at = "loop"
      /\ Handle(s, m).open = s.open /\ Handle(s, m).token = s.token
      /\ Handle(s, m).status = "live"
  BY <1>0, <1>3, <1>4 DEF Session
<1> QED
  BY <1>0, <1>3, <1>5, Constants DEF Coherent

LEMMA LateFrameLoses ==
  ASSUME NEW s, s.status = "live", NEW m \in Message, m.kind = "lateFrame"
  PROVE  Handle(s, m) = ConnectionLost(s)
BY DEF Handle, HandleFrame

-----------------------------------------------------------------------------
(***************************************************************************)
(* The wire.                                                               *)
(***************************************************************************)
Openings == {"hello", "oldHello", "passcode", "denied"}

Greeted == \E i \in DOMAIN wire : wire[i].kind = "hello"
Untold == \A i \in DOMAIN wire : wire[i].kind # "token"

(* On a connection the phone serves, the last token sent, or the session's  *)
(* own once all are read, says who holds the lease; a connection is greeted *)
(* once, first of all, and live once the greeting is read.                  *)
Line ==
  /\ ~session.open => wire = << >> /\ ~cut
  /\ \A i, j \in DOMAIN wire : wire[i].kind = "hello" /\ wire[j].kind = "hello" => i = j
  /\ session.open /\ session.status = "live" => ~Greeted
  /\ session.open /\ ~cut /\ (session.status = "live" \/ Greeted) => host.serves
  /\ session.open /\ session.status # "live" /\ wire # << >> => wire[1].kind \in Openings
  /\ Up => \A i \in DOMAIN wire :
             /\ wire[i].kind = "token"
             /\ \A j \in DOMAIN wire : j > i => wire[j].kind # "token"
             => wire[i].holder = host.lease.holder
  /\ Up /\ Untold => session.status = "live" /\ session.token = host.lease.holder

LEMMA AppendOne ==
  ASSUME NEW w \in Seq(Message), NEW m \in Message
  PROVE  LET v == w \o <<m>>
         IN /\ v \in Seq(Message) /\ Len(v) = Len(w) + 1 /\ Len(w) \in Nat
            /\ DOMAIN v = 1 .. Len(w) + 1 /\ DOMAIN w = 1 .. Len(w)
            /\ \A i \in 1 .. Len(w) : v[i] = w[i]
            /\ v[Len(w) + 1] = m
OBVIOUS

LEMMA AppendTwo ==
  ASSUME NEW w \in Seq(Message), NEW m \in Message, NEW n \in Message
  PROVE  LET v == w \o <<m, n>>
         IN /\ v \in Seq(Message) /\ Len(v) = Len(w) + 2 /\ Len(w) \in Nat
            /\ DOMAIN v = 1 .. Len(w) + 2 /\ DOMAIN w = 1 .. Len(w)
            /\ \A i \in 1 .. Len(w) : v[i] = w[i]
            /\ v[Len(w) + 1] = m /\ v[Len(w) + 2] = n
OBVIOUS

LEMMA TakeOne ==
  ASSUME NEW w \in Seq(Message), w # << >>
  PROVE  /\ Tail(w) \in Seq(Message) /\ Head(w) \in Message /\ Head(w) = w[1]
         /\ Len(w) \in Nat /\ Len(w) > 0
         /\ DOMAIN w = 1 .. Len(w) /\ DOMAIN Tail(w) = 1 .. Len(w) - 1
         /\ \A i \in 1 .. Len(w) - 1 : Tail(w)[i] = w[i + 1]
OBVIOUS

(* The messages the phone sends.                                           *)
LEMMA MessageTypes ==
  /\ \A kind \in Kinds : Msg(kind) \in Message /\ Msg(kind).kind = kind
  /\ \A allows \in BOOLEAN :
       [Msg("state") EXCEPT !.allows = allows] \in Message
       /\ [Msg("state") EXCEPT !.allows = allows].kind = "state"
  /\ \A lease \in Lease :
       /\ TokenFor(lease) \in Message /\ TokenFor(lease).kind = "token"
       /\ TokenFor(lease).holder = lease.holder
BY DEF Msg, Message, Kinds, Holders, TokenFor, Lease

LEMMA LeaseTypes ==
  ASSUME NEW l \in Lease
  PROVE  /\ Claim(l) \in Lease /\ Park(l) \in Lease /\ Reclaim \in Lease
         /\ Grant("me") \in Lease /\ Grant("other") \in Lease
         /\ ParkedSecondPasses(l) \in Lease
         /\ ParkedSecondPasses(l).holder = l.holder
<1>1. 0 \in 0 .. ParkWindow /\ ParkWindow \in 0 .. ParkWindow
  BY Constants
<1>2. l.parked \in 0 .. ParkWindow
  BY DEF Lease
<1>3. (IF l.parked > 0 THEN l.parked - 1 ELSE 0) \in 0 .. ParkWindow
  BY <1>2, Constants
<1>4. ParkedSecondPasses(l) \in Lease /\ ParkedSecondPasses(l).holder = l.holder
  BY <1>3 DEF ParkedSecondPasses, Lease
<1> QED
  BY <1>1, <1>4 DEF Claim, Park, Reclaim, HostHolds, Grant, Lease

-----------------------------------------------------------------------------
(***************************************************************************)
(* A turn of the loop.                                                     *)
(***************************************************************************)
Base == TypeOK /\ Coherent(session) /\ Line

(* What a turn that read m can leave: a join that is over, one that pauses, *)
(* or the live session that m was handled by.                               *)
LEMMA ReadLeaves ==
  ASSUME Base, session.at = "loop", wire # << >>,
         NEW s, s \in Flushed(Handle(session, Head(wire)))
  PROVE  LET m == Head(wire)
             h == Handle(session, m)
             n == IF m.kind = "frame" THEN h.recovery.retries ELSE session.recovery.retries
         IN /\ session.open /\ m \in Message
            /\ \/ Ended(s) /\ s.recovery.retryIn = Off /\ s.recovery.retries = n
               \/ Pausing(s) /\ s.recovery.retries = n + 1
               \/ /\ s = h /\ Coherent(s) /\ s.at = "loop" /\ s.open /\ s.status = "live"
                  /\ session.status # "live" => m.kind = "hello"
                  /\ session.status = "live" => m.kind \in {"state", "token", "frame"}
            /\ s.status = "live" /\ s.at # "loop" => m.kind = "garbage" /\ s.at = "over"
<1> DEFINE m == Head(wire)
           h == Handle(session, m)
<1>0. /\ session.open /\ m \in Message /\ m = wire[1] /\ Coherent(session)
      /\ m.kind \in Kinds /\ session \in Session /\ session.recovery.retryIn = Off
      /\ ~session.recovery.stopped
  BY TakeOne DEF Base, TypeOK, Line, Message, Coherent
<1>1. s = h \/ (h.at = "loop" /\ h.status = "live" /\ s = ConnectionLost(h))
  BY DEF Flushed, Written
<1>2. CASE session.status # "live" /\ m.kind = "hello"
  <2>1. /\ Coherent(h) /\ h.at = "loop" /\ h.open /\ h.status = "live"
        /\ h.recovery.retries = session.recovery.retries
    BY <1>0, <1>2, HelloGoesLive
  <2>2. CASE s = h
    BY <1>0, <1>2, <2>1, <2>2
  <2>3. CASE s = ConnectionLost(h)
    <3>1. h \in Session /\ ~h.recovery.stopped /\ h.recovery.retryIn = Off
      BY <2>1 DEF Coherent
    <3> HIDE DEF h
    <3>2. /\ Pausing(s) \/ Ended(s)
          /\ s.status # "live"
          /\ Pausing(s) => s.recovery.retries = h.recovery.retries + 1
          /\ Ended(s) => s.recovery.retries = h.recovery.retries /\ s.recovery.retryIn = Off
      BY <2>1, <2>3, <3>1, LostPausesOrEnds
    <3> QED
      BY <1>0, <1>2, <2>1, <3>2 DEF h
  <2> QED
    BY <1>1, <2>2, <2>3
<1>3. CASE m.kind \in {"oldHello", "denied", "passcode", "garbage"}
  <2>1. /\ Ended(h) /\ h.recovery.retries = session.recovery.retries
        /\ h.recovery.retryIn = Off
        /\ m.kind # "garbage" => h.status # "live"
    BY <1>0, <1>3, RefusalEnds
  <2>2. s = h
    BY <1>1, <2>1 DEF Ended
  <2> QED
    BY <1>0, <1>3, <2>1, <2>2 DEF Ended
<1>4. CASE session.status = "live" /\ m.kind \in {"state", "token", "frame"}
  <2>1. /\ Coherent(h) /\ h.at = "loop" /\ h.open /\ h.status = "live"
        /\ m.kind # "frame" => h.recovery.retries = session.recovery.retries
    <3>1. CASE m.kind = "frame"
      BY <1>0, <1>4, <3>1, LiveSees
    <3>2. CASE m.kind \in {"state", "token"}
      BY <1>0, <1>4, <3>2, LiveHears
    <3> QED
      BY <1>4, <3>1, <3>2
  <2>2. CASE s = h
    BY <1>0, <1>4, <2>1, <2>2
  <2>3. CASE s = ConnectionLost(h)
    <3>1. h \in Session /\ ~h.recovery.stopped /\ h.recovery.retryIn = Off
      BY <2>1 DEF Coherent
    <3> HIDE DEF h
    <3>2. /\ Pausing(s) \/ Ended(s)
          /\ s.status # "live"
          /\ Pausing(s) => s.recovery.retries = h.recovery.retries + 1
          /\ Ended(s) => s.recovery.retries = h.recovery.retries /\ s.recovery.retryIn = Off
      BY <2>1, <2>3, <3>1, LostPausesOrEnds
    <3> QED
      BY <1>0, <1>4, <2>1, <3>2 DEF h
  <2> QED
    BY <1>1, <2>2, <2>3
<1>5. CASE session.status = "live" /\ m.kind = "lateFrame"
  <2>1. h = ConnectionLost(session)
    BY <1>0, <1>5, LateFrameLoses
  <2>2. /\ Pausing(h) \/ Ended(h)
        /\ h.status # "live"
        /\ Pausing(h) => h.recovery.retries = session.recovery.retries + 1
        /\ Ended(h) => h.recovery.retries = session.recovery.retries /\ h.recovery.retryIn = Off
    BY <1>0, <2>1, LostPausesOrEnds
  <2>3. s = h
    BY <1>1, <2>2
  <2> QED
    BY <1>0, <1>5, <2>2, <2>3
<1>6. session.status # "live" => m.kind \in Openings
  BY <1>0 DEF Base, Line
<1>7. session.status = "live" => m.kind # "hello"
  BY <1>0, TakeOne DEF Base, TypeOK, Line, Greeted
<1> QED
  BY <1>0, <1>2, <1>3, <1>4, <1>5, <1>6, <1>7 DEF Openings, Kinds

(* What a turn that read nothing can leave: the session as it was, a join   *)
(* that is over, one that pauses or goes on pausing, or the next dial.      *)
LEMMA SilenceLeaves ==
  ASSUME Base, session.at = "loop", wire = << >>, NEW s, s \in Flushed(session)
  PROVE  LET t == Tick(s)
             n == session.recovery.retries
         IN \/ t = session /\ session.open
            \/ Ended(t) /\ t.recovery.retryIn = Off /\ t.recovery.retries = n
                        /\ t.status # "live" /\ session.open
            \/ Pausing(t) /\ t.recovery.retries = n + 1 /\ session.open
            \/ /\ ~session.open /\ Coherent(t) /\ ~t.open /\ t.recovery.retries = n
               /\ t.status # "live" /\ session.recovery.retryIn # Off
               /\ t.at \in {"loop", "dial"}
               /\ t.at = "dial" => t.recovery.retryIn = Off
               /\ t.at = "loop" => t.recovery.retryIn = session.recovery.retryIn
<1> DEFINE l == ConnectionLost(session)
<1>0. Coherent(session) /\ session \in Session /\ session.open \in BOOLEAN
  BY SessionTypes DEF Base, Coherent
<1>1. CASE ~session.open
  <2>1. s = session
    BY <1>0, <1>1 DEF Flushed, Written, Coherent
  <2> QED
    BY <1>0, <1>1, <2>1, TickWhilePausing DEF Coherent
<1>2. CASE session.open
  <2>1. /\ Pausing(l) \/ Ended(l)
        /\ l.status # "live"
        /\ Pausing(l) => l.recovery.retries = session.recovery.retries + 1
        /\ Ended(l) => l.recovery.retries = session.recovery.retries /\ l.recovery.retryIn = Off
    BY <1>0, <1>2, LostPausesOrEnds DEF Coherent
  <2>2. s = session \/ s = l
    BY DEF Flushed
  <2>3. s = session => Tick(s) = session \/ Tick(s) = l
    BY <1>0, <1>2, TickWhileOpen
  <2>4. s = l => Tick(s) = l
    BY <2>1, TickAfterLoss
  <2> HIDE DEF l
  <2> QED
    BY <1>2, <2>1, <2>2, <2>3, <2>4
<1> QED
  BY <1>0, <1>1, <1>2

LEMMA EndLeaves ==
  ASSUME Base, session.at = "loop", session.open
  PROVE  LET l == ConnectionLost(session)
         IN /\ Tick(l) = l /\ l.status # "live"
            /\ \/ Pausing(l) /\ l.recovery.retries = session.recovery.retries + 1
               \/ Ended(l) /\ l.recovery.retries = session.recovery.retries
                           /\ l.recovery.retryIn = Off
<1> DEFINE l == ConnectionLost(session)
<1>1. /\ Pausing(l) \/ Ended(l)
      /\ l.status # "live"
      /\ Pausing(l) => l.recovery.retries = session.recovery.retries + 1
      /\ Ended(l) => l.recovery.retries = session.recovery.retries /\ l.recovery.retryIn = Off
  BY LostPausesOrEnds DEF Base, Coherent
<1> QED
  BY <1>1, TickAfterLoss

-----------------------------------------------------------------------------
(***************************************************************************)
(* Types, coherence and the wire, step by step.                            *)
(***************************************************************************)
LEMMA ControlTypes ==
  ASSUME TypeOK
  PROVE  /\ Asked \in Controls
         /\ \A m \in Message : ControlAfter(Asked, m) \in Controls
         /\ \A s, control : control \in Controls => OnStatus(s, control) \in Controls
<1>1. Asked \in Controls
  BY DEF TypeOK, Asked, Controls
<1>2. ASSUME NEW m \in Message PROVE ControlAfter(Asked, m) \in Controls
  BY <1>1 DEF ControlAfter, ControlFromToken, ControlAfterState, Controls, Message, Holders
<1> QED
  BY <1>1, <1>2 DEF OnStatus, Controls

LEMMA EndTurnTyped ==
  ASSUME TypeOK, NEW s \in Session, NEW control \in Controls, NEW told \in BOOLEAN,
         NEW unread \in Seq(Message), EndTurn(s, control, told, unread)
  PROVE  /\ session' \in Session /\ info' \in Controls
         /\ posted' \in Controls \cup {"nothing"} /\ wire' \in Seq(Message)
         /\ cut' \in BOOLEAN /\ shown' \in Controls
         /\ host' \in [serves : BOOLEAN, lease : Lease]
<1>1. OnStatus(s, control) \in Controls
  BY ControlTypes
<1>2. (cut /\ ~(session.open /\ ~s.open)) \in BOOLEAN
  OBVIOUS
<1> QED
  BY <1>1, <1>2 DEF EndTurn, TypeOK

(* What Saw makes of seen.                                                 *)
LEMMA SawFacts ==
  ASSUME seen \in Seen, NEW s, NEW picture \in BOOLEAN, Saw(s, picture)
  PROVE  /\ seen' \in Seen
         /\ seen'.dials = IF s.at = "dial" THEN seen.dials + 1
                          ELSE IF picture /\ seen.watched = StableAfter THEN 1
                          ELSE seen.dials
         /\ seen'.watched = IF s.status = "live" THEN seen.watched ELSE 0
         /\ seen'.quiet = IF s.status # "live" \/ picture THEN 0 ELSE seen.quiet
         /\ seen'.pictured = (s.status = "live" /\ (seen.pictured \/ picture))
         /\ seen'.sentLost = (seen.sentLost \/ \E i \in Written(s) : asks[i].lost)
<1>1. /\ seen.dials + 1 \in Nat /\ 1 \in Nat /\ 0 \in Nat /\ 0 \in 0 .. StableAfter
      /\ (s.status = "live" /\ (seen.pictured \/ picture)) \in BOOLEAN
      /\ (seen.sentLost \/ \E i \in Written(s) : asks[i].lost) \in BOOLEAN
  BY Constants DEF Seen
<1>2. seen' = [seen EXCEPT
    !.dials = IF s.at = "dial" THEN @ + 1
              ELSE IF picture /\ seen.watched = StableAfter THEN 1 ELSE @,
    !.watched = IF s.status = "live" THEN @ ELSE 0,
    !.quiet = IF s.status # "live" \/ picture THEN 0 ELSE @,
    !.pictured = s.status = "live" /\ (@ \/ picture),
    !.sentLost = @ \/ \E i \in Written(s) : asks[i].lost]
  BY DEF Saw
<1> DEFINE lost == \E i \in Written(s) : asks[i].lost
<1> HIDE DEF lost
<1>3. seen' = [seen EXCEPT
    !.dials = IF s.at = "dial" THEN @ + 1
              ELSE IF picture /\ seen.watched = StableAfter THEN 1 ELSE @,
    !.watched = IF s.status = "live" THEN @ ELSE 0,
    !.quiet = IF s.status # "live" \/ picture THEN 0 ELSE @,
    !.pictured = s.status = "live" /\ (@ \/ picture),
    !.sentLost = @ \/ lost]
  BY <1>2 DEF lost
<1>4. (seen.sentLost \/ lost) \in BOOLEAN
  BY <1>1 DEF lost
<1>5. seen' \in Seen
  BY <1>1, <1>3, <1>4 DEF Seen
<1>6. seen'.sentLost = (seen.sentLost \/ lost)
  BY <1>3 DEF Seen
<1>7. seen'.pictured = (s.status = "live" /\ (seen.pictured \/ picture))
  BY <1>3 DEF Seen
<1>8. /\ seen'.dials = IF s.at = "dial" THEN seen.dials + 1
                       ELSE IF picture /\ seen.watched = StableAfter THEN 1
                       ELSE seen.dials
      /\ seen'.watched = IF s.status = "live" THEN seen.watched ELSE 0
      /\ seen'.quiet = IF s.status # "live" \/ picture THEN 0 ELSE seen.quiet
  BY <1>3 DEF Seen
<1> QED
  BY <1>5, <1>6, <1>7, <1>8 DEF lost

(* A turn that closes the connection leaves nothing on the wire.           *)
LEMMA ClosedLine ==
  ASSUME ~session'.open, wire' = << >>, cut' = FALSE
  PROVE  Line'
BY DEF Line, Up, Greeted, Untold

LEMMA SameLine ==
  ASSUME Line, UNCHANGED <<wire, cut>>, host'.serves = host.serves,
         host'.lease.holder = host.lease.holder, session'.open = session.open,
         session'.status = session.status, session'.token = session.token
  PROVE  Line'
BY DEF Line, Up, Greeted, Untold

LEMMA TurnKeepsBase ==
  ASSUME Base, Turn
  PROVE  Base'
<1>0. /\ TypeOK /\ Coherent(session) /\ Line /\ session.at = "loop"
      /\ session \in Session
  BY DEF Base, Turn, ReadMessage, ReadNothing, ReadEnd, Coherent
<1>1. CASE ReadMessage
  <2> DEFINE m == Head(wire)
             h == Handle(session, m)
  <2>0. wire # << >> /\ wire \in Seq(Message)
    BY <1>0, <1>1 DEF ReadMessage, TypeOK
  <2> PICK s \in Flushed(h) :
          /\ EndTurn(s, ControlAfter(Asked, m),
                     Asked # info \/ m.kind \in {"hello", "state", "token"}, Tail(wire))
          /\ FlushTo(h)
          /\ Saw(s, m.kind = "frame" /\ session.status = "live")
    BY <1>1 DEF ReadMessage
  <2>1. /\ session.open /\ m \in Message
        /\ \/ Ended(s)
           \/ Pausing(s)
           \/ /\ s = h /\ Coherent(s) /\ s.at = "loop" /\ s.open /\ s.status = "live"
              /\ session.status # "live" => m.kind = "hello"
              /\ session.status = "live" => m.kind \in {"state", "token", "frame"}
    BY <1>0, <2>0, ReadLeaves
  <2>2. Coherent(s) /\ s \in Session
    BY <2>1 DEF Ended, Pausing, Coherent
  <2>3. /\ ControlAfter(Asked, m) \in Controls
        /\ (Asked # info \/ m.kind \in {"hello", "state", "token"}) \in BOOLEAN
        /\ (m.kind = "frame" /\ session.status = "live") \in BOOLEAN
        /\ Tail(wire) \in Seq(Message)
    BY <1>0, <2>0, <2>1, ControlTypes, TakeOne
  <2>4. /\ session' \in Session /\ info' \in Controls
        /\ posted' \in Controls \cup {"nothing"} /\ wire' \in Seq(Message)
        /\ cut' \in BOOLEAN /\ shown' \in Controls
        /\ host' \in [serves : BOOLEAN, lease : Lease]
    BY <1>0, <2>2, <2>3, EndTurnTyped
  <2>5. seen' \in Seen
    BY <1>0, <2>3, SawFacts DEF TypeOK
  <2>6. asks' \in Seq(Ask) /\ release' \in BOOLEAN
    BY <1>0 DEF FlushTo, TypeOK
  <2>7. TypeOK'
    BY <2>4, <2>5, <2>6 DEF TypeOK
  <2>8. /\ session' = s /\ host' = host
        /\ wire' = IF session.open /\ ~s.open THEN << >> ELSE Tail(wire)
        /\ cut' = (cut /\ ~(session.open /\ ~s.open))
    BY DEF EndTurn
  <2>9. Line'
    <3>1. CASE ~s.open
      BY <2>1, <2>8, <3>1, ClosedLine
    <3>2. CASE s.open
      <4>1. /\ s = h /\ s.status = "live" /\ s.at = "loop"
            /\ session.status # "live" => m.kind = "hello"
            /\ session.status = "live" => m.kind \in {"state", "token", "frame"}
        BY <2>1, <3>2 DEF Ended, Pausing
      <4>a. cut \in BOOLEAN
        BY <1>0 DEF TypeOK
      <4>b. wire' = Tail(wire) /\ cut' = cut /\ host' = host
        BY <2>8, <3>2, <4>a
      <4>c. /\ m = wire[1] /\ Len(wire) \in Nat /\ Len(wire) > 0
            /\ DOMAIN wire = 1 .. Len(wire) /\ DOMAIN Tail(wire) = 1 .. Len(wire) - 1
            /\ \A i \in 1 .. Len(wire) - 1 : Tail(wire)[i] = wire[i + 1]
        BY <2>0, TakeOne
      <4>2. /\ wire' = Tail(wire) /\ cut' = cut /\ host' = host /\ m = wire[1]
            /\ Len(wire) \in Nat /\ Len(wire) > 0
            /\ DOMAIN wire = 1 .. Len(wire) /\ DOMAIN wire' = 1 .. Len(wire) - 1
            /\ \A i \in 1 .. Len(wire) - 1 : wire'[i] = wire[i + 1]
        BY <4>b, <4>c
      <4>3. s.token = IF m.kind = "token" THEN m.holder ELSE session.token
        <5>1. CASE m.kind = "hello"
          BY <1>0, <2>1, <4>1, <5>1, HelloGoesLive
        <5>2. CASE m.kind \in {"state", "token"}
          BY <1>0, <2>1, <4>1, <5>2, LiveHears
        <5>3. CASE m.kind = "frame"
          BY <1>0, <2>1, <4>1, <5>3, LiveSees
        <5> QED
          BY <4>1, <5>1, <5>2, <5>3
      <4>4. 1 \in DOMAIN wire
        BY <4>2
      <4>5. \A i \in DOMAIN wire' : i + 1 \in DOMAIN wire /\ wire'[i] = wire[i + 1] /\ i + 1 # 1
        BY <4>2
      <4>6. ~Greeted'
        BY <1>0, <2>1, <4>1, <4>2, <4>4, <4>5 DEF Line, Greeted
      <4>7. session.status = "live" \/ Greeted
        BY <4>1, <4>2, <4>4 DEF Greeted
      <4>8. ~cut => host.serves
        BY <1>0, <2>1, <4>7 DEF Line
      <4>9. Up' => Up
        BY <2>1, <4>2 DEF Up
      <4>10. \A i \in DOMAIN wire' :
               (\A j \in DOMAIN wire' : j > i => wire'[j].kind # "token")
                 => \A j \in DOMAIN wire : j > i + 1 => wire[j].kind # "token"
        <5> SUFFICES ASSUME NEW i \in DOMAIN wire',
                            \A j \in DOMAIN wire' : j > i => wire'[j].kind # "token",
                            NEW j \in DOMAIN wire, j > i + 1
                     PROVE  wire[j].kind # "token"
          OBVIOUS
        <5>1. j - 1 \in DOMAIN wire' /\ j - 1 > i /\ j - 1 + 1 = j
          BY <4>2
        <5> QED
          BY <4>2, <5>1
      <4>11. Up' => \A i \in DOMAIN wire' :
                      /\ wire'[i].kind = "token"
                      /\ \A j \in DOMAIN wire' : j > i => wire'[j].kind # "token"
                      => wire'[i].holder = host.lease.holder
        BY <1>0, <4>5, <4>9, <4>10 DEF Line
      <4>12. Up' /\ Untold' => s.token = host.lease.holder
        <5> SUFFICES ASSUME Up, Untold' PROVE s.token = host.lease.holder
          BY <4>9
        <5>1. \A j \in DOMAIN wire : j > 1 => wire[j].kind # "token"
          <6> SUFFICES ASSUME NEW j \in DOMAIN wire, j > 1 PROVE wire[j].kind # "token"
            OBVIOUS
          <6>1. j - 1 \in DOMAIN wire' /\ j - 1 + 1 = j
            BY <4>2
          <6> QED
            BY <4>2, <6>1 DEF Untold
        <5>2. CASE m.kind = "token"
          BY <1>0, <4>2, <4>3, <4>4, <5>1, <5>2 DEF Line
        <5>3. CASE m.kind # "token"
          <6>1. Untold
            BY <4>2, <5>1, <5>3 DEF Untold
          <6> QED
            BY <1>0, <4>3, <5>3, <6>1 DEF Line
        <5> QED
          BY <5>2, <5>3
      <4> QED
        BY <2>1, <2>8, <4>1, <4>2, <4>6, <4>8, <4>11, <4>12 DEF Line, Greeted
    <3> QED
      BY <3>1, <3>2
  <2> QED
    BY <2>2, <2>7, <2>8, <2>9 DEF Base
<1>2. CASE ReadNothing
  <2>0. wire = << >> /\ wire \in Seq(Message)
    BY <1>0, <1>2 DEF ReadNothing, TypeOK
  <2> PICK s \in Flushed(session) :
          /\ EndTurn(Tick(s), Asked, Asked # info, wire)
          /\ FlushTo(session)
          /\ Saw(Tick(s), FALSE)
    BY <1>2 DEF ReadNothing
  <2> DEFINE t == Tick(s)
  <2>1. \/ t = session /\ session.open
        \/ Coherent(t) /\ ~t.open
    BY <1>0, <2>0, SilenceLeaves DEF Ended, Pausing
  <2>2. Coherent(t) /\ t \in Session
    BY <1>0, <2>1 DEF Coherent
  <2>3. Asked \in Controls /\ (Asked # info) \in BOOLEAN
    BY <1>0, ControlTypes
  <2> HIDE DEF t
  <2>4. /\ session' \in Session /\ info' \in Controls
        /\ posted' \in Controls \cup {"nothing"} /\ wire' \in Seq(Message)
        /\ cut' \in BOOLEAN /\ shown' \in Controls
        /\ host' \in [serves : BOOLEAN, lease : Lease]
    BY <1>0, <2>0, <2>2, <2>3, EndTurnTyped DEF t
  <2>5. seen' \in Seen
    BY <1>0, SawFacts DEF TypeOK
  <2>6. asks' \in Seq(Ask) /\ release' \in BOOLEAN
    BY <1>0 DEF FlushTo, TypeOK
  <2>7. TypeOK'
    BY <2>4, <2>5, <2>6 DEF TypeOK
  <2>8. /\ session' = t /\ host' = host /\ wire' = << >>
        /\ cut' = (cut /\ ~(session.open /\ ~t.open))
    BY <2>0 DEF EndTurn, t
  <2>9. Line'
    <3>1. CASE t = session /\ session.open
      <4>1. cut \in BOOLEAN
        BY <1>0 DEF TypeOK
      <4>2. cut' = cut /\ wire' = wire /\ host' = host /\ session' = session
        BY <2>0, <2>8, <3>1, <4>1
      <4> QED
        BY <1>0, <4>2, SameLine
    <3>2. CASE ~t.open
      <4>1. cut' = FALSE
        BY <1>0, <2>8, <3>2 DEF Line, TypeOK
      <4> QED
        BY <2>8, <3>2, <4>1, ClosedLine
    <3> QED
      BY <2>1, <3>1, <3>2
  <2> QED
    BY <2>2, <2>7, <2>8, <2>9 DEF Base
<1>3. CASE ReadEnd
  <2> DEFINE l == ConnectionLost(session)
  <2>1. /\ session.open /\ wire = << >> /\ wire \in Seq(Message)
        /\ EndTurn(Tick(l), Asked, Asked # info, wire)
        /\ asks' = [i \in DOMAIN asks |-> [asks[i] EXCEPT !.lost = TRUE]]
        /\ Saw(l, FALSE) /\ release' = release
    BY <1>0, <1>3 DEF ReadEnd, TypeOK
  <2>2. Tick(l) = l /\ Coherent(l) /\ l \in Session /\ ~l.open
    BY <1>0, <2>1, EndLeaves DEF Ended, Pausing, Coherent
  <2> HIDE DEF l
  <2>3. Asked \in Controls /\ (Asked # info) \in BOOLEAN
    BY <1>0, ControlTypes
  <2>4. /\ session' \in Session /\ info' \in Controls
        /\ posted' \in Controls \cup {"nothing"} /\ wire' \in Seq(Message)
        /\ cut' \in BOOLEAN /\ shown' \in Controls
        /\ host' \in [serves : BOOLEAN, lease : Lease]
    BY <1>0, <2>1, <2>2, <2>3, EndTurnTyped
  <2>5. seen' \in Seen
    BY <1>0, <2>1, SawFacts DEF TypeOK
  <2>6. asks' \in Seq(Ask)
    <3>1. asks \in Seq(Ask) /\ DOMAIN asks = 1 .. Len(asks) /\ Len(asks) \in Nat
      BY <1>0 DEF TypeOK
    <3>2. \A a \in Ask : [a EXCEPT !.lost = TRUE] \in Ask
      BY DEF Ask
    <3>3. \A i \in 1 .. Len(asks) : asks[i] \in Ask
      BY <3>1
    <3>4. \A i \in 1 .. Len(asks) : [asks[i] EXCEPT !.lost = TRUE] \in Ask
      BY <3>2, <3>3
    <3>5. [i \in 1 .. Len(asks) |-> [asks[i] EXCEPT !.lost = TRUE]] \in Seq(Ask)
      BY <3>1, <3>4
    <3> QED
      BY <2>1, <3>1, <3>5
  <2>7. TypeOK'
    BY <1>0, <2>1, <2>4, <2>5, <2>6 DEF TypeOK
  <2>8. session' = l /\ wire' = << >> /\ cut' = FALSE
    BY <2>1, <2>2 DEF EndTurn
  <2> QED
    BY <2>2, <2>7, <2>8, ClosedLine DEF Base
<1> QED
  BY <1>1, <1>2, <1>3 DEF Turn

(* The phone sends on a connection it serves.                              *)
LEMMA SendsToken ==
  ASSUME Line, wire \in Seq(Message), Up, NEW m \in Message, m.kind = "token",
         wire' = wire \o <<m>>, host'.lease.holder = m.holder, host'.serves = host.serves,
         session' = session, cut' = cut
  PROVE  Line'
<1>1. /\ Len(wire) \in Nat /\ DOMAIN wire' = 1 .. Len(wire) + 1
      /\ DOMAIN wire = 1 .. Len(wire)
      /\ \A i \in 1 .. Len(wire) : wire'[i] = wire[i]
      /\ wire'[Len(wire) + 1] = m
  BY AppendOne
<1>2. \A i \in DOMAIN wire' : (i \in DOMAIN wire /\ wire'[i] = wire[i]) \/ (i = Len(wire) + 1 /\ wire'[i] = m)
  <2> SUFFICES ASSUME NEW i \in DOMAIN wire'
               PROVE  (i \in DOMAIN wire /\ wire'[i] = wire[i]) \/ (i = Len(wire) + 1 /\ wire'[i] = m)
    OBVIOUS
  <2>1. i \in 1 .. Len(wire) \/ i = Len(wire) + 1
    BY <1>1
  <2> QED
    BY <1>1, <2>1
<1>3. \A i \in DOMAIN wire' : wire'[i].kind = "hello" => i \in DOMAIN wire /\ wire[i].kind = "hello"
  BY <1>2
<1>4. \A i, j \in DOMAIN wire' : wire'[i].kind = "hello" /\ wire'[j].kind = "hello" => i = j
  BY <1>3 DEF Line
<1>5. Greeted' => Greeted
  BY <1>3 DEF Greeted
<1>6. session.status # "live" => wire # << >> /\ wire'[1] = wire[1]
  <2> SUFFICES ASSUME session.status # "live" PROVE wire # << >> /\ wire'[1] = wire[1]
    OBVIOUS
  <2>1. wire # << >>
    BY DEF Line, Untold
  <2>2. Len(wire) > 0
    BY <2>1, TakeOne
  <2> QED
    BY <1>1, <2>1, <2>2
<1>7. \A i \in DOMAIN wire' :
        (\A j \in DOMAIN wire' : j > i => wire'[j].kind # "token") => wire'[i] = m
  <2> SUFFICES ASSUME NEW i \in DOMAIN wire',
                      \A j \in DOMAIN wire' : j > i => wire'[j].kind # "token"
               PROVE  wire'[i] = m
    OBVIOUS
  <2>1. Len(wire) + 1 \in DOMAIN wire' /\ ~(Len(wire) + 1 > i)
    BY <1>1
  <2> QED
    BY <1>1, <2>1
<1>8. ~Untold'
  BY <1>1 DEF Untold
<1>9. session.open /\ host.serves
  BY DEF Up
<1> QED
  BY <1>4, <1>5, <1>6, <1>7, <1>8, <1>9 DEF Line

LEMMA SendsOther ==
  ASSUME Line, wire \in Seq(Message), Up, NEW m \in Message, m.kind \notin {"token", "hello"},
         wire' = wire \o <<m>>, UNCHANGED <<host, session, cut>>
  PROVE  Line'
<1>1. /\ Len(wire) \in Nat /\ DOMAIN wire' = 1 .. Len(wire) + 1
      /\ DOMAIN wire = 1 .. Len(wire)
      /\ \A i \in 1 .. Len(wire) : wire'[i] = wire[i]
      /\ wire'[Len(wire) + 1] = m
  BY AppendOne
<1>2. \A i \in DOMAIN wire' : (i \in DOMAIN wire /\ wire'[i] = wire[i]) \/ (i = Len(wire) + 1 /\ wire'[i] = m)
  <2> SUFFICES ASSUME NEW i \in DOMAIN wire'
               PROVE  (i \in DOMAIN wire /\ wire'[i] = wire[i]) \/ (i = Len(wire) + 1 /\ wire'[i] = m)
    OBVIOUS
  <2>1. i \in 1 .. Len(wire) \/ i = Len(wire) + 1
    BY <1>1
  <2> QED
    BY <1>1, <2>1
<1>a. \A i \in DOMAIN wire : i \in DOMAIN wire' /\ wire'[i] = wire[i]
  BY <1>1
<1>3. \A i \in DOMAIN wire' : wire'[i].kind \in {"hello", "token"} => i \in DOMAIN wire /\ wire'[i] = wire[i]
  BY <1>2
<1>4. \A i, j \in DOMAIN wire' : wire'[i].kind = "hello" /\ wire'[j].kind = "hello" => i = j
  BY <1>3 DEF Line
<1>5. Greeted' => Greeted
  BY <1>3 DEF Greeted
<1>6. session.status # "live" => wire # << >> /\ wire'[1] = wire[1]
  <2> SUFFICES ASSUME session.status # "live" PROVE wire # << >> /\ wire'[1] = wire[1]
    OBVIOUS
  <2>1. wire # << >>
    BY DEF Line, Untold
  <2>2. Len(wire) > 0
    BY <2>1, TakeOne
  <2> QED
    BY <1>1, <2>1, <2>2
<1>7. \A i \in DOMAIN wire' :
        /\ wire'[i].kind = "token"
        /\ \A j \in DOMAIN wire' : j > i => wire'[j].kind # "token"
        => wire'[i].holder = host.lease.holder
  <2> SUFFICES ASSUME NEW i \in DOMAIN wire', wire'[i].kind = "token",
                      \A j \in DOMAIN wire' : j > i => wire'[j].kind # "token"
               PROVE  wire'[i].holder = host.lease.holder
    OBVIOUS
  <2>1. i \in DOMAIN wire /\ wire'[i] = wire[i]
    BY <1>3
  <2>2. \A j \in DOMAIN wire : j > i => wire[j].kind # "token"
    BY <1>a
  <2> QED
    BY <2>1, <2>2 DEF Line
<1>8. Untold' => Untold
  BY <1>a DEF Untold
<1>9. session.open /\ host.serves
  BY DEF Up
<1> QED
  BY <1>4, <1>5, <1>6, <1>7, <1>8, <1>9 DEF Line

(* The phone takes the connection: the greeting, and who holds the lease.  *)
LEMMA Greets ==
  ASSUME Line, wire \in Seq(Message), session.open, ~host.serves, ~cut,
         NEW m \in Message, m.kind = "hello", NEW t \in Message, t.kind = "token",
         wire' = wire \o <<m, t>>, host'.serves, host'.lease.holder = t.holder,
         session' = session, cut' = cut
  PROVE  Line'
<1>1. /\ Len(wire) \in Nat /\ DOMAIN wire' = 1 .. Len(wire) + 2
      /\ DOMAIN wire = 1 .. Len(wire)
      /\ \A i \in 1 .. Len(wire) : wire'[i] = wire[i]
      /\ wire'[Len(wire) + 1] = m /\ wire'[Len(wire) + 2] = t
  BY AppendTwo
<1>2. session.status # "live" /\ ~Greeted
  BY DEF Line
<1>3. \A i \in DOMAIN wire' : \/ i \in DOMAIN wire /\ wire'[i] = wire[i]
                             \/ i = Len(wire) + 1 \/ i = Len(wire) + 2
  BY <1>1
<1>4. \A i \in DOMAIN wire' : wire'[i].kind = "hello" => i = Len(wire) + 1
  BY <1>1, <1>2, <1>3 DEF Greeted
<1>5. wire'[1].kind \in Openings
  <2>1. CASE wire = << >>
    BY <1>1, <2>1 DEF Openings
  <2>2. CASE wire # << >>
    BY <1>1, <1>2, <2>2 DEF Line
  <2> QED
    BY <2>1, <2>2
<1>6. \A i \in DOMAIN wire' :
        (\A j \in DOMAIN wire' : j > i => wire'[j].kind # "token") => wire'[i] = t
  <2> SUFFICES ASSUME NEW i \in DOMAIN wire',
                      \A j \in DOMAIN wire' : j > i => wire'[j].kind # "token"
               PROVE  wire'[i] = t
    OBVIOUS
  <2>1. Len(wire) + 2 \in DOMAIN wire' /\ ~(Len(wire) + 2 > i)
    BY <1>1
  <2> QED
    BY <1>1, <2>1
<1>7. ~Untold'
  <2>1. Len(wire) + 2 \in DOMAIN wire' /\ wire'[Len(wire) + 2].kind = "token"
    BY <1>1
  <2> QED
    BY <2>1 DEF Untold
<1>8. /\ session'.open /\ ~cut' /\ host'.serves /\ session'.status # "live"
  BY <1>2
<1>9. Up' => \A i \in DOMAIN wire' :
               /\ wire'[i].kind = "token"
               /\ \A j \in DOMAIN wire' : j > i => wire'[j].kind # "token"
               => wire'[i].holder = host'.lease.holder
  BY <1>6
<1> QED
  BY <1>4, <1>5, <1>7, <1>8, <1>9 DEF Line

LEMMA SecondKeepsBase ==
  ASSUME Base, Second
  PROVE  Base'
<1> DEFINE r == session.recovery
           n == SecondPasses(r)
<1>0. /\ TypeOK /\ Coherent(session) /\ Line /\ session \in Session /\ r \in Recovery
      /\ session.at # "over"
  BY SessionTypes DEF Base, Coherent, Second
<1>1. /\ \A c \in Clocks : Later(c) \in Clocks /\ (Later(c) = Off <=> c = Off)
      /\ \A c \in Clocks : Since(c, MaxGap + 1) \in Clocks /\ Since(c, StableAfter) \in Clocks
  BY Constants DEF Clocks, Later, Since
<1>2. /\ n \in Recovery /\ n.retries = r.retries
      /\ (n.retryIn = Off <=> r.retryIn = Off) /\ (n.deadline = Off <=> r.deadline = Off)
      /\ (n.picture = Off <=> r.picture = Off)
      /\ n.accepted = r.accepted /\ n.stopped = r.stopped
  BY <1>0, <1>1, ClockTypes DEF SecondPasses, Recovery
<1>3. /\ session' = [session EXCEPT !.recovery = n]
      /\ host' = [host EXCEPT !.lease = ParkedSecondPasses(@)]
      /\ UNCHANGED <<wire, cut, release, info, posted, shown, asks>>
  BY DEF Second
<1> HIDE DEF n
<1>4. /\ session' \in Session /\ session'.recovery = n /\ session'.at = session.at
      /\ session'.open = session.open /\ session'.status = session.status
      /\ session'.token = session.token
  BY <1>0, <1>2, <1>3 DEF Session
<1>5. Coherent(session')
  BY <1>0, <1>2, <1>4 DEF Coherent
<1>6. /\ host.lease \in Lease /\ host.serves \in BOOLEAN
      /\ host \in [serves : BOOLEAN, lease : Lease]
  BY <1>0 DEF TypeOK
<1>7. /\ host' \in [serves : BOOLEAN, lease : Lease] /\ host'.serves = host.serves
      /\ host'.lease.holder = host.lease.holder
  BY <1>3, <1>6, LeaseTypes
<1>8. seen' \in Seen
  <2> DEFINE quiet == IF session.status = "live" THEN seen.quiet + 1 ELSE 0
             watched == IF seen.pictured /\ quiet <= MaxGap THEN Since(seen.watched, StableAfter)
                        ELSE 0
  <2>1. seen \in Seen /\ seen.quiet \in Nat /\ seen.watched \in 0 .. StableAfter
    BY <1>0 DEF TypeOK, Seen
  <2>2. quiet \in Nat /\ watched \in 0 .. StableAfter
    BY <2>1, Constants DEF Since
  <2>3. seen' = [seen EXCEPT !.quiet = quiet, !.watched = watched]
    BY DEF Second
  <2> HIDE DEF quiet, watched
  <2> QED
    BY <2>1, <2>2, <2>3 DEF Seen
<1>9. TypeOK'
  BY <1>0, <1>3, <1>4, <1>7, <1>8 DEF TypeOK
<1>10. Line'
  BY <1>0, <1>3, <1>4, <1>7, SameLine
<1> QED
  BY <1>5, <1>9, <1>10 DEF Base

(* The dial, the window and leaving.                                       *)
LEMMA WindowKeepsBase ==
  ASSUME Base, Connect \/ ConnectFails \/ Leave \/ Drain
               \/ Press("command") \/ Press("request") \/ Press("release")
  PROVE  Base'
<1>0. /\ TypeOK /\ Coherent(session) /\ Line /\ session \in Session
  BY DEF Base, Coherent
<1>1. CASE Connect
  <2>1. /\ session' = [session EXCEPT !.at = "loop", !.open = TRUE]
        /\ session.at = "dial" /\ ~host.serves
        /\ UNCHANGED <<wire, cut, release, host, info, posted, shown, asks, seen>>
    BY <1>1 DEF Connect
  <2>2. /\ session' \in Session /\ session'.recovery = session.recovery
        /\ session'.at = "loop" /\ session'.open = TRUE
        /\ session'.status = session.status /\ session'.token = session.token
    BY <1>0, <2>1 DEF Session
  <2>3. ~session.open /\ session.status # "live"
    BY <1>0, <2>1 DEF Coherent
  <2>4. Coherent(session')
    BY <1>0, <2>1, <2>2, <2>3 DEF Coherent
  <2>5. wire = << >> /\ DOMAIN wire = {}
    BY <1>0, <2>3 DEF Line
  <2>6. Line'
    BY <2>1, <2>2, <2>3, <2>5 DEF Line, Up, Greeted, Untold
  <2>7. TypeOK'
    BY <1>0, <2>1, <2>2 DEF TypeOK
  <2> QED
    BY <2>4, <2>6, <2>7 DEF Base
<1>2. CASE ConnectFails
  <2> DEFINE s == [session EXCEPT !.at = "loop"]
             l == ConnectionLost(s)
  <2>1. /\ session.at = "dial" /\ session' = l /\ info' = OnStatus(l, info)
        /\ UNCHANGED <<wire, cut, release, host, posted, shown, asks, seen>>
    BY <1>2 DEF ConnectFails
  <2>2. s \in Session /\ s.at = "loop" /\ ~s.recovery.stopped /\ s.recovery.retryIn = Off
    BY <1>0, <2>1 DEF Session, Coherent
  <2> HIDE DEF s
  <2>3. Pausing(l) \/ Ended(l)
    BY <2>2, LostPausesOrEnds
  <2>4. Coherent(l) /\ l \in Session /\ ~l.open
    BY <2>3 DEF Pausing, Ended, Coherent
  <2>5. ~session.open /\ wire = << >> /\ ~cut
    BY <1>0, <2>1 DEF Coherent, Line
  <2>6. info' \in Controls
    BY <1>0, <2>1, ControlTypes DEF TypeOK
  <2>7. TypeOK'
    BY <1>0, <2>1, <2>4, <2>6 DEF TypeOK
  <2>8. cut' = FALSE
    BY <1>0, <2>1, <2>5 DEF TypeOK
  <2>9. Line'
    BY <2>1, <2>4, <2>5, <2>8, ClosedLine
  <2> QED
    BY <2>1, <2>4, <2>7, <2>9 DEF Base
<1>3. CASE Leave
  <2>0. session.recovery \in Recovery
    BY <1>0, SessionTypes
  <2>1. Stop(session.recovery) \in Recovery
    BY <2>0, Constants DEF Stop, Recovery
  <2>2. /\ session' = [session EXCEPT !.recovery = Stop(session.recovery), !.open = FALSE,
                                      !.at = "over"]
        /\ wire' = << >> /\ asks' = << >> /\ cut' = FALSE
        /\ UNCHANGED <<release, host, info, posted, shown, seen>>
    BY <1>3 DEF Leave
  <2>3. session' \in Session /\ session'.at = "over" /\ session'.open = FALSE
    BY <1>0, <2>1, <2>2 DEF Session
  <2>4. Coherent(session')
    BY <2>3 DEF Coherent
  <2>5. wire' \in Seq(Message) /\ asks' \in Seq(Ask)
    BY <2>2
  <2>a. cut' \in BOOLEAN
    BY <2>2
  <2>6. TypeOK'
    BY <1>0, <2>2, <2>3, <2>5, <2>a DEF TypeOK
  <2> QED
    BY <2>2, <2>3, <2>4, <2>6, ClosedLine DEF Base
<1>4. CASE Drain
  <2>1. /\ shown' = posted /\ posted' = "nothing" /\ posted # "nothing"
        /\ UNCHANGED <<session, wire, cut, release, host, info, asks, seen>>
    BY <1>4 DEF Drain
  <2>2. TypeOK'
    BY <1>0, <2>1 DEF TypeOK
  <2>3. Line'
    BY <1>0, <2>1, SameLine
  <2> QED
    BY <1>0, <2>1, <2>2, <2>3 DEF Base
<1>5. ASSUME NEW what \in {"command", "request", "release"}, Press(what) PROVE Base'
  <2>1. /\ asks' = Append(asks, [what |-> what, lost |-> FALSE])
        /\ UNCHANGED <<session, wire, cut, release, host, info, posted, shown, seen>>
    BY <1>5 DEF Press
  <2>2. [what |-> what, lost |-> FALSE] \in Ask
    BY DEF Ask
  <2>3. asks' \in Seq(Ask)
    BY <1>0, <2>1, <2>2 DEF TypeOK
  <2>4. TypeOK'
    BY <1>0, <2>1, <2>3 DEF TypeOK
  <2>5. Line'
    BY <1>0, <2>1, SameLine
  <2> QED
    BY <1>0, <2>1, <2>4, <2>5 DEF Base
<1> QED
  BY <1>1, <1>2, <1>3, <1>4, <1>5

LEMMA PhoneKeepsBase ==
  ASSUME Base, HostAccepts \/ HostRefuses \/ HostReports \/ HostDecides \/ HostTakesRelease
               \/ HostParks \/ Cut
  PROVE  Base'
<1>0. /\ TypeOK /\ Coherent(session) /\ Line /\ session \in Session
      /\ wire \in Seq(Message) /\ host.lease \in Lease /\ host.serves \in BOOLEAN
      /\ host \in [serves : BOOLEAN, lease : Lease] /\ cut \in BOOLEAN /\ release \in BOOLEAN
  BY DEF Base, Coherent, TypeOK
<1>1. ASSUME session' = session, Line', wire' \in Seq(Message), cut' \in BOOLEAN,
             release' \in BOOLEAN, host' \in [serves : BOOLEAN, lease : Lease],
             UNCHANGED <<info, posted, shown, asks, seen>>
      PROVE  Base'
  <2>1. TypeOK'
    BY <1>0, <1>1 DEF TypeOK
  <2> QED
    BY <1>0, <1>1, <2>1 DEF Base
<1>2. CASE HostAccepts
  <2> DEFINE l == Claim(host.lease)
  <2>1. /\ session.open /\ ~host.serves /\ ~cut
        /\ host' = [serves |-> TRUE, lease |-> l]
        /\ wire' = wire \o <<Msg("hello"), TokenFor(host'.lease)>>
        /\ UNCHANGED <<release, session, cut, info, posted, shown, asks, seen>>
    BY <1>2 DEF HostAccepts, HostSends, PhoneOnly
  <2>2. l \in Lease
    BY <1>0, LeaseTypes
  <2> HIDE DEF l
  <2>3. host'.lease = l /\ host'.serves = TRUE /\ host' \in [serves : BOOLEAN, lease : Lease]
    BY <2>1, <2>2
  <2>4. /\ Msg("hello") \in Message /\ Msg("hello").kind = "hello"
        /\ TokenFor(l) \in Message /\ TokenFor(l).kind = "token"
        /\ TokenFor(l).holder = l.holder
    BY <2>2, MessageTypes DEF Kinds
  <2>5. wire' \in Seq(Message)
    BY <1>0, <2>1, <2>3, <2>4, AppendTwo
  <2>6. Line'
    BY <1>0, <2>1, <2>3, <2>4, Greets
  <2> QED
    BY <1>0, <1>1, <2>1, <2>3, <2>5, <2>6
<1>3. CASE HostRefuses
  <2> PICK kind \in {"oldHello", "passcode", "denied"} : wire' = wire \o <<Msg(kind)>>
    BY <1>3 DEF HostRefuses, HostSends
  <2>1. /\ session.open /\ ~host.serves /\ ~cut /\ wire = << >>
        /\ UNCHANGED <<release, host, session, cut, info, posted, shown, asks, seen>>
    BY <1>3 DEF HostRefuses, PhoneOnly
  <2>2. Msg(kind) \in Message /\ Msg(kind).kind = kind
    BY MessageTypes DEF Kinds
  <2>3. wire' \in Seq(Message) /\ wire' = <<Msg(kind)>> /\ DOMAIN wire' = {1}
    BY <1>0, <2>1, <2>2
  <2>4. Line'
    BY <1>0, <2>1, <2>2, <2>3 DEF Line, Up, Greeted, Openings
  <2> QED
    BY <1>0, <1>1, <2>1, <2>3, <2>4
<1>4. CASE HostReports
  <2>1. /\ Up /\ UNCHANGED <<release, host, session, cut, info, posted, shown, asks, seen>>
    BY <1>4 DEF HostReports, PhoneOnly
  <2>2. PICK m \in Message : m.kind \notin {"token", "hello"} /\ wire' = wire \o <<m>>
    BY <1>4, MessageTypes DEF HostReports, HostSends, Kinds
  <2>3. wire' \in Seq(Message)
    BY <1>0, <2>2, AppendOne
  <2>4. Line'
    BY <1>0, <2>1, <2>2, SendsOther
  <2> QED
    BY <1>0, <1>1, <2>1, <2>3, <2>4
<1>5. ASSUME NEW l \in Lease, Up, host' = [host EXCEPT !.lease = l],
             wire' = wire \o <<TokenFor(l)>>, release' \in BOOLEAN,
             UNCHANGED <<session, cut, info, posted, shown, asks, seen>>
      PROVE  Base'
  <2>1. /\ host'.lease = l /\ host'.serves = host.serves
        /\ host' \in [serves : BOOLEAN, lease : Lease]
    BY <1>0, <1>5
  <2>2. /\ TokenFor(l) \in Message /\ TokenFor(l).kind = "token"
        /\ TokenFor(l).holder = l.holder
    BY MessageTypes
  <2>3. wire' \in Seq(Message)
    BY <1>0, <1>5, <2>2, AppendOne
  <2>4. Line'
    BY <1>0, <1>5, <2>1, <2>2, SendsToken
  <2> QED
    BY <1>0, <1>1, <1>5, <2>1, <2>3, <2>4
<1>6. CASE HostDecides
  <2>1. Grant("me") \in Lease /\ Grant("other") \in Lease /\ Reclaim \in Lease
    BY <1>0, LeaseTypes
  <2>2. PICK l \in Lease : host' = [host EXCEPT !.lease = l] /\ wire' = wire \o <<TokenFor(l)>>
    BY <1>6, <2>1 DEF HostDecides, HostSends
  <2>3. Up /\ UNCHANGED <<release, session, cut, info, posted, shown, asks, seen>>
    BY <1>6 DEF HostDecides, PhoneOnly
  <2> QED
    BY <1>0, <1>5, <2>2, <2>3
<1>7. CASE HostTakesRelease
  <2> DEFINE l == IF host.lease.holder = "me" THEN Reclaim ELSE host.lease
  <2>1. l \in Lease
    BY <1>0, LeaseTypes
  <2>2. /\ Up /\ release' = FALSE /\ host' = [host EXCEPT !.lease = l]
        /\ wire' = wire \o <<TokenFor(host'.lease)>>
        /\ UNCHANGED <<session, cut, info, posted, shown, asks, seen>>
    BY <1>7 DEF HostTakesRelease, HostSends, PhoneOnly
  <2> HIDE DEF l
  <2>3. host'.lease = l
    BY <1>0, <2>2
  <2> QED
    BY <1>5, <2>1, <2>2, <2>3
<1>8. CASE HostParks
  <2>1. /\ host.serves /\ (cut \/ ~session.open) /\ release' = FALSE /\ wire' = wire
        /\ host' = [serves |-> FALSE, lease |-> Park(host.lease)]
        /\ UNCHANGED <<session, cut, info, posted, shown, asks, seen>>
    BY <1>8 DEF HostParks, PhoneOnly
  <2>2. host' \in [serves : BOOLEAN, lease : Lease] /\ host'.serves = FALSE
    BY <1>0, <2>1, LeaseTypes
  <2>3. Line'
    BY <1>0, <2>1, <2>2 DEF Line, Up, Greeted, Untold
  <2> QED
    BY <1>0, <1>1, <2>1, <2>2, <2>3
<1>9. CASE Cut
  <2>1. /\ session.open /\ cut' = TRUE
        /\ UNCHANGED <<session, wire, release, host, info, posted, shown, asks, seen>>
    BY <1>9 DEF Cut
  <2>2. Line'
    BY <1>0, <2>1 DEF Line, Up, Greeted, Untold
  <2> QED
    BY <1>0, <1>1, <2>1, <2>2
<1> QED
  BY <1>2, <1>3, <1>4, <1>6, <1>7, <1>8, <1>9

LEMMA InitBase ==
  ASSUME Init
  PROVE  Base
<1>1. NewRecovery \in Recovery
  <2>1. 0 \in 0 .. MaxRetries /\ JoinTimeout \in Clocks
    BY Constants DEF Clocks
  <2> QED
    BY <2>1, Constants DEF NewRecovery, Recovery
<1>2. session \in Session
  BY <1>1 DEF Init, Session, Holders
<1>3. Coherent(session)
  BY <1>2 DEF Init, Coherent, NewRecovery
<1>4. HostHolds \in Lease
  BY Constants DEF HostHolds, Lease
<1>5. seen \in Seen
  <2>1. 0 \in 0 .. StableAfter
    BY Constants
  <2> QED
    BY <2>1 DEF Init, Seen
<1>a. wire \in Seq(Message) /\ asks \in Seq(Ask)
  BY DEF Init
<1>b. host \in [serves : BOOLEAN, lease : Lease] /\ cut \in BOOLEAN /\ release \in BOOLEAN
  BY <1>4 DEF Init
<1>c. info \in Controls /\ posted \in Controls \cup {"nothing"} /\ shown \in Controls
  BY DEF Init, Controls
<1>6. TypeOK
  BY <1>2, <1>5, <1>a, <1>b, <1>c DEF TypeOK
<1>7. Line
  BY DEF Init, Line, Up, Greeted, Untold
<1> QED
  BY <1>3, <1>6, <1>7 DEF Base

LEMMA NextBase ==
  ASSUME Base, [Next]_vars
  PROVE  Base'
<1>1. CASE Next
  BY <1>1, TurnKeepsBase, SecondKeepsBase, WindowKeepsBase, PhoneKeepsBase DEF Next
<1>2. CASE UNCHANGED vars
  BY <1>2 DEF vars, Base, TypeOK, Line, Up, Greeted, Untold
<1> QED
  BY <1>1, <1>2

(* The session, its recovery policy, the wire and the lease keep their     *)
(* types: in particular the retries never pass their limit, and the pause  *)
(* taken from the table is always there.                                   *)
THEOREM PhoneTypeCorrect == Spec => []TypeOK
<1>1. Base => TypeOK
  BY DEF Base
<1> QED
  BY InitBase, NextBase, <1>1, PTL DEF Spec

-----------------------------------------------------------------------------
(***************************************************************************)
(* What the window shows, what it asked, and the clocks.                   *)
(***************************************************************************)
(* The control the bridge has is the session's, and on its way to the      *)
(* window if the window does not have it.                                  *)
Window ==
  /\ session.at # "over" /\ session.status # "live" => info # "held"
  /\ session.at = "loop" /\ session.status = "live" =>
       /\ info = "held" <=> session.token = "me"
       /\ IF posted = "nothing" THEN shown = info ELSE posted = info

(* Lost asks are there only while the session waits to dial again.         *)
LostAsks == \E i \in DOMAIN asks : asks[i].lost
Asks ==
  /\ LostAsks => \/ session.at = "over"
                 \/ /\ session.at = "loop" /\ session.status # "live" /\ ~session.open
                    /\ wire = << >>
  /\ ~seen.sentLost

(* A retry is counted before its dial.                                     *)
Dials ==
  /\ seen.dials <= session.recovery.retries + 1
  /\ session.recovery.retryIn # Off => seen.dials <= session.recovery.retries

(* The policy's clocks are the times that have passed.                     *)
Clocked(r, past) ==
  /\ r.picture + past.quiet = IF past.pictured THEN SilenceTimeout ELSE FirstPicture
  /\ ~past.pictured => r.gap = Off /\ past.watched = 0
  /\ past.pictured =>
       \/ r.gap \in 0 .. MaxGap /\ r.gap = past.quiet /\ r.steady = past.watched
       \/ r.gap = MaxGap + 1 /\ past.quiet > MaxGap /\ past.watched = 0
Clocking ==
  /\ session.status # "live" => seen.quiet = 0 /\ seen.watched = 0 /\ ~seen.pictured
  /\ session.at = "loop" /\ session.status = "live" => Clocked(session.recovery, seen)

Beyond == Window /\ Asks /\ Dials /\ Clocking

LEMMA NotLiveWritesNothing ==
  ASSUME NEW s, s.status # "live" \/ s.at # "loop"
  PROVE  Written(s) = {}
BY DEF Written

LEMMA ReadMessageKeeps ==
  ASSUME Base, Beyond, ReadMessage
  PROVE  Beyond'
<1> DEFINE m == Head(wire)
           h == Handle(session, m)
           picture == m.kind = "frame" /\ session.status = "live"
           told == Asked # info \/ m.kind \in {"hello", "state", "token"}
           control == ControlAfter(Asked, m)
<1>0. /\ TypeOK /\ Coherent(session) /\ session \in Session /\ session.at = "loop"
      /\ wire # << >> /\ session.recovery \in Recovery /\ seen \in Seen
  BY SessionTypes DEF Base, Coherent, ReadMessage, TypeOK
<1> PICK s \in Flushed(h) : EndTurn(s, control, told, Tail(wire)) /\ FlushTo(h) /\ Saw(s, picture)
  BY DEF ReadMessage
<1>1. /\ session.open /\ m \in Message
      /\ \/ /\ Ended(s) /\ s.recovery.retryIn = Off
            /\ s.recovery.retries = IF m.kind = "frame" THEN h.recovery.retries
                                    ELSE session.recovery.retries
         \/ /\ Pausing(s)
            /\ s.recovery.retries = (IF m.kind = "frame" THEN h.recovery.retries
                                     ELSE session.recovery.retries) + 1
         \/ /\ s = h /\ Coherent(s) /\ s.at = "loop" /\ s.open /\ s.status = "live"
            /\ session.status # "live" => m.kind = "hello"
            /\ session.status = "live" => m.kind \in {"state", "token", "frame"}
      /\ s.status = "live" /\ s.at # "loop" => m.kind = "garbage" /\ s.at = "over"
  BY <1>0, ReadLeaves
<1> HIDE DEF h
<1>2. session.recovery.retryIn = Off
  BY <1>0, <1>1 DEF Coherent
<1>3. /\ session' = s /\ info' = OnStatus(s, control)
      /\ posted' = (IF told THEN control ELSE posted) /\ shown' = shown
      /\ asks' = << >>
  BY DEF EndTurn, FlushTo
<1>4. picture \in BOOLEAN
  OBVIOUS
<1> HIDE DEF picture
<1>5. /\ seen' \in Seen
      /\ seen'.dials = IF s.at = "dial" THEN seen.dials + 1
                       ELSE IF picture /\ seen.watched = StableAfter THEN 1
                       ELSE seen.dials
      /\ seen'.watched = IF s.status = "live" THEN seen.watched ELSE 0
      /\ seen'.quiet = IF s.status # "live" \/ picture THEN 0 ELSE seen.quiet
      /\ seen'.pictured = (s.status = "live" /\ (seen.pictured \/ picture))
      /\ seen'.sentLost = (seen.sentLost \/ \E i \in Written(s) : asks[i].lost)
  BY <1>0, <1>4, SawFacts
<1>6. Asks'
  <2>1. ~LostAsks
    BY <1>0, <1>1 DEF Beyond, Asks
  <2>2. ~\E i \in Written(s) : asks[i].lost
    BY <2>1 DEF LostAsks, Written
  <2>3. ~seen'.sentLost
    BY <1>5, <2>2 DEF Beyond, Asks
  <2> QED
    BY <1>3, <2>3 DEF Asks, LostAsks
<1>7. CASE s.status # "live" \/ s.at # "loop"
  <2>1. Ended(s) \/ Pausing(s)
    BY <1>1, <1>7
  <2>2. s.at \in {"loop", "over"} /\ (s.at = "loop" => Pausing(s))
    BY <2>1 DEF Ended, Pausing
  <2>3. s.at = "loop" => info' # "held"
    <3> SUFFICES ASSUME Pausing(s) PROVE info' # "held"
      BY <2>2
    <3>1. s.status = "reconnecting"
      BY DEF Pausing
    <3>2. CASE session.status # "reconnecting"
      BY <1>3, <3>1, <3>2 DEF OnStatus
    <3>3. CASE session.status = "reconnecting"
      <4>1. info # "held" /\ Asked # "held"
        BY <1>0, <3>3 DEF Beyond, Window, Asked
      <4>2. m.kind \in Openings
        BY <1>0, <1>1, <3>3, TakeOne DEF Base, Line, TypeOK
      <4>3. control = Asked
        BY <4>2 DEF ControlAfter, Openings
      <4> QED
        BY <1>3, <4>1, <4>3 DEF OnStatus
    <3> QED
      BY <3>2, <3>3
  <2>4. Window'
    BY <1>3, <1>7, <2>2, <2>3 DEF Window
  <2>5. /\ seen.dials \in Nat /\ seen.watched \in 0 .. StableAfter
        /\ session.recovery.retries \in Nat /\ s.recovery.retries \in Nat
        /\ s \in Session
    BY <1>0, <2>1, SessionTypes, ClockTypes, Constants DEF Seen, Ended, Pausing, Coherent
  <2>6. CASE m.kind # "frame" \/ session.status # "live"
    <3>1. ~picture
      BY <2>6 DEF picture
    <3>a. m.kind # "frame"
      BY <1>0, <1>1, <2>6, TakeOne DEF Base, Line, TypeOK, Openings
    <3>2. seen'.dials = seen.dials
      BY <1>5, <2>2, <3>1
    <3>3. seen.dials <= session.recovery.retries + 1
      BY DEF Beyond, Dials
    <3>4. Dials'
      BY <1>1, <1>3, <1>7, <2>5, <3>2, <3>3, <3>a DEF Dials
    <3>5. Clocking'
      BY <1>3, <1>5, <1>7 DEF Clocking
    <3> QED
      BY <1>6, <2>4, <3>4, <3>5 DEF Beyond
  <2>7. CASE m.kind = "frame" /\ session.status = "live"
    <3>1. picture
      BY <2>7 DEF picture
    <3>2. /\ h.recovery.retries = (IF SteadyAt(session.recovery) >= StableAfter THEN 0
                                   ELSE session.recovery.retries)
      BY <1>0, <1>1, <2>7, LiveSees DEF h
    <3>3. SteadyAt(session.recovery) >= StableAfter => seen.watched = StableAfter
      <4>1. Clocked(session.recovery, seen)
        BY <1>0, <2>7 DEF Beyond, Clocking
      <4>2. /\ session.recovery.gap \in Clocks /\ seen.watched \in 0 .. StableAfter
            /\ seen.pictured \in BOOLEAN
        BY <1>0, ClockTypes DEF Seen
      <4> QED
        BY <4>1, <4>2, Constants DEF Clocked, SteadyAt, Clocks
    <3>4. seen.dials <= session.recovery.retries + 1
      BY DEF Beyond, Dials
    <3>5. seen'.dials = IF seen.watched = StableAfter THEN 1 ELSE seen.dials
      BY <1>5, <2>2, <3>1
    <3>6. Dials'
      BY <1>1, <1>3, <1>7, <2>5, <2>7, <3>2, <3>3, <3>4, <3>5 DEF Dials
    <3>7. Clocking'
      BY <1>3, <1>5, <1>7, <1>1, <2>7 DEF Clocking
    <3> QED
      BY <1>6, <2>4, <3>6, <3>7 DEF Beyond
  <2> QED
    BY <2>6, <2>7
<1>8. CASE s.status = "live" /\ s.at = "loop"
  <2>1. /\ s = h /\ Coherent(s)
        /\ session.status # "live" => m.kind = "hello"
        /\ session.status = "live" => m.kind \in {"state", "token", "frame"}
    BY <1>1, <1>8 DEF Ended, Pausing
  <2>2. info' = control
    BY <1>3, <1>8 DEF OnStatus
  <2>3. /\ session.status = "live" => (info = "held" <=> session.token = "me")
        /\ session.status # "live" => info # "held" /\ session.token = "host"
    BY <1>0 DEF Beyond, Window, Coherent
  <2>4. Asked = "held" <=> info = "held"
    BY DEF Asked
  <2>5. control = "nothing" => FALSE
    BY <1>0, <1>1, ControlTypes DEF Controls
  <2>6. CASE m.kind = "hello"
    <3>1. s.token = session.token /\ s.recovery = Connected(session.recovery)
          /\ s.recovery.retries = session.recovery.retries
      BY <1>0, <1>1, <2>1, <2>6, HelloGoesLive DEF h
    <3>2. session.status # "live" /\ ~picture
      BY <2>1, <2>6 DEF picture
    <3>3. control = Asked
      BY <2>6 DEF ControlAfter
    <3>4. Window'
      BY <1>3, <1>8, <2>2, <2>3, <2>4, <2>5, <2>6, <3>1, <3>2, <3>3 DEF Window
    <3>5. s.recovery.retryIn = Off /\ s.recovery.picture = FirstPicture /\ s.recovery.gap = Off
      BY <1>0, <3>1 DEF Connected, Recovery
    <3>6. Dials'
      BY <1>3, <1>5, <1>8, <3>1, <3>2, <3>5 DEF Beyond, Dials
    <3>7. seen.quiet = 0 /\ seen.watched = 0 /\ ~seen.pictured
      BY <3>2 DEF Beyond, Clocking
    <3>8. seen'.quiet = 0 /\ seen'.watched = 0 /\ ~seen'.pictured
      BY <1>5, <1>8, <3>2, <3>7
    <3>9. Clocked(s.recovery, seen')
      BY <3>5, <3>8, Constants DEF Clocked
    <3>10. Clocking'
      BY <1>3, <1>8, <3>9 DEF Clocking
    <3> QED
      BY <1>6, <3>4, <3>6, <3>10 DEF Beyond
  <2>7. CASE m.kind \in {"state", "token"}
    <3>1. /\ session.status = "live" /\ ~picture
      BY <2>1, <2>7 DEF picture
    <3>2. /\ s.token = (IF m.kind = "token" THEN m.holder ELSE session.token)
          /\ s.recovery = [session.recovery EXCEPT !.deadline = SilenceTimeout]
      BY <1>0, <1>1, <2>1, <2>7, <3>1, LiveHears DEF h
    <3>3. m.kind = "token" => (control = "held" <=> m.holder = "me")
      BY <1>1 DEF ControlAfter, ControlFromToken, Message, Holders
    <3>4. m.kind = "state" => (control = "held" <=> Asked = "held")
      BY DEF ControlAfter, ControlAfterState
    <3>5. Window'
      BY <1>3, <1>8, <2>2, <2>3, <2>4, <2>5, <2>7, <3>1, <3>2, <3>3, <3>4 DEF Window
    <3>6. /\ s.recovery.retries = session.recovery.retries
          /\ s.recovery.retryIn = session.recovery.retryIn
          /\ s.recovery.picture = session.recovery.picture
          /\ s.recovery.gap = session.recovery.gap
          /\ s.recovery.steady = session.recovery.steady
      BY <1>0, <3>2 DEF Recovery
    <3>7. Dials'
      BY <1>2, <1>3, <1>5, <1>8, <3>1, <3>6 DEF Beyond, Dials
    <3>8. Clocked(session.recovery, seen)
      BY <1>0, <3>1 DEF Beyond, Clocking
    <3>9. seen'.quiet = seen.quiet /\ seen'.watched = seen.watched
          /\ (seen'.pictured <=> seen.pictured)
      BY <1>5, <1>8, <3>1
    <3>10. Clocked(s.recovery, seen')
      BY <3>6, <3>8, <3>9 DEF Clocked
    <3> QED
      BY <1>3, <1>6, <1>8, <3>5, <3>7, <3>10 DEF Beyond, Clocking
  <2>8. CASE m.kind = "frame"
    <3>1. session.status = "live" /\ picture
      BY <2>1, <2>8 DEF picture
    <3>2. /\ s.token = session.token /\ s.recovery.picture = SilenceTimeout
          /\ s.recovery.gap = 0 /\ s.recovery.steady = SteadyAt(session.recovery)
          /\ s.recovery.retries = (IF SteadyAt(session.recovery) >= StableAfter THEN 0
                                   ELSE session.recovery.retries)
          /\ s.recovery.retryIn = Off
      BY <1>0, <1>1, <2>1, <2>8, <3>1, LiveSees DEF h
    <3>3. control = Asked
      BY <2>8 DEF ControlAfter
    <3>4. /\ told <=> Asked # info
          /\ IF posted = "nothing" THEN shown = info ELSE posted = info
      BY <1>0, <2>8, <3>1 DEF Beyond, Window
    <3>5. Window'
      BY <1>3, <1>8, <2>2, <2>3, <2>4, <2>5, <3>1, <3>2, <3>3, <3>4 DEF Window
    <3>6. Clocked(session.recovery, seen)
      BY <1>0, <3>1 DEF Beyond, Clocking
    <3>7. /\ session.recovery.gap \in Clocks /\ seen.watched \in 0 .. StableAfter
          /\ seen.pictured \in BOOLEAN /\ seen.dials \in Nat
          /\ session.recovery.retries \in Nat
      BY <1>0, ClockTypes, Constants DEF Seen
    <3>8. SteadyAt(session.recovery) = seen.watched
      BY <3>6, <3>7, Constants DEF Clocked, SteadyAt, Clocks
    <3>9. seen'.dials = IF seen.watched = StableAfter THEN 1 ELSE seen.dials
      BY <1>5, <1>8, <3>1
    <3>10. Dials'
      BY <1>3, <3>2, <3>7, <3>8, <3>9, Constants DEF Beyond, Dials
    <3>11. seen'.quiet = 0 /\ seen'.watched = seen.watched /\ seen'.pictured = TRUE
      BY <1>5, <1>8, <3>1
    <3>12. Clocked(s.recovery, seen')
      BY <3>2, <3>8, <3>11, Constants DEF Clocked
    <3> QED
      BY <1>3, <1>6, <1>8, <3>5, <3>10, <3>12 DEF Beyond, Clocking
  <2> QED
    BY <2>1, <2>6, <2>7, <2>8
<1> QED
  BY <1>7, <1>8

LEMMA ReadNothingKeeps ==
  ASSUME Base, Beyond, ReadNothing
  PROVE  Beyond'
<1>0. /\ TypeOK /\ Coherent(session) /\ session \in Session /\ session.at = "loop"
      /\ wire = << >> /\ session.recovery \in Recovery /\ seen \in Seen
  BY SessionTypes DEF Base, Coherent, ReadNothing, TypeOK
<1> PICK s \in Flushed(session) :
        /\ EndTurn(Tick(s), Asked, Asked # info, wire)
        /\ FlushTo(session)
        /\ Saw(Tick(s), FALSE)
  BY DEF ReadNothing
<1> DEFINE t == Tick(s)
           n == session.recovery.retries
<1>1. \/ t = session /\ session.open
      \/ Ended(t) /\ t.recovery.retryIn = Off /\ t.recovery.retries = n
                  /\ t.status # "live" /\ session.open
      \/ Pausing(t) /\ t.recovery.retries = n + 1 /\ session.open
      \/ /\ ~session.open /\ Coherent(t) /\ ~t.open /\ t.recovery.retries = n
         /\ t.status # "live" /\ session.recovery.retryIn # Off
         /\ t.at \in {"loop", "dial"}
         /\ t.at = "dial" => t.recovery.retryIn = Off
         /\ t.at = "loop" => t.recovery.retryIn = session.recovery.retryIn
  BY <1>0, SilenceLeaves
<1>3. /\ session' = t /\ info' = OnStatus(t, Asked)
      /\ posted' = (IF Asked # info THEN Asked ELSE posted) /\ shown' = shown
      /\ asks' = << >>
  BY DEF EndTurn, FlushTo
<1>4. /\ seen' \in Seen
      /\ seen'.dials = IF t.at = "dial" THEN seen.dials + 1 ELSE seen.dials
      /\ seen'.watched = IF t.status = "live" THEN seen.watched ELSE 0
      /\ seen'.quiet = IF t.status # "live" THEN 0 ELSE seen.quiet
      /\ seen'.pictured = (t.status = "live" /\ seen.pictured)
      /\ seen'.sentLost = (seen.sentLost \/ \E i \in Written(t) : asks[i].lost)
  BY <1>0, SawFacts
<1> HIDE DEF t
<1>5. /\ seen.dials \in Nat /\ n \in Nat
      /\ t = session \/ t.status # "live"
  BY <1>0, <1>1, ClockTypes, Constants DEF Seen, Pausing
<1>6. Asks'
  <2>1. ~\E i \in Written(t) : asks[i].lost
    <3>1. CASE t = session /\ session.open
      <4>1. ~LostAsks
        BY <1>0, <3>1 DEF Beyond, Asks
      <4> QED
        BY <4>1 DEF LostAsks, Written
    <3>2. CASE t.status # "live"
      BY <3>2 DEF Written
    <3> QED
      BY <1>1, <1>5, <3>1, <3>2
  <2>2. ~seen'.sentLost
    BY <1>4, <2>1 DEF Beyond, Asks
  <2> QED
    BY <1>3, <2>2 DEF Asks, LostAsks
<1>7. Asked = "held" <=> info = "held"
  BY DEF Asked
<1>8. CASE t = session /\ session.open
  <2>1. info' = Asked
    BY <1>3, <1>8 DEF OnStatus
  <2>2. Window'
    BY <1>0, <1>3, <1>7, <1>8, <2>1, ControlTypes DEF Beyond, Window, Controls
  <2>3. Dials'
    BY <1>0, <1>3, <1>4, <1>8 DEF Beyond, Dials
  <2>4. Clocking'
    <3>1. CASE session.status = "live"
      <4>1. seen'.quiet = seen.quiet /\ seen'.watched = seen.watched
            /\ (seen'.pictured <=> seen.pictured)
        BY <1>4, <1>8, <3>1
      <4>2. Clocked(session.recovery, seen)
        BY <1>0, <3>1 DEF Beyond, Clocking
      <4>3. Clocked(session.recovery, seen')
        BY <4>1, <4>2 DEF Clocked
      <4> QED
        BY <1>3, <1>8, <3>1, <4>3 DEF Clocking
    <3>2. CASE session.status # "live"
      BY <1>3, <1>4, <1>8, <3>2 DEF Clocking
    <3> QED
      BY <3>1, <3>2
  <2> QED
    BY <1>6, <2>2, <2>3, <2>4 DEF Beyond
<1>9. CASE t.status # "live"
  <2>1. t.at # "over" => info' # "held"
    <3> SUFFICES ASSUME t.at # "over" PROVE info' # "held"
      OBVIOUS
    <3>1. CASE session.status = "live"
      <4>1. (session.open /\ Pausing(t)) \/ t = session
        BY <1>0, <1>1, <3>1 DEF Ended, Coherent
      <4>2. t.status = "reconnecting"
        BY <1>9, <3>1, <4>1 DEF Pausing
      <4> QED
        BY <1>3, <3>1, <4>2 DEF OnStatus
    <3>2. CASE session.status # "live"
      <4>1. info # "held"
        BY <1>0, <3>2 DEF Beyond, Window
      <4> QED
        BY <1>3, <1>7, <4>1 DEF OnStatus
    <3> QED
      BY <3>1, <3>2
  <2>2. Window'
    BY <1>3, <1>9, <2>1 DEF Window
  <2>3. Dials'
    <3>1. /\ seen.dials <= n + 1
          /\ session.recovery.retryIn # Off => seen.dials <= n
      BY DEF Beyond, Dials
    <3>2. CASE t = session /\ session.open
      BY <1>0, <1>3, <1>4, <3>1, <3>2 DEF Dials
    <3>3. CASE /\ Ended(t) /\ t.recovery.retryIn = Off /\ t.recovery.retries = n
      BY <1>3, <1>4, <3>1, <3>3 DEF Dials, Ended
    <3>4. CASE Pausing(t) /\ t.recovery.retries = n + 1
      BY <1>3, <1>4, <1>5, <3>1, <3>4 DEF Dials, Pausing
    <3>5. CASE /\ t.recovery.retries = n /\ session.recovery.retryIn # Off
               /\ t.at = "dial" => t.recovery.retryIn = Off
      BY <1>3, <1>4, <1>5, <3>1, <3>5 DEF Dials
    <3> QED
      BY <1>1, <3>2, <3>3, <3>4, <3>5
  <2>4. Clocking'
    BY <1>3, <1>4, <1>9 DEF Clocking
  <2> QED
    BY <1>6, <2>2, <2>3, <2>4 DEF Beyond
<1> QED
  BY <1>1, <1>5, <1>8, <1>9

LEMMA ReadEndKeeps ==
  ASSUME Base, Beyond, ReadEnd
  PROVE  Beyond'
<1> DEFINE l == ConnectionLost(session)
<1>0. /\ TypeOK /\ Coherent(session) /\ session \in Session /\ session.at = "loop"
      /\ session.open /\ wire = << >> /\ session.recovery \in Recovery /\ seen \in Seen
  BY SessionTypes DEF Base, Coherent, ReadEnd, TypeOK
<1>1. /\ Tick(l) = l /\ l.status # "live"
      /\ \/ Pausing(l) /\ l.recovery.retries = session.recovery.retries + 1
         \/ Ended(l) /\ l.recovery.retries = session.recovery.retries
                     /\ l.recovery.retryIn = Off
  BY <1>0, EndLeaves
<1>2. EndTurn(Tick(l), Asked, Asked # info, wire) /\ Saw(l, FALSE)
  BY DEF ReadEnd
<1> HIDE DEF l
<1>3. /\ session' = l /\ info' = OnStatus(l, Asked) /\ wire' = << >>
  BY <1>0, <1>1, <1>2 DEF EndTurn
<1>4. /\ seen' \in Seen
      /\ seen'.dials = IF l.at = "dial" THEN seen.dials + 1 ELSE seen.dials
      /\ seen'.watched = IF l.status = "live" THEN seen.watched ELSE 0
      /\ seen'.quiet = IF l.status # "live" THEN 0 ELSE seen.quiet
      /\ seen'.pictured = (l.status = "live" /\ seen.pictured)
      /\ seen'.sentLost = (seen.sentLost \/ \E i \in Written(l) : asks[i].lost)
  BY <1>0, <1>2, SawFacts
<1>5. ~seen'.sentLost
  BY <1>1, <1>4 DEF Written, Beyond, Asks
<1>6. Asks'
  BY <1>1, <1>3, <1>5 DEF Asks, Pausing, Ended
<1>7. l.at # "over" => info' # "held"
  <2> SUFFICES ASSUME l.at # "over" PROVE info' # "held"
    OBVIOUS
  <2>1. l.status = "reconnecting"
    BY <1>1 DEF Pausing, Ended
  <2>2. CASE session.status # "reconnecting"
    BY <1>3, <2>1, <2>2 DEF OnStatus
  <2>3. CASE session.status = "reconnecting"
    <3>1. info # "held" /\ Asked # "held"
      BY <1>0, <2>3 DEF Beyond, Window, Asked
    <3> QED
      BY <1>3, <3>1 DEF OnStatus
  <2> QED
    BY <2>2, <2>3
<1>8. Window'
  BY <1>1, <1>3, <1>7 DEF Window
<1>9. Dials'
  <2>1. seen.dials \in Nat /\ session.recovery.retries \in Nat
    BY <1>0, ClockTypes, Constants DEF Seen
  <2>2. seen'.dials = seen.dials
    BY <1>1, <1>4 DEF Pausing, Ended
  <2> QED
    <3>1. seen.dials <= session.recovery.retries + 1
      BY DEF Beyond, Dials
    <3>2. session'.recovery = l.recovery
      BY <1>3
    <3>3. CASE Pausing(l) /\ l.recovery.retries = session.recovery.retries + 1
      BY <2>1, <2>2, <3>1, <3>2, <3>3 DEF Dials
    <3>4. CASE l.recovery.retries = session.recovery.retries /\ l.recovery.retryIn = Off
      BY <2>1, <2>2, <3>1, <3>2, <3>4 DEF Dials
    <3> QED
      BY <1>1, <3>3, <3>4
<1>10. Clocking'
  BY <1>1, <1>3, <1>4 DEF Clocking
<1> QED
  BY <1>6, <1>8, <1>9, <1>10 DEF Beyond

LEMMA SecondKeeps ==
  ASSUME Base, Beyond, Second
  PROVE  Beyond'
<1> DEFINE r == session.recovery
           n == SecondPasses(r)
           quiet == IF session.status = "live" THEN seen.quiet + 1 ELSE 0
           watched == IF seen.pictured /\ quiet <= MaxGap THEN Since(seen.watched, StableAfter)
                      ELSE 0
<1>0. /\ TypeOK /\ Coherent(session) /\ session \in Session /\ r \in Recovery /\ seen \in Seen
  BY SessionTypes DEF Base, Coherent, TypeOK
<1>1. /\ session' = [session EXCEPT !.recovery = n]
      /\ UNCHANGED <<wire, info, posted, shown, asks>>
      /\ seen' = [seen EXCEPT !.quiet = quiet, !.watched = watched]
  BY DEF Second
<1>2. /\ n.retries = r.retries /\ n.retryIn = Later(r.retryIn) /\ n.picture = Later(r.picture)
      /\ n.gap = Since(r.gap, MaxGap + 1) /\ n.steady = Since(r.steady, StableAfter)
  BY <1>0 DEF SecondPasses, Recovery
<1> HIDE DEF n, quiet, watched
<1>3. /\ session'.recovery = n /\ session'.at = session.at /\ session'.open = session.open
      /\ session'.status = session.status /\ session'.token = session.token
  BY <1>0, <1>1 DEF Session
<1>4. /\ seen'.dials = seen.dials /\ seen'.quiet = quiet /\ seen'.watched = watched
      /\ seen'.pictured = seen.pictured /\ seen'.sentLost = seen.sentLost
  BY <1>0, <1>1 DEF Seen
<1>5. Window'
  BY <1>1, <1>3 DEF Beyond, Window
<1>6. Asks'
  BY <1>1, <1>3, <1>4 DEF Beyond, Asks, LostAsks
<1>7. Dials'
  <2>1. n.retryIn # Off => r.retryIn # Off
    BY <1>0, <1>2, ClockTypes, Constants DEF Later, Clocks
  <2> QED
    BY <1>2, <1>3, <1>4, <2>1 DEF Beyond, Dials
<1>8. Clocking'
  <2>1. CASE session.status # "live"
    <3>1. quiet = 0 /\ watched = 0 /\ ~seen.pictured
      BY <2>1 DEF Beyond, Clocking, quiet, watched
    <3> QED
      BY <1>3, <1>4, <2>1, <3>1 DEF Clocking
  <2>2. CASE session.status = "live" /\ session.at # "loop"
    BY <1>3, <2>2 DEF Clocking
  <2>3. CASE session.status = "live" /\ session.at = "loop"
    <3>1. Clocked(r, seen)
      BY <2>3 DEF Beyond, Clocking
    <3>2. r.picture # Off /\ r.picture # 0
      BY <1>0, <2>3, Constants DEF Second, Overdue, Coherent, RetryDue
    <3>3. /\ r.picture \in Nat /\ r.gap \in Clocks /\ seen.quiet \in Nat
          /\ seen.watched \in 0 .. StableAfter /\ seen.pictured \in BOOLEAN
      BY <1>0, <3>2, ClockTypes, Constants DEF Seen, Clocks
    <3>4. n.picture = r.picture - 1 /\ quiet = seen.quiet + 1
      BY <1>2, <2>3, <3>2, <3>3 DEF Later, quiet
    <3>5. CASE ~seen.pictured
      <4>1. n.gap = Off /\ watched = 0
        BY <1>2, <3>1, <3>5, Constants DEF Clocked, Since, watched
      <4>2. n.picture + quiet = FirstPicture
        BY <3>1, <3>3, <3>4, <3>5, Constants DEF Clocked
      <4>3. Clocked(n, seen')
        BY <1>4, <3>5, <4>1, <4>2 DEF Clocked
      <4> QED
        BY <1>3, <2>3, <4>3 DEF Clocking
    <3>6. CASE seen.pictured
      <4>1. n.picture + quiet = SilenceTimeout
        BY <3>1, <3>3, <3>4, <3>6, Constants DEF Clocked
      <4>2. \/ n.gap \in 0 .. MaxGap /\ n.gap = quiet /\ n.steady = watched
            \/ n.gap = MaxGap + 1 /\ quiet > MaxGap /\ watched = 0
        <5>1. CASE r.gap \in 0 .. MaxGap /\ r.gap = seen.quiet /\ r.steady = seen.watched
          <6>1. n.gap = r.gap + 1
            BY <1>2, <5>1, Constants DEF Since
          <6>2. CASE n.gap <= MaxGap
            BY <1>2, <3>3, <3>4, <3>6, <5>1, <6>1, <6>2, Constants DEF watched
          <6>3. CASE ~(n.gap <= MaxGap)
            BY <1>2, <3>3, <3>4, <3>6, <5>1, <6>1, <6>3, Constants DEF watched
          <6> QED
            BY <6>2, <6>3
        <5>2. CASE r.gap = MaxGap + 1 /\ seen.quiet > MaxGap /\ seen.watched = 0
          BY <1>2, <3>3, <3>4, <5>2, Constants DEF Since, watched
        <5> QED
          BY <3>1, <3>6, <5>1, <5>2 DEF Clocked
      <4>3. Clocked(n, seen')
        BY <1>4, <3>6, <4>1, <4>2 DEF Clocked
      <4> QED
        BY <1>3, <2>3, <4>3 DEF Clocking
    <3> QED
      BY <3>5, <3>6
  <2> QED
    BY <2>1, <2>2, <2>3
<1> QED
  BY <1>5, <1>6, <1>7, <1>8 DEF Beyond

LEMMA WindowKeeps ==
  ASSUME Base, Beyond, Connect \/ ConnectFails \/ Leave \/ Drain
                       \/ Press("command") \/ Press("request") \/ Press("release")
  PROVE  Beyond'
<1>0. /\ TypeOK /\ Coherent(session) /\ session \in Session
      /\ session.recovery \in Recovery /\ seen \in Seen
  BY SessionTypes DEF Base, Coherent, TypeOK
<1>1. CASE Connect
  <2>1. /\ session' = [session EXCEPT !.at = "loop", !.open = TRUE] /\ session.at = "dial"
        /\ UNCHANGED <<wire, info, posted, shown, asks, seen>>
    BY <1>1 DEF Connect
  <2>2. /\ session'.at = "loop" /\ session'.status = session.status
        /\ session'.recovery = session.recovery
    BY <1>0, <2>1 DEF Session
  <2>3. session.status # "live"
    BY <1>0, <2>1 DEF Coherent
  <2>4. ~LostAsks
    BY <2>1 DEF Beyond, Asks
  <2> QED
    BY <2>1, <2>2, <2>3, <2>4 DEF Beyond, Window, Asks, LostAsks, Dials, Clocking
<1>2. CASE ConnectFails
  <2> DEFINE s == [session EXCEPT !.at = "loop"]
             l == ConnectionLost(s)
  <2>1. /\ session.at = "dial" /\ session' = l /\ info' = OnStatus(l, info)
        /\ UNCHANGED <<wire, posted, shown, asks, seen>>
    BY <1>2 DEF ConnectFails
  <2>2. /\ s \in Session /\ s.at = "loop" /\ ~s.recovery.stopped /\ s.recovery.retryIn = Off
        /\ s.recovery = session.recovery /\ session.status # "live"
    BY <1>0, <2>1 DEF Session, Coherent
  <2> HIDE DEF s
  <2>3. /\ Pausing(l) \/ Ended(l)
        /\ l.status # "live"
        /\ Pausing(l) => l.recovery.retries = session.recovery.retries + 1
        /\ Ended(l) => l.recovery.retries = session.recovery.retries /\ l.recovery.retryIn = Off
    BY <2>2, LostPausesOrEnds
  <2> HIDE DEF l
  <2>4. ~LostAsks
    BY <2>1 DEF Beyond, Asks
  <2>5. Asks'
    BY <2>1, <2>4 DEF Beyond, Asks, LostAsks
  <2>6. info # "held"
    BY <2>1, <2>2 DEF Beyond, Window
  <2>7. Window'
    BY <2>1, <2>3, <2>6 DEF Window, OnStatus
  <2>8. seen.dials \in Nat /\ session.recovery.retries \in Nat
    BY <1>0, ClockTypes, Constants DEF Seen
  <2>9. Dials'
    BY <2>1, <2>3, <2>8 DEF Beyond, Dials
  <2>10. Clocking'
    BY <2>1, <2>2, <2>3 DEF Beyond, Clocking
  <2> QED
    BY <2>5, <2>7, <2>9, <2>10 DEF Beyond
<1>3. CASE Leave
  <2>1. /\ session' = [session EXCEPT !.recovery = Stop(session.recovery), !.open = FALSE,
                                      !.at = "over"]
        /\ asks' = << >>
        /\ UNCHANGED <<info, posted, shown, seen>>
    BY <1>3 DEF Leave
  <2>2. session'.at = "over" /\ session'.status = session.status
        /\ session'.recovery = Stop(session.recovery)
    BY <1>0, <2>1 DEF Session
  <2>3. Stop(session.recovery).retries = session.recovery.retries
        /\ Stop(session.recovery).retryIn = Off
    BY <1>0 DEF Stop, Recovery
  <2> QED
    BY <2>1, <2>2, <2>3 DEF Beyond, Window, Asks, LostAsks, Dials, Clocking
<1>4. CASE Drain
  <2>1. /\ shown' = posted /\ posted' = "nothing" /\ posted # "nothing"
        /\ UNCHANGED <<session, wire, info, asks, seen>>
    BY <1>4 DEF Drain
  <2> QED
    BY <2>1 DEF Beyond, Window, Asks, LostAsks, Dials, Clocking
<1>5. ASSUME NEW what \in {"command", "request", "release"}, Press(what) PROVE Beyond'
  <2>1. /\ asks' = Append(asks, [what |-> what, lost |-> FALSE])
        /\ UNCHANGED <<session, wire, info, posted, shown, seen>>
    BY <1>5 DEF Press
  <2>2. asks \in Seq(Ask) /\ [what |-> what, lost |-> FALSE] \in Ask
    BY <1>0 DEF Ask, TypeOK
  <2>3. /\ DOMAIN asks' = 1 .. Len(asks) + 1 /\ DOMAIN asks = 1 .. Len(asks)
        /\ \A i \in 1 .. Len(asks) : asks'[i] = asks[i]
        /\ asks'[Len(asks) + 1] = [what |-> what, lost |-> FALSE] /\ Len(asks) \in Nat
    BY <2>1, <2>2
  <2>4. LostAsks' => LostAsks
    <3> SUFFICES ASSUME NEW i \in DOMAIN asks', asks'[i].lost PROVE LostAsks
      BY DEF LostAsks
    <3>1. i \in 1 .. Len(asks) \/ i = Len(asks) + 1
      BY <2>3
    <3>2. i # Len(asks) + 1
      BY <2>3
    <3> QED
      BY <2>3, <3>1, <3>2 DEF LostAsks
  <2> QED
    BY <2>1, <2>4 DEF Beyond, Window, Asks, Dials, Clocking
<1> QED
  BY <1>1, <1>2, <1>3, <1>4, <1>5

LEMMA PhoneKeeps ==
  ASSUME Base, Beyond, HostAccepts \/ HostRefuses \/ HostReports \/ HostDecides
                       \/ HostTakesRelease \/ HostParks \/ Cut
  PROVE  Beyond'
<1>1. UNCHANGED <<session, info, posted, shown, asks, seen>>
  BY DEF HostAccepts, HostRefuses, HostReports, HostDecides, HostTakesRelease, HostParks, Cut,
         PhoneOnly
<1>2. wire' = wire \/ session.open
  BY DEF HostAccepts, HostRefuses, HostReports, HostDecides, HostTakesRelease, HostParks, Cut, Up
<1>3. LostAsks' <=> LostAsks
  BY <1>1 DEF LostAsks
<1>4. Asks'
  BY <1>1, <1>2, <1>3 DEF Base, Beyond, Asks
<1> QED
  BY <1>1, <1>4 DEF Beyond, Window, Dials, Clocking

LEMMA InitBeyond ==
  ASSUME Init
  PROVE  Beyond
<1>1. session.status = "connecting" /\ session.at = "dial" /\ session.recovery = NewRecovery
  BY DEF Init
<1>2. NewRecovery.retries = 0 /\ NewRecovery.retryIn = Off
  BY DEF NewRecovery
<1>3. /\ info = "notOffered" /\ DOMAIN asks = {} /\ seen.dials = 1 /\ seen.watched = 0
      /\ seen.quiet = 0 /\ seen.pictured = FALSE /\ seen.sentLost = FALSE
  BY DEF Init
<1> QED
  BY <1>1, <1>2, <1>3 DEF Beyond, Window, Asks, LostAsks, Dials, Clocking

LEMMA NextBeyond ==
  ASSUME Base, Beyond, [Next]_vars
  PROVE  Beyond'
<1>1. CASE Next
  BY <1>1, ReadMessageKeeps, ReadNothingKeeps, ReadEndKeeps, SecondKeeps, WindowKeeps, PhoneKeeps
     DEF Next, Turn
<1>2. CASE UNCHANGED vars
  BY <1>2 DEF vars, Beyond, Window, Asks, LostAsks, Dials, Clocking
<1> QED
  BY <1>1, <1>2

LEMMA Always == Spec => [](Base /\ Beyond)
<1>1. Init => Base /\ Beyond
  BY InitBase, InitBeyond
<1>2. (Base /\ Beyond) /\ [Next]_vars => (Base /\ Beyond)'
  BY NextBase, NextBeyond
<1> QED
  BY <1>1, <1>2, PTL DEF Spec

(* On a quiet live feed the window, the session and the phone agree on who *)
(* holds control (control_from_token, control_after_state, begin_reconnect *)
(* and the phone's lease).                                                 *)
THEOREM ControlIsAgreed == Spec => []ControlSettles
<1>1. Base /\ Beyond => ControlSettles
  <2> SUFFICES ASSUME Base, Beyond, Quiet
               PROVE  /\ shown = "held" <=> session.token = "me"
                      /\ session.token = "me" <=> host.lease.holder = "me"
    BY DEF ControlSettles
  <2>1. /\ session.at = "loop" /\ session.status = "live" /\ wire = << >> /\ ~cut
        /\ posted = "nothing"
    BY DEF Quiet
  <2>2. session.open
    BY <2>1 DEF Base, Coherent
  <2>3. Untold
    BY <2>1 DEF Untold
  <2>4. Up
    BY <2>1, <2>2 DEF Base, Line, Up
  <2>5. session.token = host.lease.holder
    BY <2>3, <2>4 DEF Base, Line
  <2> QED
    BY <2>1, <2>5 DEF Beyond, Window
<1> QED
  BY <1>1, Always, PTL

(* However the connections end, a phone is dialled once and then at most   *)
(* MaxRetries times until its pictures have been steady.                   *)
THEOREM DialsAreBounded == Spec => []BoundedDials
<1>1. Base /\ Beyond => BoundedDials
  <2> SUFFICES ASSUME Base, Beyond PROVE seen.dials <= MaxRetries + 1
    BY DEF BoundedDials
  <2>1. session.recovery.retries \in 0 .. MaxRetries /\ seen.dials \in Nat
    BY SessionTypes, ClockTypes DEF Base, TypeOK, Coherent, Seen
  <2>2. seen.dials <= session.recovery.retries + 1
    BY DEF Beyond, Dials
  <2> QED
    BY <2>1, <2>2, Constants
<1> QED
  BY <1>1, Always, PTL

(* No mix of telemetry, tokens and late frames keeps a feed without        *)
(* pictures live past its deadline.                                        *)
THEOREM StallsEnd == Spec => []StallsAreSeen
<1>1. Base /\ Beyond => StallsAreSeen
  <2> SUFFICES ASSUME Base, Beyond, session.status = "live", session.at = "loop"
               PROVE  seen.quiet <= IF seen.pictured THEN SilenceTimeout ELSE FirstPicture
    BY DEF StallsAreSeen
  <2>1. Clocked(session.recovery, seen)
    BY DEF Beyond, Clocking
  <2>2. session.recovery.picture \in Clocks /\ session.recovery.picture # Off
    BY SessionTypes, ClockTypes DEF Base, Coherent
  <2>3. session.recovery.picture \in Nat /\ seen.quiet \in Nat
    BY <2>2 DEF Clocks, Base, TypeOK, Seen
  <2> QED
    BY <2>1, <2>3, Constants DEF Clocked
<1> QED
  BY <1>1, Always, PTL

(* What was asked of a connection that ended goes out on no later one.     *)
THEOREM LostAsksStayLost == Spec => []StaleAsksDie
<1>1. Base /\ Beyond => StaleAsksDie
  BY DEF Beyond, Asks, StaleAsksDie
<1> QED
  BY <1>1, Always, PTL

=============================================================================
