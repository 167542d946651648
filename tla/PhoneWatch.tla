---------------------------- MODULE PhoneWatch -----------------------------
(***************************************************************************)
(* The viewfinder on a phone's shared feed: the window (view.rs), the      *)
(* bridge on the session thread (phone.rs), the join (opc-relay            *)
(* session.rs) with its recovery policy, and the phone that shares (an     *)
(* external, but for its control lease).                                   *)
(*                                                                         *)
(*   session   where WatcherSession::run is; status, token, allows and     *)
(*             recovery are its fields, open its transport                 *)
(*   wire      what the phone sent on this connection and was not read     *)
(*   cut       the connection ends once the wire is read                   *)
(*   release   a release on its way to the phone                           *)
(*   host      the phone: whether it serves this watcher, and the lease    *)
(*   info      Bridge.info.control                                         *)
(*   posted    the last PhoneInfo posted to the window and not drained     *)
(*   shown     the control the window's shell has                          *)
(*   asks      the window's channel to the thread; lost marks what was     *)
(*             asked before a connection that has ended since              *)
(*   seen      history: what the properties compare with                   *)
(***************************************************************************)
EXTENDS WatcherRecovery, ControlLease

CONSTANTS
  MaxWire,   \* messages unread before the phone sends more
  MaxAsks    \* asks not taken by the thread

ASSUME WatchAssumption == {MaxWire, MaxAsks} \subseteq Nat

VARIABLES session, wire, cut, release, host, info, posted, shown, asks, seen

vars == <<session, wire, cut, release, host, info, posted, shown, asks, seen>>

Holders == {"host", "me", "other"}
Controls == {"notOffered", "available", "requested", "held", "heldBy"}

Session == [at       : {"loop", "dial", "over"},
            status   : {"connecting", "reconnecting", "live", "passcode", "failed"},
            token    : Holders,
            allows   : BOOLEAN,
            open     : BOOLEAN,
            recovery : Recovery]

Kinds == {"hello", "oldHello", "passcode", "denied", "state", "token", "frame",
          "lateFrame", "garbage"}
Message == [kind : Kinds, holder : Holders, allows : BOOLEAN]
Msg(kind) == [kind |-> kind, holder |-> "host", allows |-> FALSE]

Ask == [what : {"command", "request", "release"}, lost : BOOLEAN]

\* dials since the pictures were last steady; how long they have been; how long the live
\* feed has gone without one, or without its first; a lost ask was written to the wire.
Seen == [dials : Nat, watched : 0 .. StableAfter, quiet : Nat,
         pictured : BOOLEAN, sentLost : BOOLEAN]

TypeOK ==
  /\ session \in Session
  /\ wire \in Seq(Message)
  /\ cut \in BOOLEAN
  /\ release \in BOOLEAN
  /\ host \in [serves : BOOLEAN, lease : Lease]
  /\ info \in Controls
  /\ posted \in Controls \cup {"nothing"}
  /\ shown \in Controls
  /\ asks \in Seq(Ask)
  /\ seen \in Seen

Init ==
  /\ session = [at |-> "dial", status |-> "connecting", token |-> "host",
                allows |-> FALSE, open |-> FALSE, recovery |-> NewRecovery]
  /\ wire = << >>
  /\ cut = FALSE
  /\ release = FALSE
  /\ host = [serves |-> FALSE, lease |-> HostHolds]
  /\ info = "notOffered"
  /\ posted = "nothing"
  /\ shown = "notOffered"
  /\ asks = << >>
  /\ seen = [dials |-> 1, watched |-> 0, quiet |-> 0, pictured |-> FALSE, sentLost |-> FALSE]

-----------------------------------------------------------------------------
\* THE JOIN, as values of session.

BeginReconnect(s) ==
  [s EXCEPT !.open = FALSE, !.token = "host", !.status = "reconnecting"]

Fail(s) == [s EXCEPT !.recovery = Stop(@), !.open = FALSE, !.token = "host",
                     !.status = "failed", !.at = "over"]

NeedPasscode(s) == [s EXCEPT !.recovery = Stop(@), !.open = FALSE,
                             !.status = "passcode", !.at = "over"]

\* decode_* failed: run returns the error with the status as it stood.
Break(s) == [s EXCEPT !.open = FALSE, !.at = "over"]

\* connection_lost, and a tick that finds a deadline passed.
ConnectionLost(s) ==
  LET lost == [s EXCEPT !.recovery = Disconnected(@)]
  IN IF lost.recovery.stopped THEN Fail(lost) ELSE BeginReconnect(lost)

Dial(s) ==
  [s EXCEPT !.at = "dial", !.open = FALSE, !.recovery = Retry(@),
            !.status = IF s.recovery.retries > 0 THEN "reconnecting" ELSE "connecting"]

Tick(s) ==
  IF s.at = "over" THEN s
  ELSE IF RetryDue(s.recovery) THEN Dial(s)
  ELSE IF Overdue(s.recovery) THEN ConnectionLost(s)
  ELSE IF s.recovery.retryIn # Off THEN BeginReconnect(s) ELSE s

HandleFrame(s, m) ==
  IF s.status # "live" THEN s
  ELSE IF m.kind = "lateFrame" THEN ConnectionLost(s)
  ELSE [s EXCEPT !.recovery = Pictured(@)]

Handle(s, m) ==
  CASE m.kind = "hello" -> [s EXCEPT !.recovery = Connected(@), !.status = "live"]
    [] m.kind \in {"oldHello", "denied"} -> Fail(s)
    [] m.kind = "passcode" -> NeedPasscode(s)
    [] m.kind = "state" -> [s EXCEPT !.allows = m.allows, !.recovery = Heard(@)]
    [] m.kind = "token" -> [s EXCEPT !.token = m.holder, !.recovery = Heard(@)]
    [] m.kind \in {"frame", "lateFrame"} -> HandleFrame(s, m)
    [] m.kind = "garbage" -> Break(s)

\* THE BRIDGE: what Bridge.info.control becomes.

ControlFromToken(holder, wasRequested) ==
  CASE holder = "me" -> "held"
    [] holder = "other" -> "heldBy"
    [] holder = "host" -> IF wasRequested THEN "requested" ELSE "available"

\* Mutant: a state message forgets the control that is held.
StateForgetsHeld(control, allows) == IF allows THEN "available" ELSE "notOffered"

ControlAfterState(control, allows) ==
  IF allows THEN IF control \in {"held", "heldBy", "requested"} THEN control ELSE "available"
  ELSE IF control = "held" THEN "held" ELSE "notOffered"

ControlAfter(control, m) ==
  CASE m.kind = "token" -> ControlFromToken(m.holder, control = "requested")
    [] m.kind = "state" -> ControlAfterState(control, m.allows)
    [] OTHER -> control

\* should_continue takes every ask: a request shows at once.
Asked == IF info = "available" /\ \E i \in DOMAIN asks : asks[i].what = "request"
         THEN "requested" ELSE info

\* status_changed: reconnecting offers nothing, and tells the window only to wait.
OnStatus(s, control) ==
  IF s.status = "reconnecting" /\ session.status # "reconnecting" THEN "notOffered" ELSE control

-----------------------------------------------------------------------------
\* The asks the session s writes to the wire; it drops the others.
Written(s) ==
  {i \in DOMAIN asks : /\ s.at = "loop" /\ s.status = "live"
                       /\ IF asks[i].what = "request" THEN s.allows ELSE s.token = "me"}

\* flush_outgoing: a write finds the connection ended, or does not.
Flushed(s) == {s} \cup IF cut /\ Written(s) # {} THEN {ConnectionLost(s)} ELSE {}

\* A turn of the loop ends with the session s and the bridge's control; told, the bridge
\* posted it on the way.  A connection that goes takes what was unread with it.
EndTurn(s, control, told, unread) ==
  LET gone == session.open /\ ~s.open
  IN /\ session' = s
     /\ info' = OnStatus(s, control)
     /\ posted' = IF told THEN control ELSE posted
     /\ wire' = IF gone THEN << >> ELSE unread
     /\ cut' = (cut /\ ~gone)
     /\ UNCHANGED <<host, shown>>

\* Mutant: what cannot be sent yet is kept for later.
FlushKeepsUnsent(s) ==
  /\ asks' = IF s.status = "live" THEN << >> ELSE asks
  /\ release' = (release \/ \E i \in Written(s) : asks[i].what = "release")

FlushTo(s) ==
  /\ asks' = << >>
  /\ release' = (release \/ \E i \in Written(s) : asks[i].what = "release")

Saw(s, picture) ==
  seen' = [seen EXCEPT
    !.dials = IF s.at = "dial" THEN @ + 1
              ELSE IF picture /\ seen.watched = StableAfter THEN 1 ELSE @,
    !.watched = IF s.status = "live" THEN @ ELSE 0,
    !.quiet = IF s.status # "live" \/ picture THEN 0 ELSE @,
    !.pictured = s.status = "live" /\ (@ \/ picture),
    !.sentLost = @ \/ \E i \in Written(s) : asks[i].lost]

ReadMessage ==
  /\ session.at = "loop" /\ wire # << >>
  /\ LET m == Head(wire)
         handled == Handle(session, m)
     IN \E s \in Flushed(handled) :
          /\ EndTurn(s, ControlAfter(Asked, m),
                     Asked # info \/ m.kind \in {"hello", "state", "token"}, Tail(wire))
          /\ FlushTo(handled)
          /\ Saw(s, m.kind = "frame" /\ session.status = "live")

\* The read times out, or there is nothing to read from.
ReadNothing ==
  /\ session.at = "loop" /\ wire = << >>
  /\ \E s \in Flushed(session) :
       /\ EndTurn(Tick(s), Asked, Asked # info, wire)
       /\ FlushTo(session)
       /\ Saw(Tick(s), FALSE)

\* The read finds the connection ended: the asks taken wait for the next turn.
ReadEnd ==
  /\ session.at = "loop" /\ wire = << >> /\ session.open /\ cut
  /\ EndTurn(Tick(ConnectionLost(session)), Asked, Asked # info, wire)
  /\ asks' = [i \in DOMAIN asks |-> [asks[i] EXCEPT !.lost = TRUE]]
  /\ Saw(ConnectionLost(session), FALSE)
  /\ UNCHANGED release

Turn == ReadMessage \/ ReadNothing \/ ReadEnd

Connect ==
  /\ session.at = "dial"
  /\ ~host.serves
  /\ session' = [session EXCEPT !.at = "loop", !.open = TRUE]
  /\ UNCHANGED <<wire, cut, release, host, info, posted, shown, asks, seen>>

\* Nobody answers, or the hello cannot be sent.
ConnectFails ==
  /\ session.at = "dial"
  /\ LET s == ConnectionLost([session EXCEPT !.at = "loop"])
     IN session' = s /\ info' = OnStatus(s, info)
  /\ UNCHANGED <<wire, cut, release, host, posted, shown, asks, seen>>

\* The window is closed: PhoneLink::drop sends Stop, and should_continue finds it.
Leave ==
  /\ session.at = "loop"
  /\ session' = [session EXCEPT !.recovery = Stop(@), !.open = FALSE, !.at = "over"]
  /\ wire' = << >> /\ asks' = << >> /\ cut' = FALSE
  /\ UNCHANGED <<release, host, info, posted, shown, seen>>

\* A second passes.  tick runs when a read times out (READ_TIMEOUT, 50 ms), and a feed
\* without pictures leaves such gaps: the phone sends its state at 5 Hz (watcher-relay.md).
\* So no deadline is left standing for a second.
Second ==
  /\ session.at # "over"
  /\ session.at = "loop" => ~RetryDue(session.recovery) /\ ~Overdue(session.recovery)
  /\ LET live == session.status = "live"
         quiet == IF live THEN seen.quiet + 1 ELSE 0
     IN seen' = [seen EXCEPT
          !.quiet = quiet,
          !.watched = IF seen.pictured /\ quiet <= MaxGap THEN Since(@, StableAfter) ELSE 0]
  /\ session' = [session EXCEPT !.recovery = SecondPasses(@)]
  /\ host' = [host EXCEPT !.lease = ParkedSecondPasses(@)]
  /\ UNCHANGED <<wire, cut, release, info, posted, shown, asks>>

-----------------------------------------------------------------------------
\* THE WINDOW (view.rs): a command goes out while the shell shows control held; the Link
\* tab, and the first command without it, ask.
Press(what) ==
  /\ session.at # "over"
  /\ Len(asks) < MaxAsks
  /\ shown \in IF what = "command" THEN {"held"} ELSE {"available", "requested", "held"}
  /\ asks' = Append(asks, [what |-> what, lost |-> FALSE])
  /\ UNCHANGED <<session, wire, cut, release, host, info, posted, shown, seen>>

\* pump_phone
Drain ==
  /\ session.at # "over"
  /\ posted # "nothing"
  /\ shown' = posted
  /\ posted' = "nothing"
  /\ UNCHANGED <<session, wire, cut, release, host, info, asks, seen>>

-----------------------------------------------------------------------------
\* THE PHONE that shares, and the network.  It sends on the connection it serves.

Up == host.serves /\ session.open /\ ~cut

\* What happens to the phone after the join has ended is left out.
PhoneOnly ==
  /\ session.at # "over"
  /\ UNCHANGED <<session, cut, info, posted, shown, asks, seen>>

HostSends(messages) ==
  /\ Len(wire) < MaxWire
  /\ wire' = wire \o messages

TokenFor(lease) == [Msg("token") EXCEPT !.holder = lease.holder]

\* The hello carries the watcherID: a lease parked under it is claimed.
HostAccepts ==
  /\ session.at = "loop" /\ session.open /\ ~host.serves /\ ~cut
  /\ host' = [serves |-> TRUE, lease |-> Claim(host.lease)]
  /\ HostSends(<<Msg("hello"), TokenFor(host'.lease)>>)
  /\ UNCHANGED release
  /\ PhoneOnly

HostRefuses ==
  /\ session.at = "loop" /\ session.open /\ ~host.serves /\ ~cut /\ wire = << >>
  /\ \E kind \in {"oldHello", "passcode", "denied"} : HostSends(<<Msg(kind)>>)
  /\ UNCHANGED <<host, release>>
  /\ PhoneOnly

HostReports ==
  /\ Up
  /\ \/ \E kind \in {"frame", "lateFrame", "garbage"} : HostSends(<<Msg(kind)>>)
     \/ \E allows \in BOOLEAN : HostSends(<<[Msg("state") EXCEPT !.allows = allows]>>)
  /\ UNCHANGED <<host, release>>
  /\ PhoneOnly

\* The phone's operator gives control, to me or to another, or takes it back.
HostDecides ==
  /\ Up
  /\ \E lease \in {Grant("me"), Grant("other"), Reclaim} \ {host.lease} :
       host' = [host EXCEPT !.lease = lease] /\ HostSends(<<TokenFor(lease)>>)
  /\ UNCHANGED release
  /\ PhoneOnly

HostTakesRelease ==
  /\ Up /\ release
  /\ release' = FALSE
  /\ host' = [host EXCEPT !.lease = IF @.holder = "me" THEN Reclaim ELSE @]
  /\ HostSends(<<TokenFor(host'.lease)>>)
  /\ PhoneOnly

\* The phone sees a connection go before it takes the next one from the same watcher.
HostParks ==
  /\ host.serves /\ (cut \/ ~session.open)
  /\ host' = [serves |-> FALSE, lease |-> Park(host.lease)]
  /\ release' = FALSE
  /\ UNCHANGED wire
  /\ PhoneOnly

Cut ==
  /\ session.open /\ ~cut
  /\ cut' = TRUE
  /\ UNCHANGED <<session, wire, release, host, info, posted, shown, asks, seen>>

Next ==
  \/ Turn \/ Connect \/ ConnectFails \/ Leave \/ Second
  \/ Press("command") \/ Press("request") \/ Press("release") \/ Drain
  \/ HostAccepts \/ HostRefuses \/ HostReports \/ HostDecides \/ HostTakesRelease
  \/ HostParks \/ Cut

\* The session thread runs, a dial returns within connect_timeout, and the clock goes on.
Spec == /\ Init /\ [][Next]_vars
        /\ WF_vars(Turn) /\ WF_vars(Connect \/ ConnectFails) /\ WF_vars(Second)

-----------------------------------------------------------------------------
\* PROPERTIES

\* On a live feed with nothing under way, the window shows control held exactly when the
\* session would write a command and the phone would carry it out: through grants,
\* reclaims, releases, drops and returns to a parked lease (control_from_token,
\* control_after_state, begin_reconnect).
Quiet == session.at = "loop" /\ session.status = "live" /\ wire = << >> /\ ~cut
         /\ posted = "nothing" /\ ~release
ControlSettles ==
  Quiet => /\ shown = "held" <=> session.token = "me"
           /\ session.token = "me" <=> host.lease.holder = "me"

\* "Only ten seconds of continuing picture delivery resets the retry budget"
\* (watcher-relay.md): without them a phone is dialled once and then MaxRetries times.
BoundedDials == seen.dials <= MaxRetries + 1

\* "Telemetry cannot hide a stalled decoder" (watcher-relay.md): a feed stays live
\* without a picture only for as long as the silence timeout, or the wait for the first.
StallsAreSeen ==
  session.status = "live" /\ session.at = "loop" =>
    seen.quiet <= IF seen.pictured THEN SilenceTimeout ELSE FirstPicture

\* What the window asked for before a connection ended is never written to a later one
\* (flush_outgoing drops while the join is not live).
StaleAsksDie == ~seen.sentLost

\* A join goes live or is given up, whatever the phone and the network do.
JoinEnds ==
  session.status \in {"connecting", "reconnecting"}
    ~> session.status = "live" \/ session.at = "over"

=============================================================================
