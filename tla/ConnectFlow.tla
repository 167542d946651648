---------------------------- MODULE ConnectFlow ----------------------------
(***************************************************************************)
(* The connection screen (opc-monitor/connect.rs): ConnectApp on the UI    *)
(* thread, ble_worker on its own, the two mpsc channels between them, the  *)
(* Bluetooth link the worker drives (ble_impl.rs) and the LAN search.      *)
(* Neither channel says which attempt a message belongs to.                *)
(*                                                                         *)
(* A frame of the UI takes all the events that wait and then draws what    *)
(* the operator clicks on, and it is short against the 50 ms of a poll: a  *)
(* click finds no event waiting.                                           *)
(*                                                                         *)
(* A camera stands for its name, address, model and Wi-Fi: what is read    *)
(* from a camera is that camera.  The screen of BleEvent::Step and the     *)
(* Pairing screen are one screen, whatever the label.                      *)
(***************************************************************************)
EXTENDS StationProvisioning, Sequences, FiniteSets

CONSTANTS
  Cameras,
  NoCamera,
  Video,       \* bodies that want video mode selected first (wants_video_mode)
  NoGetter,    \* bodies that may have no role getter (allows_missing_role_query)
  MaxClicks,   \* bound on what the operator does
  MaxAir,      \* bound on the notifications buffered between two polls
  MaxEvents    \* bound on the events that wait for a frame of the UI

ASSUME ConnectAssumption ==
  /\ NoCamera \notin Cameras
  /\ Video \cap NoGetter = {}
  /\ {MaxClicks, MaxAir, MaxEvents} \subseteq Nat

VARIABLES
  screen,   \* ConnectApp.screen
  picked,   \* camera_name, camera_address and model_id
  shown,    \* what the WifiReady screen shows
  pending,  \* pending_station: what to remember once the search finds the camera
  search,   \* the identity the LAN search looks for, while search_rx is set
  saved,    \* the file station::save writes and station::forget removes
  outcome,
  cmds,     \* the BleCmd channel
  events,   \* the BleEvent channel
  worker,   \* where ble_worker is
  link,     \* the transport (its peripheral, live notification streams and buffer), and
            \* the cameras that the computer has a Bluetooth connection to
  half,     \* history: the cameras whose last connect failed once that was up
  clicks

ui == <<screen, picked, shown, pending, search, saved, outcome>>
vars == <<ui, cmds, events, worker, link, half, clicks>>

Some == Cameras \cup {NoCamera}

Screens == {"scanning", "choose", "homeWifi", "searching", "info", "phones",
            "pairing", "approval", "wifiReady", "failed"}

Outcomes == {"none", "connected", "skip", "phone", "station"}

Credentials == [ssid : Some, password : Some, model : Some]
Station == [model : Some, identity : Some]
Nothing == [model |-> NoCamera, identity |-> NoCamera]
NoCredentials == [ssid |-> NoCamera, password |-> NoCamera, model |-> NoCamera]

Command == [do : {"scan", "pair", "station", "reset", "cancel"}, camera : Some]
Do(what) == [do |-> what, camera |-> NoCamera]

Event == [kind : {"scanning", "found", "none", "step", "approval", "credentials",
                  "stationDone", "stationReset", "error"},
          ssid : Some, password : Some, confirmed : BOOLEAN]
Ev(kind) == [kind |-> kind, ssid |-> NoCamera, password |-> NoCamera, confirmed |-> FALSE]

Frame == [from : Cameras, kind : {"accepted", "approval", "refused", "request", "apAck",
                                  "ssid", "password", "role", "set", "join"}]

Places == {"idle", "scan", "connect", "pin", "ap", "ssid", "password",
           "session", "provision", "reset", "stopped"}

Worker == [at : Places, op : {"pair", "station", "reset"}, target : Some,
           ssid : Some, asked : BOOLEAN, m : Machine]

Idle == [at |-> "idle", op |-> "pair", target |-> NoCamera, ssid |-> NoCamera,
         asked |-> FALSE, m |-> NewMachine("plain")]

BodyOf(camera) == IF camera \in Video THEN "video"
                  ELSE IF camera \in NoGetter THEN "noGetter" ELSE "plain"

TypeOK ==
  /\ screen \in Screens
  /\ picked \in Some
  /\ shown \in Credentials
  /\ pending \in Station
  /\ search \in Some
  /\ saved \in Station
  /\ outcome \in Outcomes
  /\ cmds \in Seq(Command)
  /\ events \in Seq(Event)
  /\ worker \in Worker
  /\ link \in [peripheral : Some, streams : SUBSET Cameras, up : SUBSET Cameras,
               air : Seq(Frame)]
  /\ half \in SUBSET Cameras
  /\ clicks \in 0 .. MaxClicks

\* run_with and ConnectApp::new: a scan is asked for at once, unless the screen opens on
\* the phones; the worker stops with an error when there is no Bluetooth.
Init ==
  /\ \E onPhones, bluetooth \in BOOLEAN :
       /\ screen = IF onPhones THEN "phones" ELSE "scanning"
       /\ cmds = IF ~bluetooth THEN << >>
                 ELSE IF onPhones THEN <<Do("cancel")>> ELSE <<Do("scan")>>
       /\ events = IF bluetooth THEN << >> ELSE <<Ev("error")>>
       /\ worker = IF bluetooth THEN Idle ELSE [Idle EXCEPT !.at = "stopped"]
  /\ picked = NoCamera
  /\ shown = NoCredentials
  /\ pending = Nothing
  /\ search = NoCamera
  /\ \E c \in Some : saved = [model |-> c, identity |-> c]
  /\ outcome = "none"
  /\ link = [peripheral |-> NoCamera, streams |-> {}, up |-> {}, air |-> << >>]
  /\ half = {}
  /\ clicks = 0

-----------------------------------------------------------------------------
\* THE OPERATOR: the buttons of draw_screen.  A worker that has stopped dropped its end of
\* the channel, and what is sent to it is lost without a word.

Send(commands) ==
  cmds' = IF worker.at = "stopped" THEN cmds ELSE cmds \o commands

Press ==
  /\ outcome = "none"
  /\ clicks < MaxClicks
  /\ clicks' = clicks + 1
  /\ UNCHANGED <<events, worker, link, half, search, saved>>

Click == Press /\ events = << >>

GoTo(next, commands) ==
  /\ screen' = next
  /\ Send(commands)
  /\ UNCHANGED outcome

Pick(c) ==
  /\ Click /\ screen = "choose"
  /\ picked' = c
  /\ GoTo("pairing", <<[do |-> "pair", camera |-> c]>>)
  /\ UNCHANGED <<shown, pending>>

\* Scan Again, Try Again, and Back from the home Wi-Fi screen.
ScanAgain ==
  /\ Click /\ screen \in {"choose", "info", "failed", "homeWifi"}
  /\ GoTo("scanning", <<Do("scan")>>)
  /\ UNCHANGED <<picked, shown, pending>>

CancelPairing ==
  /\ Click /\ screen \in {"pairing", "approval"}
  /\ GoTo("scanning", <<Do("cancel"), Do("scan")>>)
  /\ UNCHANGED <<picked, shown, pending>>

\* want_phones, and browse_phones at the start of the next frame, ahead of what the worker
\* has told in between.
BrowsePhones ==
  /\ Press /\ screen \in {"scanning", "choose", "failed"}
  /\ GoTo("phones", <<Do("cancel")>>)
  /\ UNCHANGED <<picked, shown, pending>>

BackToCameras ==
  /\ Click /\ screen = "phones"
  /\ GoTo("scanning", <<Do("scan")>>)
  /\ UNCHANGED <<picked, shown, pending>>

HomeWifi ==
  /\ Click /\ screen = "wifiReady"
  /\ GoTo("homeWifi", << >>)
  /\ UNCHANGED <<picked, shown, pending>>

JoinHomeWifi ==
  /\ Click /\ screen = "homeWifi"
  /\ pending' = [model |-> picked, identity |-> NoCamera]
  /\ GoTo("pairing", <<[do |-> "station", camera |-> picked]>>)
  /\ UNCHANGED <<picked, shown>>

ResetStation ==
  /\ Click /\ screen = "homeWifi"
  /\ GoTo("pairing", <<[do |-> "reset", camera |-> picked]>>)
  /\ UNCHANGED <<picked, shown, pending>>

\* finish: Join & Connect, Already on camera Wi-Fi, and a phone picked.
Finish(result) ==
  /\ outcome' = result
  /\ Send(<<Do("cancel")>>)

Choose(from, result) ==
  /\ Click /\ screen \in from
  /\ Finish(result)
  /\ UNCHANGED <<screen, picked, shown, pending>>

Operator ==
  \/ \E c \in Cameras : Pick(c)
  \/ ScanAgain \/ CancelPairing \/ BrowsePhones \/ BackToCameras
  \/ HomeWifi \/ JoinHomeWifi \/ ResetStation
  \/ Choose({"wifiReady"}, "connected")
  \/ Choose({"scanning", "choose", "failed"}, "skip")
  \/ Choose({"phones"}, "phone")

-----------------------------------------------------------------------------
\* THE UPDATE LOOP: all the events that wait, and the LAN search's answer.

ScreenOf(event) ==
  CASE event.kind = "scanning"     -> "scanning"
    [] event.kind = "found"        -> "choose"
    [] event.kind = "step"         -> "pairing"
    [] event.kind = "approval"     -> "approval"
    [] event.kind = "credentials"  -> "wifiReady"
    [] event.kind = "stationDone"  -> "searching"
    [] event.kind = "stationReset" -> "info"
    [] OTHER                       -> "failed"

LastOf(kind, i) ==
  /\ events[i].kind = kind
  /\ \A j \in DOMAIN events : events[j].kind = kind => j <= i

Show ==
  /\ screen' = ScreenOf(events[Len(events)])
  /\ IF \A i \in DOMAIN events : events[i].kind # "credentials"
     THEN UNCHANGED shown
     ELSE \E i \in DOMAIN events :
            /\ LastOf("credentials", i)
            /\ shown' = [ssid |-> events[i].ssid, password |-> events[i].password,
                         model |-> picked]
  /\ IF \A i \in DOMAIN events : events[i].kind # "stationDone"
     THEN UNCHANGED <<search, pending>>
     ELSE \E i \in DOMAIN events :
            /\ LastOf("stationDone", i)
            /\ search' = events[i].ssid
            /\ pending' = IF pending = Nothing THEN pending
                          ELSE [pending EXCEPT !.identity = events[i].ssid]

\* Mutant: the phone screen does not hold the scanner's answers back.
DrainAnywhere ==
  /\ outcome = "none"
  /\ events # << >>
  /\ events' = << >>
  /\ Show
  /\ UNCHANGED <<picked, saved, outcome, cmds, worker, link, half, clicks>>

Drain ==
  /\ outcome = "none"
  /\ events # << >>
  /\ events' = << >>
  /\ IF screen = "phones" THEN UNCHANGED <<screen, shown, search, pending>> ELSE Show
  /\ UNCHANGED <<picked, saved, outcome, cmds, worker, link, half, clicks>>

\* find_camera answers with the address of the camera it looked for, or with none.
SearchAnswer(found) ==
  /\ outcome = "none"
  /\ search # NoCamera
  /\ search' = NoCamera
  /\ pending' = Nothing
  /\ IF found
     THEN /\ saved' = IF pending = Nothing THEN saved ELSE pending
          /\ Finish("station")
          /\ UNCHANGED screen
     ELSE /\ screen' = "failed"
          /\ UNCHANGED <<saved, outcome, cmds>>
  /\ UNCHANGED <<picked, shown, events, worker, link, half, clicks>>

-----------------------------------------------------------------------------
\* THE CAMERA.  While its notification stream lives, what it answers to the frames
\* written so far reaches the buffer in any order, late or more than once; it may ask for
\* approval at any time.

\* The reply a step of the station runner waits for: 07/07, 07/39, 07/48 or 07/47.
Answering == CASE worker.m.step = "identity" -> "ssid"
               [] worker.m.step \in {"role", "readback"} -> "role"
               [] worker.m.step = "set" -> "set"
               [] OTHER -> "join"

Written(at) ==
  CASE at \in {"pin", "session"} -> {"accepted", "approval", "refused", "request"}
    [] at = "ap"                 -> {"apAck", "request"}
    [] at = "ssid"               -> {"ssid", "apAck"}
    [] at = "password"           -> {"ssid", "password"}
    [] at = "provision"          -> {Answering}
    [] at = "reset"              -> {"set"}
    [] OTHER                     -> {}

Notify(c, kind) ==
  /\ outcome = "none"
  /\ c \in link.streams
  /\ kind \in Written(worker.at)
  /\ Len(link.air) < MaxAir
  /\ link' = [link EXCEPT !.air = Append(@, [from |-> c, kind |-> kind])]
  /\ UNCHANGED <<ui, cmds, events, worker, half, clicks>>

-----------------------------------------------------------------------------
\* THE WORKER.  Only its own loop takes every command: inside an operation a poll takes
\* one command and throws it away unless it is Cancel (cancel_check, cancelled).

Work(at) ==
  /\ outcome = "none"
  /\ worker.at = at
  /\ UNCHANGED <<screen, picked, shown, pending, search, outcome, clicks>>

Report(list) == events' = events \o list
Step == Ev("step")

CancelNext == cmds # << >> /\ Head(cmds).do = "cancel"
PollCommand == cmds' = IF cmds = << >> THEN cmds ELSE Tail(cmds)

TakeCommand ==
  /\ Work("idle") /\ cmds # << >>
  /\ cmds' = Tail(cmds)
  /\ LET command == Head(cmds)
     IN CASE command.do = "scan" ->
               /\ worker' = [Idle EXCEPT !.at = "scan"]
               /\ Report(<<Ev("scanning")>>)
          [] command.do = "cancel" ->
               /\ worker' = [Idle EXCEPT !.at = "stopped"]
               /\ UNCHANGED events
          [] OTHER ->
               /\ worker' = [Idle EXCEPT !.at = "connect", !.op = command.do,
                                         !.target = command.camera]
               /\ UNCHANGED events
  /\ UNCHANGED link

ScanEnds(result) ==
  /\ Work("scan")
  /\ worker' = Idle
  /\ Report(<<Ev(result)>>)
  /\ UNCHANGED <<cmds, link>>

\* connect replaces the peripheral, starts a notification stream and leaves the buffer be.
Connect ==
  /\ Work("connect")
  /\ link' = [link EXCEPT !.peripheral = worker.target,
                          !.streams = @ \cup {worker.target},
                          !.up = @ \cup {worker.target}]
  /\ half' = half \ {worker.target}
  /\ worker' = [worker EXCEPT !.at = IF worker.op = "pair" THEN "pin" ELSE "session"]
  /\ Report(<<Step>>)
  /\ UNCHANGED cmds

\* The camera is not found, or refuses; or the connection is up and its services, a
\* subscription or the arming write fail, and connect returns without taking it down or
\* knowing its peripheral; or one of the first two writes of Pair fails, which disconnects.
ConnectFails ==
  /\ Work("connect")
  /\ worker' = Idle
  /\ Report(<<Ev("error")>>)
  /\ LET target == {worker.target}
     IN \/ UNCHANGED <<link, half>>
        \/ link' = [link EXCEPT !.up = @ \cup target] /\ half' = half \cup target
        \/ /\ worker.op = "pair"
           /\ link' = [link EXCEPT !.up = @ \ target] /\ half' = half \ target
  /\ UNCHANGED cmds

\* Mutant: disconnect leaves the notification stream running.
CloseKeepsStream(air) == link' = [link EXCEPT !.peripheral = NoCamera, !.air = air]

\* disconnect ends the peripheral's stream; what it left in the buffer stays there.
Close(air) ==
  link' = [peripheral |-> NoCamera, streams |-> link.streams \ {link.peripheral},
           up |-> link.up \ {link.peripheral}, air |-> air]

End(list, air) ==
  /\ worker' = Idle
  /\ Report(list)
  /\ Close(air)

\* What a poll does with the buffer: every notification is taken.  The j-th of these
\* kinds is the one that j of them, itself included, came up to.
HeardAt(kinds) == {i \in DOMAIN link.air : link.air[i].kind \in kinds}

Heard(kinds) ==
  [j \in 1 .. Cardinality(HeardAt(kinds)) |->
     link.air[CHOOSE i \in HeardAt(kinds) :
                Cardinality({h \in HeardAt(kinds) : h <= i}) = j]]

EmptyAir == link' = [link EXCEPT !.air = << >>]

\* Mutant: a failed write returns without disconnecting.
WriteFailsAndStays ==
  /\ \E at \in {"ap", "ssid", "session", "provision", "reset"} : Work(at)
  /\ UNCHANGED <<cmds, link>>
  /\ worker' = Idle
  /\ Report(<<Ev("error")>>)

\* A write fails: the operation ends with an error.
WriteFails ==
  /\ \E at \in {"ap", "ssid", "session", "provision", "reset"} : Work(at)
  /\ UNCHANGED cmds
  /\ End(<<Ev("error")>>, link.air)

Cancelled(at) ==
  /\ Work(at) /\ CancelNext /\ PollCommand
  /\ End(<< >>, link.air)

TimesOut(at) ==
  /\ Work(at) /\ ~CancelNext /\ PollCommand
  /\ End(<<Ev("error")>>, link.air)

\* Phase 2 of Pair: a refusal is reported and the wait goes on.
PinPoll ==
  /\ Work("pin") /\ ~CancelNext /\ PollCommand
  /\ EmptyAir
  /\ LET said == Heard({"approval", "refused"})
         accepted == Heard({"accepted", "request"}) # << >>
     IN /\ Report([i \in 1 .. Len(said) |->
                     Ev(IF said[i].kind = "approval" THEN "approval" ELSE "error")]
                  \o (IF accepted THEN <<Step>> ELSE << >>))
        /\ worker' = IF accepted THEN [worker EXCEPT !.at = "ap"] ELSE worker

\* Phase 3: the acknowledgement, five seconds or Cancel: the pairing goes on all the same.
ToTheName ==
  /\ worker' = [worker EXCEPT !.at = "ssid"]
  /\ Report(<<Step>>)

WakePoll ==
  /\ Work("ap") /\ ~CancelNext /\ PollCommand
  /\ EmptyAir
  /\ IF Heard({"apAck"}) # << >> THEN ToTheName ELSE UNCHANGED <<worker, events>>

WakeEnds ==
  /\ Work("ap") /\ PollCommand
  /\ ToTheName
  /\ UNCHANGED link

\* Phases 4 and 5: the name, then the password.
ReadName ==
  /\ Work("ssid") /\ ~CancelNext /\ PollCommand
  /\ EmptyAir
  /\ LET names == Heard({"ssid"})
     IN IF names = << >> THEN UNCHANGED <<worker, events>>
        ELSE /\ worker' = [worker EXCEPT !.at = "password", !.ssid = names[Len(names)].from]
             /\ Report(<<Step>>)

ReadPassword ==
  /\ Work("password") /\ ~CancelNext /\ PollCommand
  /\ LET passwords == Heard({"password"})
     IN IF passwords = << >> THEN EmptyAir /\ UNCHANGED <<worker, events>>
        ELSE End(<<[Ev("credentials") EXCEPT !.ssid = worker.ssid,
                                             !.password = passwords[Len(passwords)].from]>>,
                 << >>)

\* Cancel only leaves the wait of phases 4 and 5: the empty value is then an error.
ReadCancelled ==
  /\ \E at \in {"ssid", "password"} : Work(at)
  /\ CancelNext /\ PollCommand
  /\ End(<<Ev("error")>>, link.air)

\* open_session: the first decisive notification is read and the rest of the batch dropped.
SessionPoll ==
  /\ Work("session") /\ ~CancelNext /\ PollCommand
  /\ LET said == Heard({"accepted", "approval", "refused", "request"})
         decisive == Heard({"accepted", "refused", "request"})
         ask == said # << >> /\ said[1].kind = "approval" /\ ~worker.asked
         asking == IF ask THEN <<Ev("approval")>> ELSE << >>
     IN IF decisive # << >> /\ decisive[1].kind = "refused"
        THEN End(Append(asking, Ev("error")), << >>)
        ELSE /\ EmptyAir
             /\ IF decisive = << >>
                THEN /\ Report(asking)
                     /\ worker' = [worker EXCEPT !.asked = @ \/ ask]
                ELSE /\ Report(Append(asking, Step))
                     /\ worker' = [worker EXCEPT
                          !.at = IF worker.op = "reset" THEN "reset" ELSE "provision",
                          !.m = NewMachine(BodyOf(worker.target))]

\* Mutant: a session that is never opened ends without a word.
UnansweredSilently ==
  /\ \E at \in {"session", "reset"} : Work(at)
  /\ UNCHANGED cmds
  /\ End(<< >>, link.air)

\* The waits of the station runner look at the commands only while they wait.
Unanswered ==
  /\ \E at \in {"session", "reset"} : Work(at)
  /\ UNCHANGED cmds
  /\ End(<<Ev("error")>>, link.air)

\* One turn of provision_connected's loop: the machine's next step is written, and the
\* Pocket 4 Pro's mode select is not waited for.
SendStep ==
  /\ Work("provision") /\ ~CancelNext /\ PollCommand
  /\ worker.m.state = "working" /\ ~worker.m.sent
  /\ worker' = [worker EXCEPT !.m = IF @.step = "videoMode" THEN Receive(@, "sent")
                                                            ELSE [@ EXCEPT !.sent = TRUE]]
  /\ Report(IF worker.m.reads > 0 THEN << >> ELSE <<Step>>)
  /\ UNCHANGED link

\* exchange: the first reply to the command written, whichever sequence number it carries.
StepAnswered(answer) ==
  /\ Work("provision") /\ ~CancelNext /\ PollCommand
  /\ worker.m.state = "working" /\ worker.m.sent
  /\ answer \in Answers(worker.m)
  /\ LET replies == Heard({Answering})
     IN /\ replies # << >>
        /\ worker' = [worker EXCEPT
             !.m = Receive(@, answer),
             !.ssid = IF answer = "identity" THEN replies[1].from ELSE @]
  /\ EmptyAir
  /\ UNCHANGED events

StepWaits ==
  /\ Work("provision") /\ ~CancelNext /\ PollCommand
  /\ worker.m.state = "working" /\ worker.m.sent
  /\ Heard({Answering}) = << >>
  /\ EmptyAir
  /\ UNCHANGED <<worker, events>>

StepUnanswered ==
  /\ Work("provision")
  /\ worker.m.state = "working" /\ worker.m.sent
  /\ worker' = [worker EXCEPT !.m = Receive(@, "timeout")]
  /\ UNCHANGED <<cmds, events, link>>

ProvisioningEnds ==
  /\ Work("provision") /\ ~CancelNext /\ PollCommand
  /\ worker.m.state # "working"
  /\ End(<<IF worker.m.state = "failed" THEN Ev("error")
           ELSE [Ev("stationDone") EXCEPT !.ssid = worker.ssid,
                                          !.confirmed = worker.m.confirmed]>>, link.air)

\* The role change is acknowledged: the saved network is forgotten, whichever camera's.
ResetAnswered(accepted) ==
  /\ Work("reset") /\ ~CancelNext /\ PollCommand
  /\ Heard({"set"}) # << >>
  /\ saved' = IF accepted THEN Nothing ELSE saved
  /\ End(<<Ev(IF accepted THEN "stationReset" ELSE "error")>>, << >>)

ResetWaits ==
  /\ Work("reset") /\ ~CancelNext /\ PollCommand
  /\ Heard({"set"}) = << >>
  /\ EmptyAir
  /\ UNCHANGED <<worker, events>>

-----------------------------------------------------------------------------
Works ==
  /\ Len(events) < MaxEvents
  /\ \/ TakeCommand
     \/ \E result \in {"found", "none", "error"} : ScanEnds(result)
     \/ WriteFails
     \/ \E at \in {"pin", "session", "provision", "reset"} : Cancelled(at)
     \/ PinPoll \/ WakePoll \/ WakeEnds \/ ReadName \/ ReadPassword \/ ReadCancelled
     \/ SessionPoll
     \/ SendStep \/ StepWaits \/ ProvisioningEnds
     \/ \E answer \in Answers(worker.m) : StepAnswered(answer)
     \/ ResetWaits
  /\ UNCHANGED <<saved, half>>

Connects == Len(events) < MaxEvents /\ (Connect \/ ConnectFails) /\ UNCHANGED saved

Resets ==
  /\ Len(events) < MaxEvents
  /\ \E accepted \in BOOLEAN : ResetAnswered(accepted)
  /\ UNCHANGED half

Deadline ==
  /\ \/ \E at \in {"pin", "ssid", "password"} : TimesOut(at)
     \/ Unanswered
     \/ StepUnanswered
  /\ UNCHANGED <<saved, half>>

Next ==
  \/ Operator
  \/ Drain
  \/ \E found \in BOOLEAN : SearchAnswer(found)
  \/ \E c \in Cameras : \E kind \in Written(worker.at) : Notify(c, kind)
  \/ Works \/ Connects \/ Resets
  \/ Deadline

\* The UI redraws while anything is awaited, the worker's loops poll every 50 ms and give
\* up at their deadlines, and the search walks a finite subnet.  Nobody has to press a
\* button and no camera has to answer.
Fairness ==
  /\ WF_vars(Drain)
  /\ WF_vars(\E found \in BOOLEAN : SearchAnswer(found))
  /\ WF_vars(Works) /\ WF_vars(Connects)
  /\ WF_vars(WakeEnds /\ UNCHANGED <<saved, half>>)
  /\ WF_vars(Deadline)

Spec == Init /\ [][Next]_vars /\ Fairness

-----------------------------------------------------------------------------
\* A pairing reads the Wi-Fi name and the password from the camera it was asked to pair,
\* although the notification buffer outlives every connection (ble_impl.rs never clears it):
\* each exit disconnects, and each phase's first poll throws away what was left behind.
ReadsItsOwnCamera ==
  /\ worker.ssid \in {NoCamera, worker.target}
  /\ \A i \in 1 .. Len(events) :
       events[i].kind = "credentials" => events[i].ssid = events[i].password
  /\ shown.ssid = shown.password

\* What is remembered of a camera on the operator's Wi-Fi is one camera's: the identity
\* the search matched and the model came from the same camera, two events, a search and
\* any number of presses apart.
RemembersOneCamera == saved.model = saved.identity

\* Between two operations the worker holds no peripheral and no live notification stream,
\* and no Bluetooth connection is up but those of connects that failed halfway, whichever
\* of the exits of Pair, provision and reset it took: each takes its own camera down, one
\* that an earlier connect left up included.
OnlyHalfConnectsLeak ==
  worker.at \in {"idle", "scan", "connect", "stopped"} =>
    /\ link.peripheral = NoCamera /\ link.streams = {}
    /\ link.up \subseteq half

\* "A scan that finishes after the operator went to the phone screen must not pull them
\* back": neither the worker's events nor a search still running change that screen.
PhonesLeftByChoice ==
  [][screen = "phones" /\ screen' # "phones" => BackToCameras]_vars

\* A join the camera never confirmed is handed to the LAN search only after every attempt.
UnconfirmedAfterEveryAttempt ==
  [][worker.m.state = "working" /\ worker'.m.state = "done" /\ ~worker'.m.confirmed
       => worker.m.attempt = Attempts]_vars

\* Every wait the screen shows ends, unless the worker has stopped.
Waiting == screen \in {"scanning", "pairing", "approval", "searching"} /\ outcome = "none"
EveryWaitEnds == Waiting ~> (~Waiting \/ worker.at = "stopped")

=============================================================================
