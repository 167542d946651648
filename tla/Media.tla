------------------------------- MODULE Media -------------------------------
(***************************************************************************)
(* The library and the player: what the shell shows (shell.rs, library.rs),*)
(* the driver in the window (media.rs) with its listing (Browse) and its   *)
(* way back to live view (opc-media resume.rs), the thread that fetches    *)
(* (worker.rs), and the camera, an external.                               *)
(*                                                                         *)
(*   screen    Shell.screen                                                *)
(*   lib       Shell.library, what it lists and how it is looked at, and   *)
(*             Shell.player                                                *)
(*   browse    MediaDriver.browse                                          *)
(*   resume    MediaDriver.resume                                          *)
(*   driver    inPlayback, fresh (last_presented is after resume.started), *)
(*             pending_play, pending_photo, and the clip the reader is on  *)
(*   jobs      the worker's channels                                       *)
(*   air       what is on its way from the camera                         *)
(*   camera    whether it is in playback, and the takes on its card        *)
(*   asked, tapped   history: the takes asked to be opened since the       *)
(*             library was last entered; what the last DELETE tap was on,  *)
(*             for one take and for the checked ones                       *)
(*   pictured  history: a picture was presented since the last resume began*)
(***************************************************************************)
EXTENDS Browse, Sequences

CONSTANTS
  Rounds,      \* a resume gives up after this many sends, 24
  MaxClicks,   \* bound on what the operator does
  MaxAir       \* bound on the camera's datagrams in flight; what does not fit is lost

ASSUME MediaAssumption == {Rounds, MaxClicks, MaxAir} \subseteq Nat

VARIABLES screen, lib, browse, resume, driver, jobs, air, camera,
          asked, tapped, pictured, clicks

vars == <<screen, lib, browse, resume, driver, jobs, air, camera,
          asked, tapped, pictured, clicks>>

NoTake == 0
Some == Takes \cup {NoTake}
Videos == {t \in Takes : t >= VideoBase}

Job == [what : {"play", "photo", "original"}, take : Takes]
Frame == [kind : {"entryReply", "status", "chunk"}, on : BOOLEAN, takes : SUBSET Takes]

TypeOK ==
  /\ screen \in {"viewfinder", "library", "player", "photo"}
  /\ lib \in [files : SUBSET Takes, listing : BOOLEAN, selected : Some, armed : Some,
              player : Some,
              selecting : BOOLEAN, checked : SUBSET Takes, batchArmed : BOOLEAN]
  /\ browse \in Listing
  /\ resume \in [on : BOOLEAN, attempt : 0 .. Rounds + 1, acked : BOOLEAN]
  /\ driver \in [inPlayback : BOOLEAN, fresh : BOOLEAN, play : Some, photo : Some,
                 reader : Some]
  /\ jobs \in Seq(Job)
  /\ air \in Seq(Frame)
  /\ camera \in [playback : BOOLEAN, card : SUBSET Takes]
  /\ asked \in SUBSET Takes
  /\ tapped \in [one : Some, batch : SUBSET Takes]
  /\ pictured \in BOOLEAN
  /\ clicks \in 0 .. MaxClicks

Init ==
  /\ screen = "viewfinder"
  /\ lib = [files |-> {}, listing |-> FALSE, selected |-> NoTake, armed |-> NoTake,
            player |-> NoTake, selecting |-> FALSE, checked |-> {}, batchArmed |-> FALSE]
  /\ browse = NoBrowse
  /\ resume = [on |-> FALSE, attempt |-> 0, acked |-> FALSE]
  /\ driver = [inPlayback |-> FALSE, fresh |-> FALSE, play |-> NoTake, photo |-> NoTake,
               reader |-> NoTake]
  /\ jobs = << >>
  /\ air = << >>
  /\ camera = [playback |-> FALSE, card |-> Takes]
  /\ asked = {}
  /\ tapped = [one |-> NoTake, batch |-> {}]
  /\ pictured = FALSE
  /\ clicks = 0

-----------------------------------------------------------------------------
\* THE CAMERA, as the code takes it to be.  An order reaches it at once or not at all; what
\* it sends may be late or lost.

Answer(kind, on, takes) ==
  air' = IF Len(air) < MaxAir THEN Append(air, [kind |-> kind, on |-> on, takes |-> takes])
         ELSE air

\* The PageSize newest takes older than the cursor; older pages need playback.
Page(cursor) ==
  LET listed == {t \in camera.card : cursor = Newest \/ t < cursor}
      newer(t) == Cardinality({u \in listed : u > t})
  IN IF cursor # Newest /\ ~camera.playback THEN {} ELSE {t \in listed : newer(t) < PageSize}

Lost == UNCHANGED <<camera, air>>

Sends(order) ==
  \/ Lost
  \/ /\ order.do = "enter"
     /\ \E accepts \in BOOLEAN :
          /\ camera' = [camera EXCEPT !.playback = @ \/ accepts]
          /\ Answer("entryReply", accepts, {})
  \/ /\ order.do = "special"
     /\ camera' = [camera EXCEPT !.playback = TRUE]
     /\ UNCHANGED air
  \/ /\ order.do = "exit"
     /\ \E accepts \in BOOLEAN :
          /\ camera' = [camera EXCEPT !.playback = @ /\ ~accepts]
          /\ Answer("entryReply", accepts, {})
  \/ /\ order.do = "list"
     /\ Answer("chunk", TRUE, Page(order.about))
     /\ UNCHANGED camera

Deletes(takes) ==
  /\ \E heard \in SUBSET takes : camera' = [camera EXCEPT !.card = @ \ heard]
  /\ UNCHANGED air

CameraReports ==
  /\ Len(air) < MaxAir
  /\ Answer("status", camera.playback, {})
  /\ UNCHANGED <<screen, lib, browse, resume, driver, jobs, camera, asked, tapped,
                 clicks, pictured>>

Lose ==
  /\ air # << >> /\ air' = Tail(air)
  /\ UNCHANGED <<screen, lib, browse, resume, driver, jobs, camera, asked, tapped,
                 clicks, pictured>>

-----------------------------------------------------------------------------
\* THE OPERATOR

Click ==
  /\ clicks < MaxClicks
  /\ clicks' = clicks + 1

\* Mutant: closing the library keeps the clip that is still being fetched.
StopReaderOnly == [driver EXCEPT !.reader = NoTake, !.photo = NoTake]

\* Mutant: only clips are forgotten.
StopClips == [driver EXCEPT !.reader = NoTake, !.play = NoTake]

\* stop_player
StopPlayer == [driver EXCEPT !.reader = NoTake, !.play = NoTake, !.photo = NoTake]

\* open_library and MediaAction::OpenLibrary.  What the cache remembers may be shown.
OpenLibrary ==
  /\ Click /\ screen = "viewfinder"
  /\ screen' = "library"
  /\ \E index \in {{}, camera.card} :
       lib' = [lib EXCEPT !.player = NoTake, !.listing = TRUE,
                          !.files = IF @ = {} THEN index ELSE @]
  /\ resume' = [resume EXCEPT !.on = FALSE]
  /\ browse' = Start
  /\ UNCHANGED <<driver, jobs, camera, air, asked, tapped, pictured>>

Refresh ==
  /\ Click /\ screen = "library"
  /\ lib' = [lib EXCEPT !.listing = TRUE]
  /\ browse' = Start
  /\ UNCHANGED <<screen, resume, driver, jobs, camera, air, asked, tapped, pictured>>

CloseLibrary ==
  /\ Click /\ screen = "library"
  /\ screen' = "viewfinder"
  /\ lib' = [lib EXCEPT !.player = NoTake, !.armed = NoTake]
  /\ browse' = NoBrowse
  /\ driver' = [StopPlayer EXCEPT !.fresh = FALSE]
  /\ resume' = [on |-> TRUE, attempt |-> 0, acked |-> FALSE]
  /\ asked' = {}
  /\ pictured' = FALSE
  /\ UNCHANGED <<jobs, camera, air, tapped>>

ClosePlayer ==
  /\ Click /\ screen \in {"player", "photo"}
  /\ screen' = "library"
  /\ lib' = [lib EXCEPT !.player = NoTake]
  /\ driver' = StopPlayer
  /\ asked' = {}
  /\ UNCHANGED <<browse, resume, jobs, camera, air, tapped, pictured>>

\* A tile: select_index, or toggle_checked in select mode.
Tap(t) ==
  /\ Click /\ screen = "library" /\ t \in lib.files
  /\ lib' = IF lib.selecting
            THEN [lib EXCEPT !.checked = (@ \ {t}) \cup ({t} \ @), !.batchArmed = FALSE]
            ELSE [lib EXCEPT !.selected = t, !.armed = NoTake]
  /\ tapped' = IF lib.selecting THEN [tapped EXCEPT !.batch = {}]
                                ELSE [tapped EXCEPT !.one = NoTake]
  /\ UNCHANGED <<screen, browse, resume, driver, jobs, camera, air, asked, pictured>>

SelectMode ==
  /\ Click /\ screen = "library"
  /\ lib' = [lib EXCEPT !.selecting = ~@, !.checked = {}, !.batchArmed = FALSE,
                        !.armed = NoTake]
  /\ tapped' = [one |-> NoTake, batch |-> {}]
  /\ UNCHANGED <<screen, browse, resume, driver, jobs, camera, air, asked, pictured>>

\* The library's buttons for one take are gone while several are being checked.
LibraryButtons == screen = "library" => ~lib.selecting

\* library_open_selected, MediaAction::Play and Photo.
Open ==
  /\ Click /\ screen = "library" /\ ~lib.selecting /\ lib.selected \in lib.files
  /\ LET t == lib.selected
         what == IF t \in Videos THEN "play" ELSE "photo"
     IN /\ driver' = IF t \in Videos THEN [driver EXCEPT !.play = t]
                     ELSE [driver EXCEPT !.photo = t]
        /\ jobs' = Append(jobs, [what |-> what, take |-> t])
        /\ asked' = asked \cup {t}
  /\ UNCHANGED <<screen, lib, browse, resume, camera, air, tapped, pictured>>

Download ==
  /\ Click /\ LibraryButtons
  /\ LET t == IF screen = "library" THEN lib.selected ELSE lib.player
     IN /\ t \in lib.files
        /\ jobs' = Append(jobs, [what |-> "original", take |-> t])
  /\ UNCHANGED <<screen, lib, browse, resume, driver, camera, air, asked, tapped,
                 pictured>>

\* Mutant: the selected take counts as armed.
SelectedIsArmed(t) == lib.selected = t

\* A tap on DELETE arms it for this take, and the next one deletes.
Armed(t) == lib.armed = t

\* delete_tapped; the player's trash selects the clip first, and a delete that goes out
\* closes the player.
DeleteTapped ==
  /\ Click /\ screen # "viewfinder" /\ LibraryButtons
  /\ LET t == IF screen = "library" THEN lib.selected ELSE lib.player
         goes == Armed(t) /\ t \in lib.files
         leaves == goes /\ screen # "library"
     IN /\ t # NoTake
        /\ lib' = IF goes
                  THEN [lib EXCEPT !.armed = NoTake, !.files = @ \ {t}, !.selected = NoTake,
                                   !.player = IF leaves THEN NoTake ELSE @]
                  ELSE [lib EXCEPT !.armed = IF Armed(t) THEN NoTake ELSE t,
                                   !.selected = t]
        /\ Deletes(IF goes THEN {t} ELSE {})
        /\ tapped' = [tapped EXCEPT !.one = t]
        /\ screen' = IF leaves THEN "library" ELSE screen
        /\ driver' = IF leaves THEN StopPlayer ELSE driver
        /\ asked' = IF leaves THEN {} ELSE asked
  /\ UNCHANGED <<browse, resume, jobs, pictured>>

\* delete_checked: one delete per checked take still listed.
DeleteChecked ==
  /\ Click /\ screen = "library" /\ lib.selecting /\ lib.checked # {}
  /\ LET gone == lib.checked \cap lib.files
     IN IF ~lib.batchArmed
        THEN lib' = [lib EXCEPT !.batchArmed = TRUE] /\ Lost
        ELSE /\ lib' = [lib EXCEPT !.batchArmed = FALSE, !.checked = {}, !.selecting = FALSE,
                                   !.files = @ \ gone,
                                   !.selected = IF @ \in gone THEN NoTake ELSE @]
             /\ Deletes(gone)
  /\ tapped' = [tapped EXCEPT !.batch = lib.checked]
  /\ UNCHANGED <<screen, browse, resume, driver, jobs, asked, pictured>>

-----------------------------------------------------------------------------
\* MediaDriver::tick, once per redraw: the listing, the fetches, the way back.

\* browse.tick, and page_decoded or a page that does not read.
TickBrowse(due) ==
  /\ browse.phase \notin {"off", "done"}
  /\ LET t == Tick(browse, due)
     IN /\ IF t.orders = << >> THEN Lost ELSE Sends(t.orders[1])
        /\ IF t.b.phase # "decoding"
           THEN browse' = t.b /\ UNCHANGED lib
           ELSE \/ /\ browse' = PageDecoded(t.b)
                   /\ lib' = [lib EXCEPT !.files = @ \cup browse.chunks, !.listing = TRUE]
                \/ /\ browse' = NoBrowse
                   /\ lib' = [lib EXCEPT !.listing = FALSE]
  /\ UNCHANGED <<screen, resume, driver, jobs, asked, tapped, clicks, pictured>>

BrowseDone ==
  /\ browse.phase = "done"
  /\ browse' = NoBrowse
  /\ lib' = [lib EXCEPT !.listing = FALSE]
  /\ UNCHANGED <<screen, resume, driver, jobs, air, camera, asked, tapped,
                 clicks, pictured>>

FetchFailed(t) ==
  driver' = [driver EXCEPT !.play = IF @ = t THEN NoTake ELSE @,
                           !.photo = IF @ = t THEN NoTake ELSE @]

Show(where, t) ==
  /\ screen' = where
  /\ lib' = [lib EXCEPT !.armed = NoTake, !.player = t]

\* The fetching thread takes its jobs in order and ends each with one report, so the two
\* channels are one queue.  A report takes what is pending, whichever file it is about,
\* and opens the file only if it was that one; a clip may not open.
TakeReport ==
  /\ jobs # << >>
  /\ jobs' = Tail(jobs)
  /\ LET t == Head(jobs).take
     IN \/ /\ Head(jobs).what # "photo"
           /\ driver' = [driver EXCEPT !.play = NoTake]
           /\ UNCHANGED <<screen, lib>>
        \/ /\ Head(jobs).what # "photo" /\ t = driver.play
           /\ driver' = [driver EXCEPT !.play = NoTake, !.reader = t]
           /\ Show("player", t)
        \/ /\ Head(jobs).what = "photo"
           /\ driver' = [driver EXCEPT !.photo = NoTake]
           /\ IF t = driver.photo THEN Show("photo", t) ELSE UNCHANGED <<screen, lib>>
        \/ /\ FetchFailed(t)
           /\ UNCHANGED <<screen, lib>>
  /\ UNCHANGED <<browse, resume, air, camera, asked, tapped, clicks, pictured>>

\* ResumePolicy::action, every RESUME_PERIOD, and what the driver makes of it.
TickResume ==
  /\ resume.on
  /\ IF driver.fresh /\ ~driver.inPlayback
     THEN resume' = [resume EXCEPT !.on = FALSE] /\ Lost
     ELSE /\ resume' = [resume EXCEPT !.attempt = @ + 1, !.on = resume.attempt < Rounds]
          /\ Sends(Order(IF driver.inPlayback \/ ~resume.acked THEN "exit" ELSE "enable",
                         NoTake))
  /\ UNCHANGED <<screen, lib, browse, driver, jobs, asked, tapped, clicks, pictured>>

\* The redraw presents a picture: the driver is told on every screen but the viewfinder.
Present ==
  /\ driver' = [driver EXCEPT !.fresh = @ \/ screen # "viewfinder"]
  /\ pictured' = TRUE
  /\ UNCHANGED <<screen, lib, browse, resume, jobs, air, camera, asked,
                 tapped, clicks>>

\* pump_camera: MediaDriver::frame and status.
TakeFrame ==
  /\ air # << >>
  /\ air' = Tail(air)
  /\ LET f == Head(air)
     IN \/ /\ f.kind = "entryReply"
           /\ resume' = [resume EXCEPT !.acked = @ \/ resume.on]
           /\ browse' = IF browse.phase = "off" THEN browse ELSE EntryReply(browse, ~f.on)
           /\ UNCHANGED driver
        \/ /\ f.kind = "status"
           /\ driver' = [driver EXCEPT !.inPlayback = f.on]
           /\ browse' = IF browse.phase = "off" THEN browse ELSE Playback(browse, f.on)
           /\ UNCHANGED resume
        \/ /\ f.kind = "chunk"
           /\ browse' = Chunk(browse, f.takes)
           /\ UNCHANGED <<driver, resume>>
  /\ UNCHANGED <<screen, lib, jobs, camera, asked, tapped, clicks, pictured>>

-----------------------------------------------------------------------------
Next ==
  \/ OpenLibrary \/ Refresh \/ CloseLibrary \/ ClosePlayer \/ SelectMode
  \/ Open \/ Download \/ DeleteTapped \/ DeleteChecked
  \/ \E t \in Takes : Tap(t)
  \/ \E due \in BOOLEAN : TickBrowse(due)
  \/ BrowseDone \/ TakeReport \/ TickResume \/ Present \/ TakeFrame
  \/ CameraReports \/ Lose

\* The window redraws, and every timer runs out.
Spec == /\ Init /\ [][Next]_vars
        /\ WF_vars(TickBrowse(TRUE)) /\ WF_vars(BrowseDone) /\ WF_vars(TickResume)

-----------------------------------------------------------------------------
\* PROPERTIES

\* Off its screens the library is at rest: no listing to send the camera back into
\* playback, no clip that runs on, nothing that could still open (CloseLibrary and
\* ClosePlayer against whatever is under way).
OffScreenIsIdle ==
  /\ screen \in {"viewfinder", "library"} => driver.reader = NoTake
  /\ screen = "viewfinder" => /\ browse.phase = "off"
                              /\ driver.play = NoTake /\ driver.photo = NoTake
  /\ resume.on => screen = "viewfinder"

\* A player or a viewer opens only on what the operator asked for since they last entered
\* the library or came back to it, however late the worker's report is.
OpensWhatWasAsked ==
  [][screen' \in {"player", "photo"} /\ lib'.player # lib.player
       => lib'.player \in asked]_vars

\* A take leaves the list, and its delete goes out, only on a second DELETE tap on what
\* the first was on, with no other take chosen in between (delete_tapped, delete_checked).
DeletesOnTheSecondTap ==
  [][\A t \in lib.files \ lib'.files :
       t \in {tapped.one} \cap {tapped'.one} \/ t \in tapped.batch \cap tapped'.batch]_vars

\* Every listing ends, whatever is lost, refused or unreadable, and the spinner with it.
ListingEnds == lib.listing ~> ~lib.listing \/ screen = "viewfinder"

\* A resume is done when a frame is presented after it started: once there is one, and the
\* camera is not in playback, no further round goes out (resume.rs, note_presented).
FreshPictureEndsResume ==
  [][resume.on /\ pictured /\ ~driver.inPlayback => resume'.attempt = resume.attempt]_vars

=============================================================================
