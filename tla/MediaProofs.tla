----------------------------- MODULE MediaProofs -----------------------------
(***************************************************************************)
(* Proofs about Media for every value of its constants: any card, any size *)
(* of a page, any number of attempts and rounds, however long the operator *)
(* goes on.                                                                *)
(***************************************************************************)
EXTENDS Media, WellFoundedInduction, TLAPS

LEMMA Constants ==
  /\ Rounds \in Nat /\ MaxClicks \in Nat /\ MaxAir \in Nat
  /\ EnterAttempts \in Nat /\ VideoBase \in Nat
  /\ Takes \subseteq Nat /\ NoTake \notin Takes /\ Newest \notin Takes
BY MediaAssumption, BrowseAssumption DEF NoTake, Newest

-----------------------------------------------------------------------------
(***************************************************************************)
(* The listing.                                                            *)
(***************************************************************************)
(* A listing is typed, and asks for a page's third frame once.             *)
Sound(b) == b \in Listing /\ (b.phase = "querying" => b.step <= 2)

LEMMA QuerySound ==
  ASSUME NEW b, b \in Listing, b.step <= 2
  PROVE  Sound(Query(b).b) /\ Query(b).b.phase # "decoding"
<1> DEFINE q == [b EXCEPT !.step = @ + 1, !.phase = IF b.step = 2 THEN "collecting" ELSE "querying"]
<1>1. Query(b).b = q
  BY DEF Query, Then
<1>2. b.step \in 0 .. 3
  BY DEF Listing
<1>3. b.step + 1 \in 0 .. 3
  BY <1>2
<1>4. q \in Listing
  BY <1>3 DEF Listing, Phases
<1>5. q.phase = (IF b.step = 2 THEN "collecting" ELSE "querying") /\ q.step = b.step + 1
  BY DEF Listing
<1>6. (q.phase = "querying" => q.step <= 2) /\ q.phase # "decoding"
  BY <1>2, <1>5
<1> QED
  BY <1>1, <1>4, <1>6 DEF Sound

LEMMA BeginPageSound ==
  ASSUME NEW b, b \in Listing
  PROVE  Sound(BeginPage(b)) /\ BeginPage(b).step = 0
<1> DEFINE p == [b EXCEPT !.phase = "querying", !.step = 0, !.chunks = {}]
<1>1. p \in Listing
  <2>1. 0 \in 0 .. 3 /\ {} \in SUBSET Takes /\ "querying" \in Phases
    BY DEF Phases
  <2> QED
    BY <2>1 DEF Listing
<1>2. p.step = 0
  BY DEF Listing
<1> QED
  BY <1>1, <1>2 DEF Sound, BeginPage

LEMMA TickSpecialSound ==
  ASSUME NEW b, b \in Listing, b.phase = "special", NEW due \in BOOLEAN
  PROVE  Sound(TickSpecial(b, due).b)
<1>1. Sound([b EXCEPT !.phase = "settling"]) /\ Sound(b)
  BY DEF Sound, Listing, Phases
<1>2. Sound(Query(BeginPage(b)).b)
  BY BeginPageSound, QuerySound DEF Sound
<1> QED
  BY <1>1, <1>2 DEF TickSpecial, Stay, Then

LEMMA TickEnteringSound ==
  ASSUME NEW b, b \in Listing, b.phase = "entering", NEW due \in BOOLEAN
  PROVE  Sound(TickEntering(b, due).b)
<1>1. Sound([b EXCEPT !.phase = "settling"]) /\ Sound(b)
  BY DEF Sound, Listing, Phases
<1>2. [b EXCEPT !.phase = "special"] \in Listing
  BY DEF Listing, Phases
<1>3. Sound(EnterSpecial(b).b)
  BY <1>2, TickSpecialSound DEF EnterSpecial, Listing
<1>4. CASE b.attempts < EnterAttempts
  <2>1. Sound([b EXCEPT !.attempts = @ + 1])
    BY <1>4, Constants DEF Sound, Listing
  <2> QED
    BY <1>1, <1>3, <2>1 DEF TickEntering, Stay, Then
<1>5. CASE b.attempts >= EnterAttempts
  BY <1>1, <1>3, <1>5 DEF TickEntering, Stay, Then
<1> QED
  BY <1>4, <1>5, Constants DEF Listing

LEMMA TickSound ==
  ASSUME NEW b, Sound(b), NEW due \in BOOLEAN
  PROVE  Sound(Tick(b, due).b)
<1>1. CASE b.phase = "entering"
  BY <1>1, TickEnteringSound DEF Tick, Sound
<1>2. CASE b.phase = "special"
  BY <1>2, TickSpecialSound DEF Tick, Sound
<1>3. CASE b.phase = "settling"
  <2>1. Sound(Query(BeginPage(b)).b)
    BY BeginPageSound, QuerySound DEF Sound
  <2> QED
    BY <1>3, <2>1 DEF Tick, Stay, Then
<1>4. CASE b.phase = "querying"
  BY <1>4, QuerySound DEF Tick, Stay, Then, Sound
<1>5. CASE b.phase = "collecting"
  <2>1. Sound([b EXCEPT !.phase = "decoding"])
    BY DEF Sound, Listing, Phases
  <2> QED
    BY <1>5, <2>1 DEF Tick, Stay, Then
<1>6. CASE b.phase \in {"off", "decoding", "done"}
  BY <1>6 DEF Tick, Stay, Then
<1> QED
  BY <1>1, <1>2, <1>3, <1>4, <1>5, <1>6 DEF Sound, Listing, Phases

(* A set of numbers that is not empty has a smallest one.                  *)
LEMMA SmallestOf ==
  ASSUME NEW S, S \subseteq Nat, S # {}
  PROVE  \E x \in S : \A y \in S : x <= y
<1> DEFINE Less == {pair \in Nat \X Nat : pair[1] < pair[2]}
<1>1. IsWellFoundedOn(Less, Nat)
  BY NatLessThanWellFounded DEF OpToRel
<1>2. PICK x \in S : \A y \in S : <<y, x>> \notin Less
  BY <1>1, WFMin
<1>3. \A y \in S : ~(y < x)
  BY <1>2
<1> QED
  BY <1>3

(* A page's next cursor is one of its takes, or none.                      *)
LEMMA NextCursorType ==
  ASSUME NEW takes \in SUBSET Takes, NEW cursor
  PROVE  NextCursor(takes, cursor) \in Cursors
<1> DEFINE older == {t \in takes : t >= VideoBase /\ (cursor = Newest \/ t < cursor)}
<1>1. CASE older = {}
  BY <1>1 DEF NextCursor, Cursors
<1>2. CASE older # {}
  <2>1. older \subseteq Nat
    BY Constants
  <2>2. \E x \in older : \A y \in older : x <= y
    BY <1>2, <2>1, SmallestOf
  <2>3. Min(older) \in older
    BY <2>2 DEF Min
  <2> QED
    BY <1>2, <2>3 DEF NextCursor, Cursors
<1> QED
  BY <1>1, <1>2

LEMMA PageDecodedSound ==
  ASSUME NEW b, Sound(b)
  PROVE  Sound(PageDecoded(b))
<1> DEFINE next == NextCursor(b.chunks, b.cursor)
           moved == [b EXCEPT !.cursor = next]
<1>1. b.chunks \in SUBSET Takes /\ b \in Listing
  BY DEF Sound, Listing
<1>2. next \in Cursors
  BY <1>1, NextCursorType
<1>3. moved \in Listing
  BY <1>1, <1>2 DEF Listing
<1>4. Sound(BeginPage(moved))
  BY <1>3, BeginPageSound
<1>5. Sound([b EXCEPT !.phase = "done"])
  BY <1>1 DEF Sound, Listing, Phases
<1> QED
  BY <1>4, <1>5 DEF PageDecoded

(* What the driver passes on keeps a listing sound and does not start one. *)
LEMMA EventSound ==
  ASSUME NEW b, Sound(b), NEW on \in BOOLEAN, NEW takes \in SUBSET Takes
  PROVE  /\ Sound(Playback(b, on)) /\ Sound(EntryReply(b, on)) /\ Sound(Chunk(b, takes))
         /\ Playback(b, on).phase = b.phase
         /\ EntryReply(b, on).phase = b.phase
         /\ Chunk(b, takes).phase = b.phase
<1>1. b \in Listing
  BY DEF Sound
<1>2. Sound(Playback(b, on)) /\ Playback(b, on).phase = b.phase
  BY <1>1 DEF Sound, Playback, Listing
<1>3. Sound(EntryReply(b, on)) /\ EntryReply(b, on).phase = b.phase
  BY <1>1 DEF Sound, EntryReply, Listing
<1>4. Sound(Chunk(b, takes)) /\ Chunk(b, takes).phase = b.phase
  <2>1. b.chunks \cup takes \in SUBSET Takes
    BY <1>1 DEF Listing
  <2>2. [b EXCEPT !.chunks = @ \cup takes] \in Listing
    BY <1>1, <2>1 DEF Listing
  <2> QED
    BY <1>1, <2>2 DEF Sound, Chunk, Listing
<1> QED
  BY <1>2, <1>3, <1>4

LEMMA StartSound == Sound(NoBrowse) /\ Sound(Start) /\ NoBrowse.phase = "off"
<1>1. 0 \in 0 .. EnterAttempts /\ 0 \in 0 .. 3 /\ {} \in SUBSET Takes /\ Newest \in Cursors
  BY Constants DEF Cursors, Newest
<1>2. Sound(NoBrowse) /\ NoBrowse.phase = "off"
  BY <1>1 DEF Sound, NoBrowse, Listing, Phases
<1> QED
  BY <1>1, <1>2 DEF Sound, NoBrowse, Start, Listing, Phases

-----------------------------------------------------------------------------
(***************************************************************************)
(* The camera, and what the driver forgets.                                *)
(***************************************************************************)
CameraTyped ==
  /\ air \in Seq(Frame)
  /\ camera \in [playback : BOOLEAN, card : SUBSET Takes]

LEMMA AnswerType ==
  ASSUME CameraTyped, NEW on \in BOOLEAN, NEW takes \in SUBSET Takes,
         NEW kind \in {"entryReply", "status", "chunk"}, Answer(kind, on, takes)
  PROVE  air' \in Seq(Frame)
<1>1. [kind |-> kind, on |-> on, takes |-> takes] \in Frame
  BY DEF Frame
<1> QED
  BY <1>1 DEF Answer, CameraTyped

(* Whatever is sent, and whether or not it is heard.                       *)
LEMMA SendsType ==
  ASSUME CameraTyped, NEW order, Sends(order)
  PROVE  CameraTyped'
<1>1. camera.card \in SUBSET Takes /\ camera.playback \in BOOLEAN
  BY DEF CameraTyped
<1>2. CASE Lost
  BY <1>2 DEF Lost, CameraTyped
<1>3. CASE order.do = "enter" /\ ~Lost
  <2>1. PICK accepts \in BOOLEAN :
          /\ camera' = [camera EXCEPT !.playback = @ \/ accepts]
          /\ Answer("entryReply", accepts, {})
    BY <1>3 DEF Sends
  <2>2. air' \in Seq(Frame)
    BY <2>1, AnswerType
  <2>3. (camera.playback \/ accepts) \in BOOLEAN
    OBVIOUS
  <2> QED
    BY <2>1, <2>2, <2>3 DEF CameraTyped
<1>4. CASE order.do = "special" /\ ~Lost
  BY <1>4 DEF Sends, CameraTyped
<1>5. CASE order.do = "exit" /\ ~Lost
  <2>1. PICK accepts \in BOOLEAN :
          /\ camera' = [camera EXCEPT !.playback = @ /\ ~accepts]
          /\ Answer("entryReply", accepts, {})
    BY <1>5 DEF Sends
  <2>2. air' \in Seq(Frame)
    BY <2>1, AnswerType
  <2>3. (camera.playback /\ ~accepts) \in BOOLEAN
    OBVIOUS
  <2> QED
    BY <2>1, <2>2, <2>3 DEF CameraTyped
<1>6. CASE order.do = "list" /\ ~Lost
  <2>1. Answer("chunk", TRUE, Page(order.about)) /\ camera' = camera
    BY <1>6 DEF Sends
  <2>2. Page(order.about) \in SUBSET Takes
    BY <1>1 DEF Page
  <2>3. air' \in Seq(Frame)
    BY <2>1, <2>2, AnswerType
  <2> QED
    BY <2>1, <2>3 DEF CameraTyped
<1> QED
  BY <1>2, <1>3, <1>4, <1>5, <1>6 DEF Sends

LEMMA DeletesType ==
  ASSUME CameraTyped, NEW takes, Deletes(takes)
  PROVE  CameraTyped'
BY DEF CameraTyped, Deletes

-----------------------------------------------------------------------------
(***************************************************************************)
(* Types.                                                                  *)
(***************************************************************************)
Typed == TypeOK /\ Sound(browse) /\ (resume.on => resume.attempt <= Rounds)

LEMMA InitTyped == Init => Typed
<1> SUFFICES ASSUME Init PROVE Typed
  OBVIOUS
<1>1. NoTake \in Some /\ {} \in SUBSET Takes /\ 0 \in 0 .. Rounds + 1 /\ 0 \in 0 .. MaxClicks
  BY Constants DEF Some
<1>2. Sound(browse)
  BY StartSound DEF Init
<1>3. jobs \in Seq(Job) /\ air \in Seq(Frame)
  BY DEF Init
<1>4. browse \in Listing
  BY <1>2 DEF Sound
<1> QED
  BY <1>1, <1>2, <1>3, <1>4, Constants DEF Init, Typed, TypeOK

(* The operator's actions. *)
LEMMA OperatorTyped ==
  ASSUME Typed,
         \/ OpenLibrary \/ Refresh \/ CloseLibrary \/ ClosePlayer \/ SelectMode
         \/ Open \/ Download \/ DeleteTapped \/ DeleteChecked
         \/ \E t \in Takes : Tap(t)
  PROVE  Typed'
<1>0. /\ TypeOK /\ Sound(browse) /\ (resume.on => resume.attempt <= Rounds)
      /\ CameraTyped
      /\ lib.files \in SUBSET Takes /\ lib.checked \in SUBSET Takes
      /\ lib.selected \in Some /\ lib.player \in Some
      /\ NoTake \in Some /\ 0 \in 0 .. Rounds + 1 /\ {} \in SUBSET Takes
  BY Constants DEF Typed, TypeOK, CameraTyped, Some
<1>c. clicks' \in 0 .. MaxClicks
  <2>1. Click
    BY DEF OpenLibrary, Refresh, CloseLibrary, ClosePlayer, SelectMode, Open, Download,
       DeleteTapped, DeleteChecked, Tap
  <2>2. clicks \in 0 .. MaxClicks
    BY <1>0 DEF TypeOK
  <2> QED
    BY <2>1, <2>2, Constants DEF Click
<1>d. StopPlayer \in [inPlayback : BOOLEAN, fresh : BOOLEAN, play : Some, photo : Some,
                      reader : Some]
  BY <1>0 DEF TypeOK, StopPlayer
<1>1. CASE OpenLibrary
  <2>1. PICK index \in {{}, camera.card} :
          lib' = [lib EXCEPT !.player = NoTake, !.listing = TRUE,
                             !.files = IF @ = {} THEN index ELSE @]
    BY <1>1 DEF OpenLibrary
  <2>2. index \in SUBSET Takes
    BY <1>0 DEF CameraTyped
  <2>3. lib' \in [files : SUBSET Takes, listing : BOOLEAN, selected : Some, armed : Some,
                  player : Some,
                  selecting : BOOLEAN, checked : SUBSET Takes, batchArmed : BOOLEAN]
    BY <1>0, <2>1, <2>2 DEF TypeOK
  <2> QED
    BY <1>0, <1>c, <1>1, <2>3, StartSound DEF OpenLibrary, Typed, TypeOK, Sound
<1>2. CASE Refresh
  BY <1>0, <1>c, <1>2, StartSound DEF Refresh, Typed, TypeOK, Sound
<1>3. CASE CloseLibrary
  <2>1. /\ lib' = [lib EXCEPT !.player = NoTake, !.armed = NoTake]
        /\ driver' = [StopPlayer EXCEPT !.fresh = FALSE]
        /\ resume' = [on |-> TRUE, attempt |-> 0, acked |-> FALSE]
        /\ screen' = "viewfinder" /\ browse' = NoBrowse /\ asked' = {}
        /\ pictured' = FALSE
        /\ UNCHANGED <<jobs, camera, air, tapped>>
    BY <1>3 DEF CloseLibrary
  <2>2. driver' \in [inPlayback : BOOLEAN, fresh : BOOLEAN, play : Some, photo : Some,
                     reader : Some]
    BY <1>d, <2>1
  <2>3. /\ resume' \in [on : BOOLEAN, attempt : 0 .. Rounds + 1, acked : BOOLEAN]
        /\ resume'.attempt <= Rounds
    BY <1>0, <2>1, Constants
  <2>4. Sound(browse') /\ browse' \in Listing
    BY <2>1, StartSound DEF Sound
  <2> QED
    BY <1>0, <1>c, <2>1, <2>2, <2>3, <2>4 DEF Typed, TypeOK
<1>4. CASE ClosePlayer
  BY <1>0, <1>c, <1>d, <1>4 DEF ClosePlayer, Typed, TypeOK, Sound
<1>5. CASE SelectMode
  BY <1>0, <1>c, <1>5 DEF SelectMode, Typed, TypeOK, Sound
<1>6. CASE Open
  <2> DEFINE t == lib.selected
             job == [what |-> IF t \in Videos THEN "play" ELSE "photo", take |-> t]
  <2>1. t \in Takes /\ t \in Some
    BY <1>0, <1>6 DEF Open
  <2>2. job \in Job
    BY <2>1 DEF Job
  <2>3. jobs' \in Seq(Job)
    BY <1>0, <1>6, <2>2 DEF Open, TypeOK
  <2>4. asked' \in SUBSET Takes
    BY <1>0, <1>6, <2>1 DEF Open, TypeOK
  <2> QED
    BY <1>0, <1>c, <1>6, <2>1, <2>3, <2>4 DEF Open, Typed, TypeOK, Sound
<1>7. CASE Download
  <2>1. PICK t \in Takes : jobs' = Append(jobs, [what |-> "original", take |-> t])
    BY <1>0, <1>7 DEF Download
  <2>2. [what |-> "original", take |-> t] \in Job
    BY DEF Job
  <2>3. jobs' \in Seq(Job)
    BY <1>0, <2>1, <2>2 DEF TypeOK
  <2> QED
    BY <1>0, <1>c, <1>7, <2>3 DEF Download, Typed, TypeOK, Sound
<1>8. CASE DeleteTapped
  <2> DEFINE t == IF screen = "library" THEN lib.selected ELSE lib.player
             goes == Armed(t) /\ t \in lib.files
             leaves == goes /\ screen # "library"
  <2>1. t \in Some
    BY <1>0
  <2>2. CameraTyped'
    BY <1>0, <1>8, DeletesType DEF DeleteTapped
  <2>3. lib' = IF goes
               THEN [lib EXCEPT !.armed = NoTake, !.files = @ \ {t}, !.selected = NoTake,
                                !.player = IF leaves THEN NoTake ELSE @]
               ELSE [lib EXCEPT !.armed = IF Armed(t) THEN NoTake ELSE t,
                                !.selected = t]
    BY <1>8 DEF DeleteTapped
  <2>4. lib' \in [files : SUBSET Takes, listing : BOOLEAN, selected : Some, armed : Some,
                  player : Some,
                  selecting : BOOLEAN, checked : SUBSET Takes, batchArmed : BOOLEAN]
    BY <1>0, <2>1, <2>3 DEF TypeOK
  <2>5. /\ tapped' = [tapped EXCEPT !.one = t]
        /\ screen' = IF leaves THEN "library" ELSE screen
        /\ driver' = IF leaves THEN StopPlayer ELSE driver
        /\ asked' = IF leaves THEN {} ELSE asked
        /\ UNCHANGED <<browse, resume, jobs, pictured>>
    BY <1>8 DEF DeleteTapped
  <2>6. /\ tapped' \in [one : Some, batch : SUBSET Takes]
        /\ screen' \in {"viewfinder", "library", "player", "photo"}
        /\ asked' \in SUBSET Takes
    BY <1>0, <2>1, <2>5 DEF TypeOK
  <2> QED
    BY <1>0, <1>c, <1>d, <2>2, <2>4, <2>5, <2>6 DEF Typed, TypeOK, Sound, CameraTyped
<1>9. CASE DeleteChecked
  <2>1. CameraTyped'
    BY <1>0, <1>9, DeletesType DEF DeleteChecked, Lost, CameraTyped
  <2>2. lib' \in [files : SUBSET Takes, listing : BOOLEAN, selected : Some, armed : Some,
                  player : Some,
                  selecting : BOOLEAN, checked : SUBSET Takes, batchArmed : BOOLEAN]
    <3> DEFINE gone == lib.checked \cap lib.files
    <3>1. CASE ~lib.batchArmed
      <4>1. lib' = [lib EXCEPT !.batchArmed = TRUE]
        BY <1>9, <3>1 DEF DeleteChecked
      <4> QED
        BY <1>0, <4>1 DEF TypeOK
    <3>2. CASE lib.batchArmed
      <4>1. lib' = [lib EXCEPT !.batchArmed = FALSE, !.checked = {}, !.selecting = FALSE,
                               !.files = @ \ gone,
                               !.selected = IF @ \in gone THEN NoTake ELSE @]
        BY <1>9, <3>2 DEF DeleteChecked
      <4>2. /\ lib.files \ gone \in SUBSET Takes
            /\ (IF lib.selected \in gone THEN NoTake ELSE lib.selected) \in Some
        BY <1>0
      <4> HIDE DEF gone
      <4> QED
        BY <1>0, <4>1, <4>2 DEF TypeOK
    <3> QED
      BY <3>1, <3>2
  <2>3. tapped' \in [one : Some, batch : SUBSET Takes]
    BY <1>0, <1>9 DEF DeleteChecked, TypeOK
  <2> QED
    BY <1>0, <1>c, <1>9, <2>1, <2>2, <2>3 DEF DeleteChecked, Typed, TypeOK, Sound, CameraTyped
<1>10. CASE \E t \in Takes : Tap(t)
  <2>1. PICK t \in Takes : Tap(t)
    BY <1>10
  <2>2. t \in Some /\ (lib.checked \ {t}) \cup ({t} \ lib.checked) \in SUBSET Takes
    BY <1>0 DEF Some
  <2>3. lib' \in [files : SUBSET Takes, listing : BOOLEAN, selected : Some, armed : Some,
                  player : Some,
                  selecting : BOOLEAN, checked : SUBSET Takes, batchArmed : BOOLEAN]
    BY <1>0, <2>1, <2>2 DEF Tap, TypeOK
  <2>4. tapped' \in [one : Some, batch : SUBSET Takes]
    BY <1>0, <2>1 DEF Tap, TypeOK
  <2> QED
    BY <1>0, <1>c, <2>1, <2>3, <2>4 DEF Tap, Typed, TypeOK, Sound
<1> QED
  BY <1>1, <1>2, <1>3, <1>4, <1>5, <1>6, <1>7, <1>8, <1>9, <1>10

(* The driver's, the window's and the camera's. *)
LEMMA DriverTyped ==
  ASSUME Typed,
         \/ \E due \in BOOLEAN : TickBrowse(due)
         \/ BrowseDone \/ TakeReport \/ TickResume \/ Present \/ TakeFrame
         \/ CameraReports \/ Lose
  PROVE  Typed'
<1>0. /\ TypeOK /\ Sound(browse) /\ (resume.on => resume.attempt <= Rounds)
      /\ CameraTyped /\ browse.chunks \in SUBSET Takes
      /\ lib.files \in SUBSET Takes /\ NoTake \in Some
  BY Constants DEF Typed, TypeOK, CameraTyped, Some, Listing
<1>1. CASE \E due \in BOOLEAN : TickBrowse(due)
  <2> PICK due \in BOOLEAN : TickBrowse(due)
    BY <1>1
  <2> DEFINE t == Tick(browse, due)
  <2>1. Sound(t.b)
    BY <1>0, TickSound
  <2>2. CameraTyped'
    <3>1. Lost \/ Sends(t.orders[1])
      BY DEF TickBrowse
    <3> QED
      BY <1>0, <3>1, SendsType DEF Lost, CameraTyped
  <2>3. Sound(browse') /\ browse' \in Listing
    <3>1. browse' \in {t.b, PageDecoded(t.b), NoBrowse}
      BY DEF TickBrowse
    <3> HIDE DEF t
    <3> QED
      BY <2>1, <3>1, PageDecodedSound, StartSound DEF Sound
  <2>4. lib' \in [files : SUBSET Takes, listing : BOOLEAN, selected : Some, armed : Some,
                  player : Some,
                  selecting : BOOLEAN, checked : SUBSET Takes, batchArmed : BOOLEAN]
    <3>1. \/ lib' = lib
          \/ lib' = [lib EXCEPT !.files = @ \cup browse.chunks, !.listing = TRUE]
          \/ lib' = [lib EXCEPT !.listing = FALSE]
      BY DEF TickBrowse
    <3>2. lib.files \cup browse.chunks \in SUBSET Takes
      BY <1>0
    <3> QED
      BY <1>0, <3>1, <3>2 DEF TypeOK
  <2>5. UNCHANGED <<screen, resume, driver, jobs, asked, tapped, pictured, clicks>>
    BY DEF TickBrowse
  <2> QED
    BY <1>0, <2>2, <2>3, <2>4, <2>5 DEF Typed, TypeOK, CameraTyped
<1>2. CASE BrowseDone
  BY <1>0, <1>2, StartSound DEF BrowseDone, Typed, TypeOK, Sound
<1>3. CASE TakeReport
  <2>1. jobs # << >> /\ jobs \in Seq(Job) /\ jobs' = Tail(jobs)
    BY <1>0, <1>3 DEF TakeReport, TypeOK
  <2>2. jobs' \in Seq(Job) /\ Head(jobs) \in Job
    BY <2>1
  <2>3. Head(jobs).take \in Some
    BY <2>2 DEF Job, Some
  <2>4. driver' \in [inPlayback : BOOLEAN, fresh : BOOLEAN, play : Some, photo : Some,
                     reader : Some]
    <3>1. driver \in [inPlayback : BOOLEAN, fresh : BOOLEAN, play : Some, photo : Some,
                      reader : Some]
      BY <1>0 DEF TypeOK
    <3>2. NoTake \in Some
      BY DEF Some
    <3>3. \/ driver' = [driver EXCEPT !.play = NoTake]
          \/ driver' = [driver EXCEPT !.play = NoTake, !.reader = Head(jobs).take]
          \/ driver' = [driver EXCEPT !.photo = NoTake]
          \/ FetchFailed(Head(jobs).take)
      BY <1>3 DEF TakeReport
    <3>4. CASE FetchFailed(Head(jobs).take)
      BY <3>1, <3>2, <3>4 DEF FetchFailed
    <3> QED
      BY <2>3, <3>1, <3>2, <3>3, <3>4
  <2>5. /\ screen' \in {"viewfinder", "library", "player", "photo"}
        /\ lib' \in [files : SUBSET Takes, listing : BOOLEAN, selected : Some, armed : Some,
                     player : Some,
                     selecting : BOOLEAN, checked : SUBSET Takes, batchArmed : BOOLEAN]
    <3>1. \/ screen' = screen /\ lib' = lib
          \/ /\ screen' \in {"player", "photo"}
             /\ lib' = [lib EXCEPT !.armed = NoTake, !.player = Head(jobs).take]
      BY <1>3 DEF TakeReport, Show
    <3> QED
      BY <1>0, <2>3, <3>1 DEF TypeOK
  <2> QED
    BY <1>0, <1>3, <2>2, <2>4, <2>5 DEF TakeReport, Typed, TypeOK, Sound
<1>4. CASE TickResume
  <2>1. CameraTyped'
    BY <1>0, <1>4, SendsType DEF TickResume, Lost, CameraTyped
  <2>2. /\ resume' \in [on : BOOLEAN, attempt : 0 .. Rounds + 1, acked : BOOLEAN]
        /\ resume'.on => resume'.attempt <= Rounds
    <3>1. resume.on /\ resume.attempt \in 0 .. Rounds + 1 /\ resume.attempt <= Rounds
          /\ resume \in [on : BOOLEAN, attempt : 0 .. Rounds + 1, acked : BOOLEAN]
      BY <1>0, <1>4 DEF TickResume, TypeOK
    <3>2. \/ resume' = [resume EXCEPT !.on = FALSE]
          \/ resume' = [resume EXCEPT !.attempt = @ + 1, !.on = resume.attempt < Rounds]
      BY <1>4 DEF TickResume
    <3>3. resume.attempt + 1 \in 0 .. Rounds + 1 /\ (resume.attempt < Rounds) \in BOOLEAN
      BY <3>1, Constants
    <3>4. CASE resume' = [resume EXCEPT !.on = FALSE]
      BY <3>1, <3>4
    <3>5. CASE resume' = [resume EXCEPT !.attempt = @ + 1, !.on = resume.attempt < Rounds]
      <4>1. resume' \in [on : BOOLEAN, attempt : 0 .. Rounds + 1, acked : BOOLEAN]
        BY <3>1, <3>3, <3>5
      <4>2. resume'.on => resume.attempt < Rounds
        BY <3>1, <3>5
      <4>3. resume'.attempt = resume.attempt + 1
        BY <3>1, <3>5
      <4> QED
        BY <3>1, <4>1, <4>2, <4>3, Constants
    <3> QED
      BY <3>2, <3>4, <3>5
  <2> QED
    BY <1>0, <1>4, <2>1, <2>2 DEF TickResume, Typed, TypeOK, CameraTyped, Sound
<1>5. CASE Present
  <2>1. (driver.fresh \/ screen # "viewfinder") \in BOOLEAN
    BY <1>0 DEF TypeOK
  <2>2. driver' \in [inPlayback : BOOLEAN, fresh : BOOLEAN, play : Some, photo : Some,
                     reader : Some]
    BY <1>0, <1>5, <2>1 DEF Present, TypeOK
  <2> QED
    BY <1>0, <1>5, <2>2 DEF Present, Typed, TypeOK, Sound
<1>6. CASE TakeFrame
  <2> DEFINE f == Head(air)
  <2>1. air # << >> /\ air \in Seq(Frame) /\ air' = Tail(air)
    BY <1>0, <1>6 DEF TakeFrame, TypeOK
  <2>2. air' \in Seq(Frame) /\ f \in Frame
    BY <2>1
  <2>3. f.on \in BOOLEAN /\ f.takes \in SUBSET Takes /\ (~f.on) \in BOOLEAN
    BY <2>2 DEF Frame
  <2>4. Sound(browse') /\ browse' \in Listing
    <3>1. browse' \in {browse, Playback(browse, f.on), EntryReply(browse, ~f.on),
                       Chunk(browse, f.takes)}
      BY <1>6 DEF TakeFrame
    <3>2. Sound(browse')
      BY <1>0, <2>3, <3>1, EventSound
    <3> QED
      BY <3>2 DEF Sound
  <2>5. /\ driver' \in [inPlayback : BOOLEAN, fresh : BOOLEAN, play : Some, photo : Some,
                        reader : Some]
        /\ resume' \in [on : BOOLEAN, attempt : 0 .. Rounds + 1, acked : BOOLEAN]
        /\ resume'.on => resume'.attempt <= Rounds
    <3>1. (resume.acked \/ resume.on) \in BOOLEAN
      BY <1>0 DEF TypeOK
    <3>2. driver' = driver \/ driver' = [driver EXCEPT !.inPlayback = f.on]
      BY <1>6 DEF TakeFrame
    <3>3. resume' = resume \/ resume' = [resume EXCEPT !.acked = @ \/ resume.on]
      BY <1>6 DEF TakeFrame
    <3> QED
      BY <1>0, <2>3, <3>1, <3>2, <3>3 DEF TypeOK
  <2> QED
    BY <1>0, <1>6, <2>2, <2>4, <2>5 DEF TakeFrame, Typed, TypeOK
<1>7. CASE CameraReports
  <2>1. air' \in Seq(Frame)
    BY <1>0, <1>7, AnswerType DEF CameraReports, CameraTyped
  <2> QED
    BY <1>0, <1>7, <2>1 DEF CameraReports, Typed, TypeOK, Sound
<1>8. CASE Lose
  <2>1. air # << >> /\ air \in Seq(Frame) /\ air' = Tail(air)
    BY <1>0, <1>8 DEF Lose, TypeOK
  <2>2. air' \in Seq(Frame)
    BY <2>1
  <2> QED
    BY <1>0, <1>8, <2>2 DEF Lose, Typed, TypeOK, Sound
<1> QED
  BY <1>1, <1>2, <1>3, <1>4, <1>5, <1>6, <1>7, <1>8

LEMMA TypedNext == Typed /\ [Next]_vars => Typed'
<1>1. ASSUME Typed, Next PROVE Typed'
  BY <1>1, OperatorTyped, DriverTyped DEF Next
<1>2. ASSUME Typed, UNCHANGED vars PROVE Typed'
  BY <1>2 DEF Typed, TypeOK, Sound, vars
<1> QED
  BY <1>1, <1>2

LEMMA AlwaysTyped == Spec => []Typed
BY InitTyped, TypedNext, PTL DEF Spec

(* Every state of the library is typed: a listing never asks for entry more *)
(* often than EnterAttempts, nor a page for a fourth frame, and a resume    *)
(* stops after its last round.                                              *)
THEOREM LibraryTypeCorrect == Spec => []TypeOK
<1>1. Typed => TypeOK
  BY DEF Typed
<1> QED
  BY <1>1, AlwaysTyped, PTL

-----------------------------------------------------------------------------
(***************************************************************************)
(* What is shown and what still runs.                                      *)
(***************************************************************************)
(* What could still open was asked for.                                     *)
Rest ==
  /\ OffScreenIsIdle
  /\ driver.play \in asked \cup {NoTake}
  /\ driver.photo \in asked \cup {NoTake}

LEMMA InitRest == Init => Rest
BY DEF Init, Rest, OffScreenIsIdle, NoBrowse

LEMMA OperatorRests ==
  ASSUME Typed, Rest,
         \/ OpenLibrary \/ Refresh \/ CloseLibrary \/ ClosePlayer \/ SelectMode
         \/ Open \/ Download \/ DeleteTapped \/ DeleteChecked
         \/ \E t \in Takes : Tap(t)
  PROVE  Rest'
<1>0. TypeOK
  BY DEF Typed
<1>d. /\ StopPlayer.play = NoTake /\ StopPlayer.photo = NoTake
      /\ StopPlayer.reader = NoTake
      /\ [StopPlayer EXCEPT !.fresh = FALSE].play = NoTake
      /\ [StopPlayer EXCEPT !.fresh = FALSE].photo = NoTake
      /\ [StopPlayer EXCEPT !.fresh = FALSE].reader = NoTake
  BY <1>0 DEF TypeOK, StopPlayer
<1>1. CASE OpenLibrary
  BY <1>0, <1>1 DEF OpenLibrary, TypeOK, Rest, OffScreenIsIdle
<1>2. CASE Refresh
  BY <1>2 DEF Refresh, Rest, OffScreenIsIdle
<1>3. CASE CloseLibrary
  BY <1>3, <1>d, StartSound DEF CloseLibrary, Rest, OffScreenIsIdle
<1>4. CASE ClosePlayer
  BY <1>4, <1>d DEF ClosePlayer, Rest, OffScreenIsIdle
<1>5. CASE SelectMode
  BY <1>5 DEF SelectMode, Rest, OffScreenIsIdle
<1>6. CASE Open
  BY <1>0, <1>6 DEF Open, TypeOK, Rest, OffScreenIsIdle
<1>7. CASE Download
  BY <1>7 DEF Download, Rest, OffScreenIsIdle
<1>8. CASE DeleteTapped
  <2>1. \/ UNCHANGED <<screen, driver, asked, browse, resume>>
        \/ /\ screen' = "library" /\ driver' = StopPlayer /\ asked' = {}
           /\ UNCHANGED <<browse, resume>> /\ screen # "viewfinder"
    BY <1>8 DEF DeleteTapped
  <2> QED
    BY <1>d, <2>1 DEF Rest, OffScreenIsIdle
<1>9. CASE DeleteChecked
  BY <1>9 DEF DeleteChecked, Rest, OffScreenIsIdle
<1>10. CASE \E t \in Takes : Tap(t)
  BY <1>10 DEF Tap, Rest, OffScreenIsIdle
<1> QED
  BY <1>1, <1>2, <1>3, <1>4, <1>5, <1>6, <1>7, <1>8, <1>9, <1>10

LEMMA DriverRests ==
  ASSUME Typed, Rest,
         \/ \E due \in BOOLEAN : TickBrowse(due)
         \/ BrowseDone \/ TakeReport \/ TickResume \/ Present \/ TakeFrame
         \/ CameraReports \/ Lose
  PROVE  Rest'
<1>0. TypeOK /\ Sound(browse)
  BY DEF Typed
<1>1. CASE \E due \in BOOLEAN : TickBrowse(due)
  BY <1>1 DEF TickBrowse, Rest, OffScreenIsIdle
<1>2. CASE BrowseDone
  BY <1>2 DEF BrowseDone, Rest, OffScreenIsIdle
<1>3. CASE TakeReport
  <2>1. Head(jobs) \in Job
    BY <1>0, <1>3 DEF TakeReport, TypeOK
  <2>2. Head(jobs).take # NoTake
    BY <2>1, Constants DEF Job
  <2>3. UNCHANGED <<browse, resume, asked>>
    BY <1>0, <1>3 DEF TakeReport, TypeOK, FetchFailed
  <2>4. driver'.play \in {driver.play, NoTake} /\ driver'.photo \in {driver.photo, NoTake}
    BY <1>0, <1>3 DEF TakeReport, TypeOK, FetchFailed
  <2>5. \/ screen' = screen /\ driver'.reader = driver.reader
        \/ /\ screen' \in {"player", "photo"}
           /\ driver.play # NoTake \/ driver.photo # NoTake
    BY <1>0, <1>3, <2>2 DEF TakeReport, Show, TypeOK, FetchFailed
  <2> QED
    BY <2>3, <2>4, <2>5 DEF Rest, OffScreenIsIdle
<1>4. CASE TickResume
  BY <1>0, <1>4 DEF TickResume, TypeOK, Rest, OffScreenIsIdle
<1>5. CASE Present
  <2>1. /\ driver'.play = driver.play /\ driver'.photo = driver.photo
        /\ driver'.reader = driver.reader
    BY <1>0, <1>5 DEF Present, TypeOK
  <2>2. UNCHANGED <<screen, browse, resume, asked>>
    BY <1>5 DEF Present
  <2> QED
    BY <2>1, <2>2 DEF Rest, OffScreenIsIdle
<1>6. CASE TakeFrame
  <2>1. Head(air) \in Frame
    BY <1>0, <1>6 DEF TakeFrame, TypeOK
  <2>2. browse.phase = "off" => browse'.phase = "off"
    <3>1. browse.phase = "off" => browse' \in {browse, Chunk(browse, Head(air).takes)}
      BY <1>6 DEF TakeFrame
    <3> QED
      BY <1>0, <2>1, <3>1, EventSound DEF Frame
  <2>3. /\ driver'.play = driver.play /\ driver'.photo = driver.photo
        /\ driver'.reader = driver.reader
        /\ resume'.on = resume.on
    BY <1>0, <1>6 DEF TakeFrame, TypeOK
  <2>4. UNCHANGED <<screen, asked>>
    BY <1>6 DEF TakeFrame
  <2> QED
    BY <2>2, <2>3, <2>4 DEF Rest, OffScreenIsIdle
<1>7. CASE CameraReports
  BY <1>7 DEF CameraReports, Rest, OffScreenIsIdle
<1>8. CASE Lose
  BY <1>8 DEF Lose, Rest, OffScreenIsIdle
<1> QED
  BY <1>1, <1>2, <1>3, <1>4, <1>5, <1>6, <1>7, <1>8

LEMMA RestNext == Typed /\ Rest /\ [Next]_vars => Rest'
<1>1. ASSUME Typed, Rest, Next PROVE Rest'
  BY <1>1, OperatorRests, DriverRests DEF Next
<1>2. ASSUME Rest, UNCHANGED vars PROVE Rest'
  BY <1>2 DEF Rest, OffScreenIsIdle, vars
<1> QED
  BY <1>1, <1>2

LEMMA AlwaysRests == Spec => []Rest
BY InitRest, RestNext, AlwaysTyped, PTL DEF Spec

(* Behind the viewfinder nothing of the library runs or could still open,   *)
(* and a resume runs only there.                                            *)
THEOREM LibraryRests == Spec => []OffScreenIsIdle
<1>1. Rest => OffScreenIsIdle
  BY DEF Rest
<1> QED
  BY <1>1, AlwaysRests, PTL

-----------------------------------------------------------------------------
(***************************************************************************)
(* What a step may do.                                                     *)
(***************************************************************************)
(* However late the fetching thread reports, only what was asked for since  *)
(* the library was entered opens.                                           *)
THEOREM OnlyWhatWasAsked == Spec => []OpensWhatWasAsked
<1> DEFINE Opens == screen' \in {"player", "photo"} /\ lib'.player # lib.player
                      => lib'.player \in asked
<1>1. ASSUME Typed, Rest, Next PROVE Opens
  <2>0. TypeOK
    BY <1>1 DEF Typed
  <2>1. CASE OpenLibrary \/ Refresh \/ CloseLibrary \/ ClosePlayer \/ SelectMode
             \/ Open \/ Download \/ DeleteChecked \/ \E t \in Takes : Tap(t)
    <3>1. screen' \in {"library", "viewfinder"} \/ lib' = lib
      BY <2>1 DEF OpenLibrary, Refresh, CloseLibrary, ClosePlayer, SelectMode, Open, Download,
         DeleteChecked, Tap
    <3> QED
      BY <3>1
  <2>2. CASE DeleteTapped
    <3>1. screen' = "library" \/ lib'.player = lib.player
      BY <2>0, <2>2 DEF DeleteTapped, TypeOK
    <3> QED
      BY <3>1
  <2>3. CASE \E due \in BOOLEAN : TickBrowse(due)
    BY <2>0, <2>3 DEF TickBrowse, TypeOK
  <2>4. CASE BrowseDone
    BY <2>0, <2>4 DEF BrowseDone, TypeOK
  <2>5. CASE TakeReport
    <3> DEFINE t == Head(jobs).take
    <3>1. t \in Takes
      <4>1. Head(jobs) \in Job
        BY <2>0, <2>5 DEF TakeReport, TypeOK
      <4> QED
        BY <4>1 DEF Job
    <3>2. \/ lib' = lib
          \/ /\ lib' = [lib EXCEPT !.armed = NoTake, !.player = t]
             /\ t \in {driver.play, driver.photo}
      BY <2>5 DEF TakeReport, Show
    <3>3. t \in {driver.play, driver.photo} => t \in asked
      BY <1>1, <3>1, Constants DEF Rest
    <3>4. lib'.player \in {lib.player, t}
      BY <2>0, <3>2 DEF TypeOK
    <3> QED
      BY <3>2, <3>3, <3>4
  <2>6. CASE TickResume \/ Present \/ TakeFrame \/ CameraReports \/ Lose
    BY <2>6 DEF TickResume, Present, TakeFrame, CameraReports, Lose
  <2> QED
    BY <1>1, <2>1, <2>2, <2>3, <2>4, <2>5, <2>6 DEF Next
<1>2. Typed /\ Rest /\ [Next]_vars => [Opens]_vars
  BY <1>1
<1> QED
  BY <1>2, AlwaysTyped, AlwaysRests, PTL DEF Spec, OpensWhatWasAsked

(* What DELETE is armed for is what it was last tapped on.                  *)
ArmedByTap ==
  /\ lib.armed \in {tapped.one, NoTake}
  /\ lib.batchArmed => lib.checked \subseteq tapped.batch

(* A delete that goes out follows a tap that armed it.                      *)
Deliberate ==
  \A t \in lib.files \ lib'.files :
    t \in {tapped.one} \cap {tapped'.one} \/ t \in tapped.batch \cap tapped'.batch

LEMMA DeletesNext ==
  ASSUME Typed, ArmedByTap, [Next]_vars
  PROVE  ArmedByTap' /\ Deliberate
<1>0. /\ TypeOK
      /\ lib.files \in SUBSET Takes /\ NoTake \notin lib.files
  BY Constants DEF Typed, TypeOK
<1>1. CASE OpenLibrary
  <2>1. PICK index \in {{}, camera.card} :
          lib' = [lib EXCEPT !.player = NoTake, !.listing = TRUE,
                             !.files = IF @ = {} THEN index ELSE @]
    BY <1>1 DEF OpenLibrary
  <2>2. /\ lib'.armed = lib.armed /\ lib'.batchArmed = lib.batchArmed
        /\ lib'.checked = lib.checked /\ lib.files \subseteq lib'.files
    BY <1>0, <2>1 DEF TypeOK
  <2> QED
    BY <1>1, <2>2 DEF OpenLibrary, ArmedByTap, Deliberate
<1>2. CASE Refresh \/ CloseLibrary \/ ClosePlayer
  <2>1. /\ lib'.armed \in {lib.armed, NoTake} /\ lib'.batchArmed = lib.batchArmed
        /\ lib'.checked = lib.checked /\ lib.files = lib'.files /\ tapped' = tapped
    BY <1>0, <1>2 DEF Refresh, CloseLibrary, ClosePlayer, TypeOK
  <2> QED
    BY <2>1 DEF ArmedByTap, Deliberate
<1>3. CASE SelectMode
  BY <1>0, <1>3 DEF SelectMode, TypeOK, ArmedByTap, Deliberate
<1>4. CASE Open \/ Download
  BY <1>4 DEF Open, Download, ArmedByTap, Deliberate
<1>5. CASE DeleteTapped
  <2> DEFINE t == IF screen = "library" THEN lib.selected ELSE lib.player
             goes == Armed(t) /\ t \in lib.files
             leaves == goes /\ screen # "library"
  <2>1. lib' = IF goes
               THEN [lib EXCEPT !.armed = NoTake, !.files = @ \ {t}, !.selected = NoTake,
                                !.player = IF leaves THEN NoTake ELSE @]
               ELSE [lib EXCEPT !.armed = IF Armed(t) THEN NoTake ELSE t,
                                !.selected = t]
    BY <1>5 DEF DeleteTapped
  <2>2. tapped' = [tapped EXCEPT !.one = t]
    BY <1>5 DEF DeleteTapped
  <2>3. tapped'.one = t /\ tapped'.batch = tapped.batch
    BY <1>0, <2>2 DEF TypeOK
  <2>4. lib'.batchArmed = lib.batchArmed /\ lib'.checked = lib.checked
        /\ lib'.armed \in {NoTake, t}
    BY <1>0, <2>1 DEF TypeOK
  <2>5. lib.files \ lib'.files = {} \/ (lib.files \ lib'.files = {t} /\ lib.armed = t
                                        /\ t \in lib.files)
    BY <1>0, <2>1 DEF TypeOK, Armed
  <2>6. ArmedByTap'
    BY <2>3, <2>4 DEF ArmedByTap
  <2> QED
    BY <1>0, <2>3, <2>5, <2>6 DEF ArmedByTap, Deliberate
<1>6. CASE DeleteChecked
  <2> DEFINE gone == lib.checked \cap lib.files
  <2>1. tapped'.one = tapped.one /\ tapped'.batch = lib.checked
    BY <1>0, <1>6 DEF DeleteChecked, TypeOK
  <2>2. CASE ~lib.batchArmed
    <3>1. lib' = [lib EXCEPT !.batchArmed = TRUE]
      BY <1>6, <2>2 DEF DeleteChecked
    <3>2. lib'.armed = lib.armed /\ lib'.files = lib.files /\ lib'.checked = lib.checked
      BY <1>0, <3>1 DEF TypeOK
    <3> QED
      BY <2>1, <3>2 DEF ArmedByTap, Deliberate
  <2>3. CASE lib.batchArmed
    <3>1. lib' = [lib EXCEPT !.batchArmed = FALSE, !.checked = {}, !.selecting = FALSE,
                             !.files = @ \ gone,
                             !.selected = IF @ \in gone THEN NoTake ELSE @]
      BY <1>6, <2>3 DEF DeleteChecked
    <3>2. lib'.armed = lib.armed /\ lib'.files = lib.files \ gone /\ ~lib'.batchArmed
      BY <1>0, <3>1 DEF TypeOK
    <3>3. gone \subseteq tapped.batch \cap tapped'.batch
      BY <2>1, <2>3 DEF ArmedByTap
    <3>4. lib.files \ lib'.files \subseteq gone
      BY <3>2
    <3>5. ArmedByTap'
      BY <2>1, <3>2 DEF ArmedByTap
    <3> QED
      BY <3>3, <3>4, <3>5 DEF Deliberate
  <2> QED
    BY <2>2, <2>3
<1>7. CASE \E t \in Takes : Tap(t)
  <2> PICK t \in Takes : Tap(t)
    BY <1>7
  <2>1. CASE lib.selecting
    <3>1. lib' = [lib EXCEPT !.checked = (@ \ {t}) \cup ({t} \ @), !.batchArmed = FALSE]
          /\ tapped' = [tapped EXCEPT !.batch = {}]
      BY <2>1 DEF Tap
    <3>2. lib'.armed = lib.armed /\ ~lib'.batchArmed /\ lib'.files = lib.files
          /\ tapped'.one = tapped.one
      BY <1>0, <3>1 DEF TypeOK
    <3> QED
      BY <3>2 DEF ArmedByTap, Deliberate
  <2>2. CASE ~lib.selecting
    <3>1. lib' = [lib EXCEPT !.selected = t, !.armed = NoTake]
          /\ tapped' = [tapped EXCEPT !.one = NoTake]
      BY <2>2 DEF Tap
    <3>2. lib'.armed = NoTake /\ lib'.batchArmed = lib.batchArmed /\ lib'.files = lib.files
          /\ lib'.checked = lib.checked /\ tapped'.batch = tapped.batch
      BY <1>0, <3>1 DEF TypeOK
    <3> QED
      BY <3>2 DEF ArmedByTap, Deliberate
  <2> QED
    BY <2>1, <2>2
<1>8. CASE (\E due \in BOOLEAN : TickBrowse(due)) \/ BrowseDone
  <2>1. \/ lib' = lib
        \/ lib' = [lib EXCEPT !.files = @ \cup browse.chunks, !.listing = TRUE]
        \/ lib' = [lib EXCEPT !.listing = FALSE]
    BY <1>8 DEF TickBrowse, BrowseDone
  <2>2. /\ lib'.armed = lib.armed /\ lib'.batchArmed = lib.batchArmed
        /\ lib'.checked = lib.checked /\ lib.files \subseteq lib'.files
    <3>1. lib \in [files : SUBSET Takes, listing : BOOLEAN, selected : Some, armed : Some,
                   player : Some,
                   selecting : BOOLEAN, checked : SUBSET Takes, batchArmed : BOOLEAN]
      BY <1>0 DEF TypeOK
    <3>2. CASE lib' = lib
      BY <3>2
    <3>3. CASE lib' = [lib EXCEPT !.files = @ \cup browse.chunks, !.listing = TRUE]
      BY <3>1, <3>3
    <3>4. CASE lib' = [lib EXCEPT !.listing = FALSE]
      BY <3>1, <3>4
    <3> QED
      BY <2>1, <3>2, <3>3, <3>4
  <2> QED
    BY <1>8, <2>2 DEF TickBrowse, BrowseDone, ArmedByTap, Deliberate
<1>9. CASE TakeReport
  <2>1. lib' = lib \/ lib' = [lib EXCEPT !.armed = NoTake, !.player = Head(jobs).take]
    BY <1>9 DEF TakeReport, Show
  <2>2. /\ lib'.armed \in {lib.armed, NoTake} /\ lib'.batchArmed = lib.batchArmed
        /\ lib'.checked = lib.checked /\ lib'.files = lib.files
    BY <1>0, <2>1 DEF TypeOK
  <2> QED
    BY <1>9, <2>2 DEF TakeReport, ArmedByTap, Deliberate
<1>10. CASE TickResume \/ Present \/ TakeFrame \/ CameraReports \/ Lose \/ UNCHANGED vars
  BY <1>10 DEF TickResume, Present, TakeFrame, CameraReports, Lose, vars, ArmedByTap, Deliberate
<1> QED
  BY <1>1, <1>2, <1>3, <1>4, <1>5, <1>6, <1>7, <1>8, <1>9, <1>10 DEF Next

(* Nothing is deleted on one tap, however listings, reports and taps on     *)
(* other takes fall in between.                                             *)
THEOREM DeletesAreDeliberate == Spec => []DeletesOnTheSecondTap
<1>1. Init => ArmedByTap
  BY DEF Init, ArmedByTap
<1>2. Typed /\ ArmedByTap /\ [Next]_vars => ArmedByTap'
  BY DeletesNext
<1>3. Typed /\ ArmedByTap /\ [Next]_vars => [Deliberate]_vars
  BY DeletesNext
<1>4. [Deliberate]_vars <=>
      [\A t \in lib.files \ lib'.files :
         t \in {tapped.one} \cap {tapped'.one} \/ t \in tapped.batch \cap tapped'.batch]_vars
  BY DEF Deliberate
<1> QED
  BY <1>1, <1>2, <1>3, <1>4, AlwaysTyped, PTL DEF Spec, DeletesOnTheSecondTap

=============================================================================
