------------------------------- MODULE Browse -------------------------------
(***************************************************************************)
(* The listing of a camera's library (opc-media browse.rs and the cursor   *)
(* of chunks.rs): enter playback, hold it, page the catalogue.  A pure     *)
(* machine, as in the code.  Its timers are one flag, due: whether the     *)
(* time the phase waits for has passed at this tick.                       *)
(*                                                                         *)
(* A take is its handle, a number that grows with every recording; "newest"*)
(* is the cursor of the first page.  The internal store is empty, so what  *)
(* is listed answers the third frame of a page.                            *)
(***************************************************************************)
EXTENDS Integers, FiniteSetsExt

CONSTANTS
  Takes,          \* handles the card may hold
  VideoBase,      \* VIDEO_HANDLE_BASE: a photo's handle lies below
  PageSize,       \* PAGE_SIZE, 45
  EnterAttempts   \* ENTER_ATTEMPTS, 3

ASSUME BrowseAssumption ==
  /\ Takes \subseteq Nat \ {0} /\ IsFiniteSet(Takes)
  /\ {VideoBase, PageSize, EnterAttempts} \subseteq Nat \ {0}

Newest == 0   \* the newest marker is no take's handle
Cursors == Takes \cup {Newest}

Phases == {"off", "entering", "special", "settling", "querying", "collecting",
           "decoding", "done"}

Listing == [phase    : Phases,
           entered  : BOOLEAN,               \* which is what the policy lists older pages by
           refused  : BOOLEAN,
           attempts : 0 .. EnterAttempts,
           cursor   : Cursors,
           step     : 0 .. 3,                \* page_step
           chunks   : SUBSET Takes]          \* what the assembler holds

NoBrowse == [phase |-> "off", entered |-> FALSE, refused |-> FALSE, attempts |-> 0,
             cursor |-> Newest, step |-> 0, chunks |-> {}]

Start == [NoBrowse EXCEPT !.phase = "entering"]

Order(what, cursor) == [do |-> what, about |-> cursor]

\* event, for the three things the driver passes on.
Playback(b, on) == IF on THEN [b EXCEPT !.entered = TRUE] ELSE b
EntryReply(b, refused) == IF refused THEN [b EXCEPT !.refused = TRUE] ELSE b
Chunk(b, takes) ==
  IF b.phase \in {"querying", "collecting"} THEN [b EXCEPT !.chunks = @ \cup takes] ELSE b

\* A tick leaves the machine and what is to be sent.
Then(b, orders) == [b |-> b, orders |-> orders]
Stay(b) == Then(b, << >>)

Query(b) ==
  Then([b EXCEPT !.step = @ + 1, !.phase = IF b.step = 2 THEN "collecting" ELSE "querying"],
       <<Order(IF b.step = 1 THEN "trigger" ELSE "list", b.cursor)>>)

\* begin_page; the first frame of a page is due at once, but goes out in a tick.
BeginPage(b) == [b EXCEPT !.phase = "querying", !.step = 0, !.chunks = {}]

TickSpecial(b, due) ==
  IF b.entered THEN Stay([b EXCEPT !.phase = "settling"])
  ELSE IF due THEN Query(BeginPage(b))
  ELSE Then(b, <<Order("special", Newest)>>)

EnterSpecial(b) == TickSpecial([b EXCEPT !.phase = "special"], FALSE)

\* Mutant: one attempt too many.
EnterOnceMore(b, due) ==
  IF b.entered THEN Stay([b EXCEPT !.phase = "settling"])
  ELSE IF b.refused THEN EnterSpecial(b)
  ELSE IF b.attempts > 0 /\ ~due THEN Stay(b)
  ELSE IF b.attempts > EnterAttempts THEN EnterSpecial(b)
  ELSE Then([b EXCEPT !.attempts = @ + 1], <<Order("enter", Newest)>>)

TickEntering(b, due) ==
  IF b.entered THEN Stay([b EXCEPT !.phase = "settling"])
  ELSE IF b.refused THEN EnterSpecial(b)
  ELSE IF b.attempts > 0 /\ ~due THEN Stay(b)
  ELSE IF b.attempts >= EnterAttempts THEN EnterSpecial(b)
  ELSE Then([b EXCEPT !.attempts = @ + 1], <<Order("enter", Newest)>>)

Tick(b, due) ==
  CASE b.phase = "entering" -> TickEntering(b, due)
    [] b.phase = "special" -> TickSpecial(b, due)
    [] b.phase = "settling" /\ due -> Query(BeginPage(b))
    [] b.phase = "querying" /\ (due \/ b.step = 0) -> Query(b)
    [] b.phase = "collecting" /\ due -> Stay([b EXCEPT !.phase = "decoding"])
    [] OTHER -> Stay(b)

\* next_cursor and has_older_page: the oldest video handle of the page, and after the
\* first page only one older than the cursor; Newest when there is none.
NextCursor(takes, cursor) ==
  LET older == {t \in takes : t >= VideoBase /\ (cursor = Newest \/ t < cursor)}
  IN IF older = {} THEN Newest ELSE Min(older)

\* Mutant: a full page is followed by another, older takes or not.
FullPageGoesOn(b) ==
  IF b.entered /\ Cardinality(b.chunks) >= PageSize
  THEN BeginPage([b EXCEPT !.cursor = NextCursor(b.chunks, b.cursor)])
  ELSE [b EXCEPT !.phase = "done"]

PageDecoded(b) ==
  LET next == NextCursor(b.chunks, b.cursor)
  IN IF b.entered /\ next # Newest /\ Cardinality(b.chunks) >= PageSize
     THEN BeginPage([b EXCEPT !.cursor = next])
     ELSE [b EXCEPT !.phase = "done"]

=============================================================================
