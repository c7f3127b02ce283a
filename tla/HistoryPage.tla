----------------------------- MODULE HistoryPage -----------------------------
(***************************************************************************)
(* The pages GET /threads/{id}/history cuts out of the messages of a       *)
(* thread, and how the images of a turn get to the answer of the turn.     *)
(*                                                                         *)
(* A message is its own id.  A cursor is a message, or NoCursor.           *)
(***************************************************************************)
EXTENDS Integers, Sequences, SequencesExt

NoCursor == [kind |-> "none"]

HumanAt(chat) == {i \in DOMAIN chat : chat[i].kind = "human"}
AtMost(set, i) == {j \in set : j <= i}

\* Where a message stands in the list; 0 if it does not.
Place(chat, message) == SelectInSeq(chat, LAMBDA m : m = message)

\* The messages before the cursor; none if it is not in the list.
Older(chat, before) ==
    IF before = NoCursor THEN chat
    ELSE SubSeq(chat, 1, Place(chat, before) - 1)

-----------------------------------------------------------------------------
\* Slip: the window is returned as it was cut.
RoundNever(older, first, size) == SubSeq(older, first, first + size - 1)

\* A page that would start with an answer is extended back to the question; if
\* there is no question before, it stays.
Round(older, first, size) ==
    LET opening == AtMost(HumanAt(older), first - 1)
        start   == IF opening = {} THEN first ELSE Max(opening)
    IN SubSeq(older, start, first + size - 1)

\* The last limit messages of what is older.  Without a cursor the index of the
\* window is taken to be 0, whatever it is.
Messages(chat, limit, before) ==
    LET older == Older(chat, before)
        size  == Min({limit, Len(older)})
        first == Len(older) - size + 1
    IN IF size = 0 \/ older[first].kind = "human" THEN SubSeq(older, first, Len(older))
       ELSE Round(older, IF before = NoCursor THEN 1 ELSE first, size)

\* Slip: the cursor names the first message the page left out.
NextCursorSkips(chat, limit, before) ==
    LET older == Older(chat, before)
        page  == Messages(chat, limit, before)
        first == IF page = <<>> THEN 0 ELSE Place(older, page[1])
    IN IF first > 1 THEN older[first - 1] ELSE NoCursor

\* The newest message of the page, if there are older ones than the page has.
NextCursor(chat, limit, before) ==
    LET older == Older(chat, before)
        page  == Messages(chat, limit, before)
    IN IF page # <<>> /\ page[1] # older[1] THEN Last(page) ELSE NoCursor

\* images has the rows of the table.  Each answer in the page gets those of the
\* last question before it in the page.
Attached(page, i, images) ==
    LET asked == AtMost(HumanAt(page), i)
    IN IF page[i].kind = "human" \/ asked = {} THEN {}
       ELSE {r \in images : r.request = page[Max(asked)]}

-----------------------------------------------------------------------------
(* Reference definitions                                                   *)

\* The shortest end of older that has limit messages, or all there are, and
\* begins with a question.
NewestTurns(older, limit) ==
    LET starts == {i \in HumanAt(older) : Len(older) - i + 1 >= Min({limit, Len(older)})}
    IN IF older = <<>> THEN <<>> ELSE SubSeq(older, Max(starts), Len(older))

\* What a client has seen that begins before the i-th message and follows the
\* cursors it gets until there is none.
Shown(chat, limit) ==
    LET shown[i \in 0 .. Len(chat)] ==
          IF i = 0 THEN {}
          ELSE LET next == NextCursor(chat, limit, chat[i])
               IN ToSet(Messages(chat, limit, chat[i]))
                  \cup shown[IF next = NoCursor THEN 0
                             ELSE Place(chat, next)]
    IN shown
=============================================================================
