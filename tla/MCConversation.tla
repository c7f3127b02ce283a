--------------------------- MODULE MCConversation ---------------------------
(***************************************************************************)
(* Small instances of Conversation for TLC, and the history pages of the   *)
(* threads they produce.                                                   *)
(***************************************************************************)
EXTENDS Conversation

CONSTANT MaxLimit   \* bound: page sizes that are tried

ASSUME LimitAssumption == MaxLimit \in Nat

History == INSTANCE HistoryPage

Limits == 1 .. MaxLimit

(* A page that is asked for with a cursor has the newest whole turns before *)
(* it, whichever runs failed between and whatever was summarised.           *)
CursorPagesAreWhole ==
    \A limit \in Limits, before \in Texts :
        History!Messages(cp.messages, limit, before) =
        History!NewestTurns(History!Older(cp.messages, before), limit)

(* Following next_cursor from any message shows everything before it and    *)
(* ends, although the pages overlap.                                        *)
CursorsReachTheStart ==
    \A limit \in Limits : \A i \in DOMAIN cp.messages :
        History!Shown(cp.messages, limit)[i] =
        {cp.messages[j] : j \in 1 .. i - 1}

(* An answer on a page that was asked for with a cursor has the images of    *)
(* its own turn, and no others.                                             *)
ImagesWithTheirAnswer ==
    \A limit \in Limits, before \in Texts :
        LET page == History!Messages(cp.messages, limit, before)
        IN \A i \in DOMAIN page : page[i].kind = "ai" =>
              History!Attached(page, i, images) =
              {r \in images : r.made = page[i].turn}

(* "None means from the newest end": without a cursor a page that begins   *)
(* with an answer is rounded at the oldest end instead.                     *)
FirstPageIsNewest ==
    \A limit \in Limits :
        History!Messages(cp.messages, limit, History!NoCursor) =
        History!NewestTurns(cp.messages, limit)
=============================================================================
