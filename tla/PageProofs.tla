------------------------------ MODULE PageProofs ------------------------------
(***************************************************************************)
(* Theorems about the history pages of the threads Conversation produces,  *)
(* for every setting of the summary, every page size, and every number of  *)
(* turns and faults.                                                       *)
(***************************************************************************)
EXTENDS SummaryProofs, MCConversation

-----------------------------------------------------------------------------
(* The operators the pages are cut with                                    *)

LEMMA LeastOfTwo ==
  ASSUME NEW a \in Int, NEW b \in Int
  PROVE  History!Min({a, b}) = IF a <= b THEN a ELSE b
  BY DEF History!Min

LEMMA GreatestIs ==
  ASSUME NEW T, T \subseteq Int, NEW x \in T, \A y \in T : y <= x
  PROVE  History!Max(T) = x
<1>1. History!Max(T) \in T /\ \A y \in T : History!Max(T) >= y
  <2>1. \E z \in T : \A y \in T : z >= y
    OBVIOUS
  <2> QED
    BY <2>1 DEF History!Max
<1>2. History!Max(T) \in Int /\ History!Max(T) >= x /\ History!Max(T) <= x
  BY <1>1
<1> QED
  BY <1>2

(* The place of a message that is on the list once. *)
LEMMA PlaceIs ==
  ASSUME NEW chat, Listed(chat), NEW k \in DOMAIN chat
  PROVE  History!Place(chat, chat[k]) = k
<1> DEFINE I == {i \in 1 .. Len(chat) : chat[i] = chat[k]}
<1>1. History!Place(chat, chat[k]) = IF I # {} THEN History!Min(I) ELSE 0
  BY DEF History!Place, History!SelectInSeq
<1>2. k \in 1 .. Len(chat) /\ DOMAIN chat = 1 .. Len(chat)
  BY DEF Listed
<1>3. I = {k}
  BY <1>2, ListedOnce
<1>4. History!Min({k}) = k
  BY <1>2 DEF History!Min
<1> QED
  BY <1>1, <1>3, <1>4

(* The list of a thread, and every beginning of it, starts with a question. *)
Opened(m) == Listed(m) /\ (m # <<>> => m[1].kind = "human")

(* A message is no cursor that stands for none. *)
LEMMA MessageIsCursor ==
  ASSUME NEW x \in Message
  PROVE  x # History!NoCursor
<1>1. x.kind # "none" /\ History!NoCursor.kind = "none"
  BY DEF Message, History!NoCursor
<1> QED
  BY <1>1

(* What is before a message is the beginning of the list up to it. *)
LEMMA OlderIs ==
  ASSUME NEW chat, Opened(chat), NEW k \in DOMAIN chat
  PROVE  LET older == History!Older(chat, chat[k])
         IN  /\ Opened(older) /\ Len(older) = k - 1 /\ DOMAIN older = 1 .. k - 1
             /\ \A i \in 1 .. k - 1 : older[i] = chat[i]
<1> DEFINE older == History!Older(chat, chat[k])
<1>1. /\ chat \in Seq(Message) /\ Len(chat) \in Nat /\ DOMAIN chat = 1 .. Len(chat)
      /\ k \in 1 .. Len(chat) /\ chat[k] \in Message /\ Listed(chat)
  BY ElementOfSeq DEF Opened, Listed
<1>2. older = SubSeq(chat, 1, k - 1)
  BY <1>1, PlaceIs, MessageIsCursor DEF History!Older
<1>3. /\ older \in Seq(Message) /\ Len(older) = k - 1
      /\ \A i \in 1 .. k - 1 : older[i] = chat[i]
  <2>1. \A i \in 1 .. k - 1 : chat[i] \in Message
    BY <1>1, ElementOfSeq
  <2>2. k - 1 \in Int /\ k - 1 - 1 + 1 = k - 1 /\ \A i \in 1 .. k - 1 : 1 + i - 1 = i
    BY <1>1
  <2>3. /\ SubSeq(chat, 1, k - 1) \in Seq(Message)
        /\ Len(SubSeq(chat, 1, k - 1)) = IF 1 <= k - 1 THEN k - 1 - 1 + 1 ELSE 0
        /\ \A i \in 1 .. k - 1 - 1 + 1 : SubSeq(chat, 1, k - 1)[i] = chat[1 + i - 1]
    BY <1>1, <2>1, <2>2, SubSeqProperties
  <2> HIDE DEF older
  <2> QED
    BY <1>1, <1>2, <2>2, <2>3
<1> HIDE DEF older
<1>4. DOMAIN older = 1 .. k - 1
  BY <1>3
<1>5. Listed(older)
  BY <1>1, <1>3, <1>4 DEF Listed
<1>6. older # <<>> => older[1].kind = "human"
  <2>1. older # <<>> => 1 \in 1 .. k - 1 /\ chat # <<>>
    BY <1>1, <1>3, EmptySeq
  <2> QED
    BY <1>3, <2>1 DEF Opened
<1> QED
  BY <1>3, <1>4, <1>5, <1>6 DEF Opened, older

-----------------------------------------------------------------------------
(* The page before a message                                               *)

(* The newest place a page of a list may start at: the window, or the       *)
(* question right before it.                                                *)
StartOf(older, limit) ==
    LET size  == IF limit <= Len(older) THEN limit ELSE Len(older)
        first == Len(older) - size + 1
    IN IF older[first].kind = "human" THEN first ELSE first - 1

(* An answer the window begins with has its question right before it, and   *)
(* the page is the same end of the list as the one with the fewest turns.   *)
LEMMA PageIs ==
  ASSUME NEW chat, NEW before, before # History!NoCursor,
         NEW limit \in Nat \ {0},
         Opened(History!Older(chat, before)), History!Older(chat, before) # <<>>
  PROVE  LET older == History!Older(chat, before)
             s     == StartOf(older, limit)
         IN  /\ s \in DOMAIN older /\ older[s].kind = "human"
             /\ History!Messages(chat, limit, before) = SubSeq(older, s, Len(older))
             /\ History!NewestTurns(older, limit) = SubSeq(older, s, Len(older))
<1> DEFINE older == History!Older(chat, before)
           s     == StartOf(older, limit)
           n     == Len(older)
           size  == IF limit <= n THEN limit ELSE n
           first == n - size + 1
           ends  == {i \in History!HumanAt(older) : n - i + 1 >= size}
           asked == History!AtMost(History!HumanAt(older), first - 1)
<1>1. /\ older \in Seq(Message) /\ n \in Nat /\ n > 0 /\ DOMAIN older = 1 .. n
      /\ Listed(older) /\ older[1].kind = "human" /\ older # <<>>
  BY EmptySeq DEF Opened, Listed
<1> HIDE DEF older
<1>2. size \in 1 .. n /\ size = History!Min({limit, n})
  BY <1>1, LeastOfTwo
<1>3. first \in 1 .. n /\ first + size - 1 = n
  BY <1>1, <1>2
<1>4. s = IF older[first].kind = "human" THEN first ELSE first - 1
  BY DEF StartOf
<1>5. \A i \in History!HumanAt(older) : i \in 1 .. n /\ older[i].kind = "human"
  BY <1>1 DEF History!HumanAt
<1> HIDE DEF first, size, s
<1>6. /\ s \in 1 .. n /\ older[s].kind = "human" /\ s <= first
      /\ \A i \in 1 .. n : i <= first /\ older[i].kind = "human" => i <= s
  <2>1. CASE older[first].kind = "human"
    BY <1>3, <1>4, <2>1
  <2>2. CASE older[first].kind # "human"
    <3>1. older[first] \in Message /\ older[first].kind = "ai"
      BY <1>1, <1>3, <2>2, ElementOfSeq, MessageKinds
    <3>2. first > 1 /\ older[first - 1] = Human(older[first].turn)
      BY <1>1, <1>3, <3>1 DEF Listed
    <3>3. older[first - 1].kind = "human"
      BY <3>2 DEF Human
    <3> QED
      BY <1>3, <1>4, <2>2, <3>2, <3>3
  <2> QED
    BY <2>1, <2>2
<1>7. History!NewestTurns(older, limit) = SubSeq(older, s, n)
  <2>1. \A i \in 1 .. n : n - i + 1 >= size <=> i <= first
    BY <1>1, <1>2, <1>3
  <2>2. s \in ends /\ ends \subseteq Int /\ \A i \in ends : i <= s
    BY <1>1, <1>5, <1>6, <2>1 DEF History!HumanAt
  <2>3. History!Max(ends) = s
    <3> HIDE DEF ends
    <3> QED
      BY <2>2, GreatestIs
  <2> QED
    BY <1>1, <1>2, <2>3 DEF History!NewestTurns
<1>8. History!Messages(chat, limit, before) = SubSeq(older, s, n)
  <2>1. CASE older[first].kind = "human"
    <3>1. s = first
      BY <1>4, <2>1 DEF first, size
    <3> QED
      BY <1>2, <2>1, <3>1 DEF History!Messages, first, older
  <2>2. CASE older[first].kind # "human"
    <3>1. s = first - 1
      BY <1>4, <2>2 DEF first, size
    <3>2. s \in asked /\ asked \subseteq Int /\ \A i \in asked : i <= s
      BY <1>1, <1>3, <1>5, <1>6, <3>1 DEF History!AtMost, History!HumanAt
    <3>3. History!Max(asked) = s
      <4> HIDE DEF asked
      <4> QED
        BY <3>2, GreatestIs
    <3>4. History!Round(older, first, size) = SubSeq(older, s, n)
      BY <1>3, <3>2, <3>3 DEF History!Round
    <3>5. size # 0
      BY <1>2
    <3> QED
      BY <1>2, <2>2, <3>4, <3>5 DEF History!Messages, first, older
  <2> QED
    BY <2>1, <2>2
<1> QED
  BY <1>1, <1>6, <1>7, <1>8 DEF older, s

(* Nothing is before the first message. *)
LEMMA EmptyPage ==
  ASSUME NEW chat, NEW before, NEW limit \in Nat \ {0},
         History!Older(chat, before) = <<>>
  PROVE  /\ History!Messages(chat, limit, before) = <<>>
         /\ History!NewestTurns(<<>>, limit) = <<>>
         /\ History!NextCursor(chat, limit, before) = History!NoCursor
<1>1. Len(<<>>) = 0
  BY EmptySeq
<1>2. History!Min({limit, 0}) = 0
  BY LeastOfTwo
<1>3. SubSeq(<<>>, 1, 0) = <<>>
  BY SubSeqEmpty
<1>4. History!Messages(chat, limit, before) = <<>>
  BY <1>1, <1>2, <1>3 DEF History!Messages
<1> QED
  BY <1>4 DEF History!NewestTurns, History!NextCursor

(* A page before a message of the list is empty, and nothing is before the  *)
(* message; or it is an end of what is, from a question on.                 *)
LEMMA CursorPage ==
  ASSUME NEW chat, Opened(chat), NEW k \in DOMAIN chat, NEW limit \in Nat \ {0}
  PROVE  LET page == History!Messages(chat, limit, chat[k])
         IN  /\ page = History!NewestTurns(History!Older(chat, chat[k]), limit)
             /\ \/ k = 1 /\ page = <<>>
                \/ \E s \in 1 .. k - 1 :
                      /\ page \in Seq(Message) /\ Len(page) = k - s
                      /\ \A i \in 1 .. k - s : page[i] = chat[s + i - 1]
                      /\ chat[s].kind = "human"
<1> DEFINE older == History!Older(chat, chat[k])
           s     == StartOf(older, limit)
           page  == History!Messages(chat, limit, chat[k])
<1>1. /\ Opened(older) /\ Len(older) = k - 1 /\ DOMAIN older = 1 .. k - 1
      /\ \A i \in 1 .. k - 1 : older[i] = chat[i]
  BY OlderIs
<1>2. /\ k \in 1 .. Len(chat) /\ Len(chat) \in Nat /\ chat[k] # History!NoCursor
      /\ older \in Seq(Message)
  BY <1>1, ElementOfSeq, MessageIsCursor DEF Opened, Listed
<1>3. CASE older = <<>>
  <2>1. k = 1
    BY <1>1, <1>2, <1>3, EmptySeq
  <2> QED
    BY <1>3, <2>1, EmptyPage
<1>4. CASE older # <<>>
  <2>1. /\ s \in 1 .. k - 1 /\ older[s].kind = "human"
        /\ page = SubSeq(older, s, k - 1)
        /\ page = History!NewestTurns(older, limit)
    <3>1. chat[k] # History!NoCursor /\ Opened(older) /\ older # <<>>
      BY <1>1, <1>2, <1>4
    <3>2. /\ s \in DOMAIN older /\ older[s].kind = "human"
          /\ page = SubSeq(older, s, Len(older))
          /\ History!NewestTurns(older, limit) = SubSeq(older, s, Len(older))
      BY <3>1, PageIs, Zenon
    <3> HIDE DEF older, s, page
    <3> QED
      BY <1>1, <3>2
  <2> HIDE DEF older, s, page
  <2>2. /\ \A i \in s .. k - 1 : older[i] \in Message
        /\ s \in Int /\ k - 1 \in Int /\ k - 1 - s + 1 = k - s /\ s <= k - 1
    BY <1>1, <1>2, <2>1, ElementOfSeq
  <2>3. /\ page \in Seq(Message) /\ Len(page) = k - s
        /\ \A i \in 1 .. k - 1 - s + 1 : page[i] = older[s + i - 1]
    BY <2>1, <2>2, SubSeqProperties
  <2>4. ASSUME NEW i \in 1 .. k - s PROVE page[i] = chat[s + i - 1]
    <3>1. s + i - 1 \in 1 .. k - 1 /\ i \in 1 .. k - 1 - s + 1
      BY <2>1, <2>2
    <3>2. page[i] = older[s + i - 1]
      BY <2>3, <3>1
    <3> QED
      BY <1>1, <3>1, <3>2
  <2>5. chat[s].kind = "human"
    BY <1>1, <2>1
  <2> QED
    BY <1>2, <2>1, <2>3, <2>4, <2>5 DEF older, page
<1> QED
  BY <1>3, <1>4

LEMMA ThreadOpened == ASSUME KeptInv PROVE Opened(cp.messages)
  BY DEF KeptInv, SummaryInv, MessagesOK, SummaryTakesWholeTurns, Opened

LEMMA KeptAlways == Spec => []KeptInv
<1>1. Init => KeptInv
  BY SummaryInit, FramesInit DEF Init, KeptInv, KeptOK, DoneMeansKept, Sent
<1>2. KeptInv /\ [Next]_vars => KeptInv'
  BY SummaryNext, FramesNext, KeptNext DEF KeptInv
<1> QED
  BY <1>1, <1>2, PTL DEF Spec

(* A page before a message has the newest whole turns before it, for every  *)
(* page size, whichever runs failed between and whatever was summarised.    *)
THEOREM PagesAreWhole == Spec => []CursorPagesAreWhole
<1>1. KeptInv => CursorPagesAreWhole
  <2> SUFFICES ASSUME KeptInv, NEW limit \in Limits, NEW before \in Texts
               PROVE  History!Messages(cp.messages, limit, before) =
                      History!NewestTurns(History!Older(cp.messages, before), limit)
    BY DEF CursorPagesAreWhole
  <2>1. PICK k \in DOMAIN cp.messages : before = cp.messages[k]
    BY DEF Texts
  <2>2. limit \in Nat \ {0}
    BY LimitAssumption DEF Limits
  <2> QED
    BY <2>1, <2>2, ThreadOpened, CursorPage
<1> QED
  BY <1>1, KeptAlways, PTL

-----------------------------------------------------------------------------
(* Images                                                                  *)

(* The question an image refers to is that of the turn that made it. *)
ImagesOK == \A r \in images : r.request = Human(r.made)

(* When an image is made the answer of its turn is on the list, and no      *)
(* question comes after it.                                                 *)
LEMMA LastHumanIsOwn ==
  ASSUME KeptInv, pc = "image"
  PROVE  LastHuman(cp.messages) = Human(turn)
<1> DEFINE m  == cp.messages
           at == {i \in DOMAIN m : m[i].kind = "human"}
<1>1. /\ Listed(m) /\ m \in Seq(Message) /\ DOMAIN m = 1 .. Len(m) /\ Len(m) \in Nat
      /\ turn \in Turns /\ turn \in Int
      /\ \A i \in DOMAIN m : m[i].turn <= turn
  BY ConversationAssumption DEF KeptInv, SummaryInv, MessagesOK, Listed, Texts, TitleInv,
                                WeakTypeOK, Turns
<1>2. PICK a \in DOMAIN m : m[a] = Ai(turn)
  BY DEF KeptInv, KeptOK, Texts
<1>3. m[a].kind = "ai" /\ m[a].turn = turn
  BY <1>2 DEF Ai
<1>4. a > 1 /\ m[a - 1] = Human(turn)
  BY <1>1, <1>3 DEF Listed
<1>5. m[a - 1].kind = "human"
  BY <1>4 DEF Human
<1>6. a - 1 \in at
  BY <1>1, <1>4, <1>5
<1>7. ASSUME NEW j \in at PROVE j <= a - 1
  <2>1. j # a
    BY <1>3
  <2>2. ~ (a < j)
    <3> SUFFICES ASSUME a < j PROVE FALSE
      OBVIOUS
    <3>1. Before(m[a], m[j]) /\ m[j].turn <= turn /\ m[j].kind = "human"
      BY <1>1 DEF Listed
    <3>2. m[j].turn \in Int
      BY <1>1, ElementOfSeq, MessageKinds, ConversationAssumption DEF Turns
    <3> QED
      BY <1>1, <1>3, <3>1, <3>2 DEF Before
  <2> QED
    BY <1>1, <2>1, <2>2
<1>8. \A i \in at : (\A j \in at : j <= i) => i = a - 1
  BY <1>1, <1>6, <1>7
<1>9. (CHOOSE i \in at : \A j \in at : j <= i) = a - 1
  <2> HIDE DEF at
  <2> QED
    BY <1>6, <1>7, <1>8
<1> QED
  BY <1>4, <1>9 DEF LastHuman

LEMMA ImagesNext ==
  ASSUME KeptInv, ImagesOK, [Next]_vars
  PROVE  ImagesOK'
<1>1. CASE ImageInsert
  <2>1. images' = images \cup {[request |-> Human(turn), prompt |-> cp.prompt, made |-> turn]}
    BY <1>1, LastHumanIsOwn DEF ImageInsert
  <2>2. ASSUME NEW r \in images' PROVE r.request = Human(r.made)
    BY <2>1 DEF ImagesOK
  <2> QED
    BY <2>2 DEF ImagesOK, Human
<1>2. CASE ~ImageInsert
  <2>1. UNCHANGED images
    <3>1. CASE (\E image \in BOOLEAN : StartRun(image)) \/ RetrievalFails \/ NodeFails
      BY <3>1 DEF StartRun, RetrievalFails, Retrieved, NodeFails, RunFails
    <3>2. CASE TitleStep
      BY <3>2 DEF TitleStep, TitleAttempt, TitleAsk, TitlePersist, TitleAnnounce
    <3>3. CASE MainStep
      BY <1>2, <3>3 DEF MainStep, Profile, EndSuperstep1, Summarize, Orchestrate,
            PrepareQuery, HybridSearch, Rerank, TrendScout, Retrieved, Token, Synthesize,
            Commit, ImageSkip, ImageFails, ImageReady, LimitReached, RunFails, EndRun
    <3>4. CASE UNCHANGED vars
      BY <3>4 DEF vars
    <3> QED
      BY <3>1, <3>2, <3>3, <3>4 DEF Next
  <2> QED
    BY <2>1 DEF ImagesOK
<1> QED
  BY <1>1, <1>2

(* An answer on a page asked for with a cursor, before whatever message,    *)
(* has the images of its own turn and no other.                             *)
THEOREM ImagesStayWithTurn == Spec => []ImagesWithTheirAnswer
<1>1. Init => ImagesOK
  BY DEF Init, ImagesOK
<1>2. KeptInv /\ ImagesOK => ImagesWithTheirAnswer
  <2> SUFFICES ASSUME KeptInv, ImagesOK, NEW limit \in Limits, NEW before \in Texts,
                      NEW page, page = History!Messages(cp.messages, limit, before),
                      NEW i \in DOMAIN page, page[i].kind = "ai"
               PROVE  History!Attached(page, i, images) =
                      {r \in images : r.made = page[i].turn}
    BY DEF ImagesWithTheirAnswer
  <2> DEFINE chat  == cp.messages
             asked == History!AtMost(History!HumanAt(page), i)
  <2>1. PICK k \in DOMAIN chat : before = chat[k]
    BY DEF Texts
  <2>2. limit \in Nat \ {0}
    BY LimitAssumption DEF Limits
  <2>3. Opened(chat) /\ Listed(chat) /\ k \in 1 .. Len(chat) /\ DOMAIN chat = 1 .. Len(chat) /\ Len(chat) \in Nat
    BY ThreadOpened DEF Opened, Listed
  <2> HIDE DEF chat
  <2>4. PICK s \in 1 .. k - 1 :
          /\ page \in Seq(Message) /\ Len(page) = k - s
          /\ \A j \in 1 .. k - s : page[j] = chat[s + j - 1]
          /\ chat[s].kind = "human"
    <3>1. page # <<>>
      BY EmptySeq
    <3>2. page = History!Messages(chat, limit, chat[k])
      BY <2>1 DEF chat
    <3>3. Opened(chat) /\ k \in DOMAIN chat
      BY <2>3
    <3>4. LET p == History!Messages(chat, limit, chat[k])
          IN  /\ p = History!NewestTurns(History!Older(chat, chat[k]), limit)
              /\ \/ k = 1 /\ p = <<>>
                 \/ \E s \in 1 .. k - 1 :
                       /\ p \in Seq(Message) /\ Len(p) = k - s
                       /\ \A j \in 1 .. k - s : p[j] = chat[s + j - 1]
                       /\ chat[s].kind = "human"
      BY <2>2, <3>3, CursorPage, Zenon
    <3> QED
      BY <3>1, <3>2, <3>4
  <2>5. /\ k \in Int /\ s \in Int /\ k - s \in Nat
        /\ DOMAIN page = 1 .. k - s /\ i \in 1 .. k - s
    BY <2>3, <2>4
  <2>6. page[i] = chat[s + i - 1] /\ s + i - 1 \in 1 .. Len(chat)
    BY <2>3, <2>4, <2>5
  <2>7. s + i - 1 > 1 /\ chat[s + i - 2] = Human(page[i].turn)
    <3>1. PICK p \in 1 .. Len(chat) : p = s + i - 1
      BY <2>6
    <3>2. p \in DOMAIN chat /\ chat[p].kind = "ai" /\ chat[p] = page[i]
      BY <2>3, <2>6, <3>1
    <3>3. p > 1 /\ chat[p - 1] = Human(chat[p].turn)
      BY <2>3, <3>2 DEF Listed
    <3>4. p - 1 = s + i - 2
      BY <2>5, <3>1
    <3> QED
      BY <3>1, <3>2, <3>3, <3>4
  <2>8. i > 1
    <3>1. chat[s + i - 1].kind = "ai"
      BY <2>6
    <3>2. i = 1 => s + i - 1 = s
      BY <2>5
    <3> QED
      BY <2>4, <2>5, <3>1, <3>2
  <2>9. i - 1 \in 1 .. k - s /\ page[i - 1] = Human(page[i].turn)
    <3>1. i - 1 \in 1 .. k - s /\ s + (i - 1) - 1 = s + i - 2
      BY <2>3, <2>4, <2>5, <2>8
    <3> QED
      BY <2>4, <2>7, <3>1
  <2>10. /\ i - 1 \in asked /\ asked \subseteq Int /\ \A j \in asked : j <= i - 1
         /\ page[i].kind # "human"
    <3>1. page[i - 1].kind = "human"
      BY <2>9 DEF Human
    <3> QED
      BY <2>5, <2>9, <3>1 DEF History!AtMost, History!HumanAt
  <2>11. History!Max(asked) = i - 1
    <3> HIDE DEF asked
    <3> QED
      BY <2>10, GreatestIs
  <2>12. History!Attached(page, i, images) = {r \in images : r.request = page[i - 1]}
    BY <2>10, <2>11 DEF History!Attached
  <2>13. ASSUME NEW r \in images
         PROVE  r.request = page[i - 1] <=> r.made = page[i].turn
    <3>1. r.request = Human(r.made)
      BY DEF ImagesOK
    <3> QED
      BY <2>9, <3>1 DEF Human
  <2> QED
    BY <2>12, <2>13
<1>3. KeptInv /\ ImagesOK /\ [Next]_vars => ImagesOK'
  BY ImagesNext
<1> QED
  BY <1>1, <1>2, <1>3, KeptAlways, PTL DEF Spec

-----------------------------------------------------------------------------
(* Following the cursors                                                   *)

\* Where the page before the i-th message leaves off; 0 if it is the last one.
NextPlace(chat, limit, i) ==
    LET next == History!NextCursor(chat, limit, chat[i])
    IN IF next = History!NoCursor THEN 0 ELSE History!Place(chat, next)

(* The cursor is behind the page it is asked with: the newest message of    *)
(* the page, which is shown again; or none, when the page reaches the       *)
(* start.                                                                   *)
LEMMA PageLeavesOff ==
  ASSUME NEW chat, Opened(chat), NEW k \in DOMAIN chat, NEW limit \in Nat \ {0}
  PROVE  /\ NextPlace(chat, limit, k) \in 0 .. k - 1
         /\ History!ToSet(History!Messages(chat, limit, chat[k]))
            \cup {chat[j] : j \in 1 .. NextPlace(chat, limit, k) - 1} =
            {chat[j] : j \in 1 .. k - 1}
<1> DEFINE page  == History!Messages(chat, limit, chat[k])
           older == History!Older(chat, chat[k])
           next  == History!NextCursor(chat, limit, chat[k])
           p     == NextPlace(chat, limit, k)
<1>1. /\ Listed(chat) /\ chat \in Seq(Message) /\ Len(chat) \in Nat
      /\ DOMAIN chat = 1 .. Len(chat) /\ k \in 1 .. Len(chat)
  BY DEF Opened, Listed
<1>2. /\ Len(older) = k - 1 /\ DOMAIN older = 1 .. k - 1
      /\ \A i \in 1 .. k - 1 : older[i] = chat[i]
  BY OlderIs
<1>3. /\ next = IF page # <<>> /\ page[1] # older[1] THEN History!Last(page)
                 ELSE History!NoCursor
      /\ p = IF next = History!NoCursor THEN 0 ELSE History!Place(chat, next)
  BY DEF History!NextCursor, NextPlace
<1>4. History!ToSet(page) = {page[i] : i \in DOMAIN page}
  BY DEF History!ToSet
<1>5. History!Last(page) = page[Len(page)]
  BY DEF History!Last
<1>6. \/ k = 1 /\ page = <<>>
      \/ \E s \in 1 .. k - 1 :
            /\ page \in Seq(Message) /\ Len(page) = k - s
            /\ \A i \in 1 .. k - s : page[i] = chat[s + i - 1]
            /\ chat[s].kind = "human"
  BY CursorPage
<1> HIDE DEF page, older, next, p
<1>7. CASE k = 1 /\ page = <<>>
  <2>1. p = 0 /\ History!ToSet(page) = {}
    BY <1>3, <1>4, <1>7, EmptySeq
  <2> QED
    BY <1>7, <2>1 DEF page, p
<1>8. CASE ~ (k = 1 /\ page = <<>>)
  <2>1. PICK s \in 1 .. k - 1 :
            /\ page \in Seq(Message) /\ Len(page) = k - s
            /\ \A i \in 1 .. k - s : page[i] = chat[s + i - 1]
            /\ chat[s].kind = "human"
    BY <1>6, <1>8
  <2>2. /\ s \in Int /\ k \in Int /\ k - s \in 1 .. k - 1 /\ DOMAIN page = 1 .. k - s
        /\ s + 1 - 1 = s /\ s + (k - s) - 1 = k - 1
    BY <1>1, <2>1
  <2>3. page[1] = chat[s] /\ page[k - s] = chat[k - 1] /\ older[1] = chat[1]
    <3>1. 1 \in 1 .. k - s /\ k - s \in 1 .. k - s /\ 1 \in 1 .. k - 1
      BY <2>2
    <3> QED
      BY <1>2, <2>1, <2>2, <3>1
  <2>4. History!ToSet(page) = {chat[j] : j \in s .. k - 1}
    <3>1. ASSUME NEW i \in 1 .. k - s PROVE page[i] \in {chat[j] : j \in s .. k - 1}
      <4>1. s + i - 1 \in s .. k - 1
        BY <2>2
      <4> QED
        BY <2>1, <4>1
    <3>2. ASSUME NEW j \in s .. k - 1 PROVE chat[j] \in {page[i] : i \in 1 .. k - s}
      <4>1. j - s + 1 \in 1 .. k - s /\ s + (j - s + 1) - 1 = j
        BY <2>2
      <4>2. page[j - s + 1] = chat[j]
        BY <2>1, <4>1
      <4> QED
        BY <4>1, <4>2
    <3> QED
      BY <1>4, <2>2, <3>1, <3>2
  <2>5. CASE s = 1
    <3>1. p = 0
      BY <1>3, <2>3, <2>5
    <3> QED
      BY <1>1, <2>4, <2>5, <3>1 DEF page, p
  <2>6. CASE s # 1
    <3>1. page[1] # older[1]
      <4>1. s \in DOMAIN chat /\ 1 \in DOMAIN chat
        BY <1>1, <2>1
      <4> QED
        BY <1>1, <2>3, <2>6, <4>1, ListedOnce
    <3>2. next = chat[k - 1]
      <4>1. page # <<>>
        BY <2>1, <2>2, EmptySeq
      <4> QED
        BY <1>3, <1>5, <2>1, <2>3, <3>1, <4>1
    <3>3. k - 1 \in DOMAIN chat /\ chat[k - 1] \in Message
      BY <1>1, <2>2, ElementOfSeq
    <3>4. p = k - 1
      BY <1>1, <1>3, <3>2, <3>3, MessageIsCursor, PlaceIs
    <3>5. s .. k - 1 \cup 1 .. k - 1 - 1 = 1 .. k - 1
      BY <2>1, <2>2
    <3>6. {chat[j] : j \in s .. k - 1} \cup {chat[j] : j \in 1 .. k - 1 - 1} =
          {chat[j] : j \in 1 .. k - 1}
      BY <3>5
    <3> QED
      BY <1>1, <2>4, <3>4, <3>6 DEF page, p
  <2> QED
    BY <2>5, <2>6
<1> QED
  BY <1>6, <1>7, <1>8

(* What the cursors show is defined by recursion on the place.  The         *)
(* beginnings of the list satisfy the equation, and nothing else does: of   *)
(* the places where another function differs there would be a least one,    *)
(* and its equation only looks at places before it.                         *)
LEMMA ShownIs ==
  ASSUME NEW chat, Opened(chat), NEW limit \in Nat \ {0}, NEW k \in DOMAIN chat
  PROVE  History!Shown(chat, limit)[k] = {chat[j] : j \in 1 .. k - 1}
<1> DEFINE n == Len(chat)
           Body(g, i) == IF i = 0 THEN {}
                         ELSE History!ToSet(History!Messages(chat, limit, chat[i]))
                              \cup g[NextPlace(chat, limit, i)]
           f == [i \in 0 .. n |-> {chat[j] : j \in 1 .. i - 1}]
           shown == History!Shown(chat, limit)
<1>1. n \in Nat /\ DOMAIN chat = 1 .. n /\ k \in 1 .. n
  BY DEF Opened, Listed
<1>2. shown = CHOOSE g : g = [i \in 0 .. n |-> Body(g, i)]
  BY DEF History!Shown, NextPlace
<1>3. ASSUME NEW i \in 1 .. n
      PROVE  /\ NextPlace(chat, limit, i) \in 0 .. i - 1
             /\ Body(f, i) = {chat[j] : j \in 1 .. i - 1}
  <2>1. /\ NextPlace(chat, limit, i) \in 0 .. i - 1
        /\ History!ToSet(History!Messages(chat, limit, chat[i]))
           \cup {chat[j] : j \in 1 .. NextPlace(chat, limit, i) - 1} =
           {chat[j] : j \in 1 .. i - 1}
    BY <1>1, PageLeavesOff
  <2>2. NextPlace(chat, limit, i) \in 0 .. n /\ i # 0
    BY <1>1, <2>1
  <2> QED
    BY <2>1, <2>2
<1>4. Body(f, 0) = {chat[j] : j \in 1 .. 0 - 1}
  OBVIOUS
<1>5. f = [i \in 0 .. n |-> Body(f, i)]
  <2>1. ASSUME NEW i \in 0 .. n PROVE Body(f, i) = {chat[j] : j \in 1 .. i - 1}
    <3>1. CASE i = 0
      BY <1>4, <3>1
    <3>2. CASE i # 0
      <4>1. i \in 1 .. n
        BY <1>1, <3>2
      <4> QED
        BY <1>3, <4>1
    <3> QED
      BY <3>1, <3>2
  <2> QED
    BY <2>1
<1>6. shown = [i \in 0 .. n |-> Body(shown, i)]
  <2>1. \E g : g = [i \in 0 .. n |-> Body(g, i)]
    BY <1>5
  <2> QED
    BY <1>2, <2>1
<1>7. \A i \in 0 .. n : shown[i] = f[i]
  <2> DEFINE T == {i \in 0 .. n : shown[i] # f[i]}
  <2> SUFFICES ASSUME T # {} PROVE FALSE
    OBVIOUS
  <2>1. PICK i \in T : \A y \in T : i <= y
    <3>1. T \subseteq Nat
      OBVIOUS
    <3> HIDE DEF T
    <3> QED
      BY <3>1, LeastExists
  <2>2. i \in 0 .. n /\ shown[i] # f[i] /\ shown[i] = Body(shown, i) /\ f[i] = Body(f, i)
    BY <1>5, <1>6, <2>1
  <2>3. i # 0
    BY <2>2
  <2>4. i \in 1 .. n
    BY <1>1, <2>2, <2>3
  <2>5. NextPlace(chat, limit, i) \in 0 .. n /\ ~ (i <= NextPlace(chat, limit, i))
    BY <1>1, <1>3, <2>4
  <2>6. shown[NextPlace(chat, limit, i)] = f[NextPlace(chat, limit, i)]
    BY <2>1, <2>5
  <2> QED
    BY <2>2, <2>6
<1>8. k \in 0 .. n
  BY <1>1
<1> QED
  BY <1>7, <1>8

(* Following next_cursor from any message shows everything before it, and   *)
(* comes to an end, for every page size and every thread.                   *)
THEOREM CursorsCoverAll == Spec => []CursorsReachTheStart
<1>1. KeptInv => CursorsReachTheStart
  <2> SUFFICES ASSUME KeptInv, NEW limit \in Limits, NEW i \in DOMAIN cp.messages
               PROVE  History!Shown(cp.messages, limit)[i] =
                      {cp.messages[j] : j \in 1 .. i - 1}
    BY DEF CursorsReachTheStart
  <2>1. limit \in Nat \ {0}
    BY LimitAssumption DEF Limits
  <2> QED
    BY <2>1, ThreadOpened, ShownIs
<1> QED
  BY <1>1, KeptAlways, PTL
=============================================================================
