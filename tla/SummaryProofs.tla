---------------------------- MODULE SummaryProofs ----------------------------
(***************************************************************************)
(* Theorems about the messages of Conversation, for every number of turns  *)
(* and faults and every setting of the summary: what is cut off the list,  *)
(* what a run that ended well leaves in it, and the title that goes with    *)
(* them.                                                                    *)
(***************************************************************************)
EXTENDS ConversationProofs, FiniteSetTheorems, WellFoundedInduction

-----------------------------------------------------------------------------
(* Greatest numbers: strict inclusion of intervals is well-founded         *)

LEMMA LeastExists ==
  ASSUME NEW T, T \subseteq Nat, T # {}
  PROVE  \E x \in T : \A y \in T : x <= y
<1>1. PICK a \in T : TRUE
  OBVIOUS
<1> DEFINE Intervals == {0 .. x : x \in {y \in T : y <= a}}
<1>2. IsWellFoundedOn(StrictSubsetOrdering(0 .. a), SUBSET (0 .. a))
  <2>1. IsFiniteSet(0 .. a)
    BY FS_Interval
  <2> QED
    BY <2>1, FS_FiniteSubsetsOfFinite, FS_StrictSubsetOrderingWellFounded
<1>3. Intervals \subseteq SUBSET (0 .. a) /\ Intervals # {}
  <2>1. 0 .. a \in Intervals
    BY <1>1
  <2>2. \A y \in T : y <= a => 0 .. y \in SUBSET (0 .. a)
    OBVIOUS
  <2> QED
    BY <2>1, <2>2
<1>4. \E U \in Intervals : \A V \in Intervals :
         ~ (<<V, U>> \in StrictSubsetOrdering(0 .. a))
  <2> HIDE DEF Intervals
  <2> QED
    BY <1>2, <1>3, WFMin
<1>5. PICK x \in T :
        /\ x <= a
        /\ \A V \in Intervals : ~ (<<V, 0 .. x>> \in StrictSubsetOrdering(0 .. a))
  BY <1>4
<1>6. ASSUME NEW y \in T, ~ (x <= y) PROVE FALSE
  <2>1. y < x /\ y <= a /\ y \in Nat /\ x \in Nat
    BY <1>5, <1>6
  <2>2. 0 .. y \in Intervals
    BY <2>1
  <2>3. 0 .. y \subseteq 0 .. x /\ 0 .. y \in SUBSET (0 .. a) /\ 0 .. x \in SUBSET (0 .. a)
    BY <1>5, <2>1
  <2>4. x \in 0 .. x /\ x \notin 0 .. y
    BY <2>1
  <2>5. <<0 .. y, 0 .. x>> \in StrictSubsetOrdering(0 .. a)
    BY <2>3, <2>4 DEF StrictSubsetOrdering
  <2> QED
    BY <1>5, <2>2, <2>5
<1> QED
  BY <1>6

LEMMA GreatestExists ==
  ASSUME NEW n \in Nat, NEW T, T \subseteq 1 .. n, T # {}
  PROVE  \E x \in T : \A y \in T : y <= x
<1> DEFINE Gaps == {n - x : x \in T}
<1>1. Gaps \subseteq Nat /\ Gaps # {}
  <2>1. \A x \in T : n - x \in Nat
    OBVIOUS
  <2>2. PICK x \in T : TRUE
    OBVIOUS
  <2>3. n - x \in Gaps
    BY <2>2
  <2> QED
    BY <2>1, <2>3
<1>2. \E g \in Gaps : \A h \in Gaps : g <= h
  <2> HIDE DEF Gaps
  <2> QED
    BY <1>1, LeastExists
<1>3. PICK x \in T : \A h \in Gaps : n - x <= h
  BY <1>2
<1>4. ASSUME NEW y \in T PROVE y <= x
  <2>1. n - y \in Gaps /\ x \in 1 .. n /\ y \in 1 .. n
    OBVIOUS
  <2> QED
    BY <1>3, <2>1
<1> QED
  BY <1>4

(* The list is not cut, or it is cut before a human message, after at most  *)
(* SummarizeCount messages.                                                 *)
LEMMA CutIsClean ==
  ASSUME NEW m
  PROVE  \/ Cut(m) = 0
         \/ Cut(m) \in 1 .. SummarizeCount /\ m[Cut(m) + 1].kind = "human"
<1> DEFINE cuts == {c \in 1 .. SummarizeCount : m[c + 1].kind = "human"}
<1>1. CASE cuts = {}
  BY <1>1 DEF Cut
<1>2. CASE cuts # {}
  <2>1. \E c \in cuts : \A d \in cuts : d <= c
    BY <1>2, GreatestExists, ConversationAssumption
  <2>2. Cut(m) \in cuts
    BY <1>2, <2>1 DEF Cut
  <2> QED
    BY <2>2
<1> QED
  BY <1>1, <1>2

-----------------------------------------------------------------------------
(* The messages of the checkpoint                                          *)

Before(a, b) == \/ a.turn < b.turn
                \/ a.turn = b.turn /\ a.kind = "human" /\ b.kind = "ai"

(* The nodes in which the request of the run is still unanswered.           *)
Unanswered == {"profiler", "profiled", "summarize", "orchestrate", "prepare",
               "search", "rerank", "trend", "synthesize", "answered"}

(* The list is in the order of the conversation, an answer stands right     *)
(* after its question, and the last question is at the end while it is      *)
(* unanswered.                                                              *)
Listed(m) ==
    /\ m \in Seq(Message)
    /\ \A i, j \in DOMAIN m : i < j => Before(m[i], m[j])
    /\ \A i \in DOMAIN m : m[i].kind = "ai" => i > 1 /\ m[i - 1] = Human(m[i].turn)

MessagesOK ==
    /\ {"messages", "summary"} \subseteq DOMAIN cp
    /\ Listed(cp.messages) /\ cp.summary \subseteq Message
    /\ \A m \in Texts \cup cp.summary : m.turn <= turn
    /\ pc \in Unanswered => /\ cp.messages # <<>>
                            /\ cp.messages[Len(cp.messages)] = Human(turn)

SummaryInv == TitleInv /\ MessagesOK /\ SummaryTakesWholeTurns

LEMMA MessageKinds ==
  /\ \A t \in Turns : Human(t) \in Message /\ Human(t).turn = t /\ Human(t).kind = "human"
  /\ \A t \in Turns : Ai(t) \in Message /\ Ai(t).turn = t /\ Ai(t).kind = "ai"
  /\ \A m \in Message : m.turn \in Turns /\ m.kind \in {"human", "ai"}
  /\ \A m \in Message : m.kind = "human" => m = Human(m.turn)
  /\ \A m \in Message : m.kind = "ai" => m = Ai(m.turn)
BY DEF Human, Ai, Message

(* No message is on the list twice. *)
LEMMA ListedOnce ==
  ASSUME NEW m, Listed(m), NEW i \in DOMAIN m, NEW j \in DOMAIN m, m[i] = m[j]
  PROVE  i = j
<1>1. m[i] \in Message /\ i \in Nat /\ j \in Nat
  BY ElementOfSeq DEF Listed
<1>2. m[i].turn \in Int
  BY <1>1, MessageKinds, ConversationAssumption DEF Turns
<1>3. ~Before(m[i], m[i])
  BY <1>2 DEF Before
<1> QED
  BY <1>1, <1>3 DEF Listed

LEMMA SummaryInit == Init => SummaryInv
<1> SUFFICES ASSUME Init PROVE SummaryInv
  OBVIOUS
<1>1. cp.messages = <<>> /\ cp.messages \in Seq(Message) /\ DOMAIN cp.messages = {}
  BY DEF Init
<1>2. MessagesOK
  BY <1>1 DEF Init, MessagesOK, Listed, Texts, Unanswered
<1>3. SummaryTakesWholeTurns
  BY <1>1 DEF Init, SummaryTakesWholeTurns, Texts
<1> QED
  BY <1>2, <1>3, TitleInit DEF SummaryInv

(* A message behind all others may be appended: a question, or the answer   *)
(* to the question at the end.                                              *)
LEMMA ListedAppend ==
  ASSUME NEW m, Listed(m), NEW x \in Message,
         \A i \in DOMAIN m : Before(m[i], x),
         x.kind = "ai" => m # <<>> /\ m[Len(m)] = Human(x.turn)
  PROVE  LET n == Append(m, x)
         IN  /\ Listed(n) /\ n # <<>> /\ n[Len(n)] = x
             /\ {n[i] : i \in DOMAIN n} = {m[i] : i \in DOMAIN m} \cup {x}
             /\ m # <<>> => n[1] = m[1]
             /\ m = <<>> => n[1] = x
<1> DEFINE n == Append(m, x)
<1>1. /\ n \in Seq(Message) /\ n # <<>> /\ Len(n) = Len(m) + 1
      /\ \A i \in 1 .. Len(m) : n[i] = m[i]
      /\ n[Len(m) + 1] = x
  BY AppendProperties DEF Listed
<1>2. /\ m \in Seq(Message) /\ Len(m) \in Nat
      /\ DOMAIN m = 1 .. Len(m) /\ DOMAIN n = 1 .. Len(m) + 1
  BY <1>1 DEF Listed
<1> HIDE DEF n
<1>3. \A i, j \in DOMAIN n : i < j => Before(n[i], n[j])
  BY <1>1, <1>2 DEF Listed
<1>4. ASSUME NEW i \in DOMAIN n, n[i].kind = "ai"
      PROVE  i > 1 /\ n[i - 1] = Human(n[i].turn)
  <2>1. CASE i = Len(m) + 1
    <3>1. Len(m) > 0 /\ m[Len(m)] = Human(x.turn)
      BY <1>1, <1>2, <1>4, <2>1, EmptySeq
    <3> QED
      BY <1>1, <1>2, <2>1, <3>1
  <2>2. CASE i \in 1 .. Len(m)
    <3>1. i > 1 /\ m[i - 1] = Human(m[i].turn) /\ n[i] = m[i]
      BY <1>1, <1>2, <1>4, <2>2 DEF Listed
    <3> QED
      BY <1>1, <1>2, <2>2, <3>1
  <2> QED
    BY <1>2, <2>1, <2>2
<1>5. {n[i] : i \in DOMAIN n} = {m[i] : i \in DOMAIN m} \cup {x}
  BY <1>1, <1>2
<1>6. (m # <<>> => n[1] = m[1]) /\ (m = <<>> => n[1] = x)
  BY <1>1, <1>2, EmptySeq
<1>7. Listed(n)
  BY <1>1, <1>3, <1>4 DEF Listed
<1> QED
  BY <1>1, <1>5, <1>6, <1>7 DEF n

-----------------------------------------------------------------------------
(* The steps                                                               *)

(* The next question is behind everything that is listed or summarised. *)
LEMMA SummaryStart ==
  ASSUME SummaryInv, NEW image \in BOOLEAN, StartRun(image)
  PROVE  SummaryInv' /\ Texts' = Texts \cup {Human(turn + 1)}
<1> DEFINE x == Human(turn + 1)
<1>1. TitleInv'
  BY TitleStart DEF SummaryInv
<1>2. /\ turn \in Turns /\ turn + 1 \in Turns /\ turn \in Nat /\ turn' = turn + 1
      /\ x \in Message /\ x.turn = turn + 1 /\ x.kind = "human"
  BY MessageKinds, ConversationAssumption
     DEF SummaryInv, TitleInv, WeakTypeOK, StartRun, Turns
<1>3. /\ cp'.messages = Append(cp.messages, x) /\ cp'.summary = cp.summary
      /\ DOMAIN cp' = DOMAIN cp /\ pc' = "profiler"
  BY DEF StartRun, SummaryInv, MessagesOK
<1>4. /\ \A m \in Texts \cup cp.summary : m \in Message /\ m.turn \in Int /\ m.turn < turn + 1
      /\ Listed(cp.messages)
  <2>1. Texts \cup cp.summary \subseteq Message
    BY ElementOfSeq DEF SummaryInv, MessagesOK, Listed, Texts
  <2> QED
    BY <1>2, <2>1, MessageKinds, ConversationAssumption DEF SummaryInv, MessagesOK, Turns
<1>5. \A i \in DOMAIN cp.messages : Before(cp.messages[i], x)
  BY <1>2, <1>4 DEF Before, Texts
<1>6. /\ Listed(cp'.messages) /\ cp'.messages # <<>>
      /\ cp'.messages[Len(cp'.messages)] = x
      /\ Texts' = Texts \cup {x}
      /\ cp.messages # <<>> => cp'.messages[1] = cp.messages[1]
      /\ cp.messages = <<>> => cp'.messages[1] = x
  <2> HIDE DEF x
  <2>1. LET m == cp.messages
            n == Append(m, x)
        IN  /\ Listed(n) /\ n # <<>> /\ n[Len(n)] = x
            /\ {n[i] : i \in DOMAIN n} = {m[i] : i \in DOMAIN m} \cup {x}
            /\ m # <<>> => n[1] = m[1]
            /\ m = <<>> => n[1] = x
    BY <1>2, <1>4, <1>5, ListedAppend
  <2> QED
    BY <1>3, <2>1 DEF Texts
<1>7. MessagesOK'
  <2>1. \A m \in Texts' \cup cp'.summary : m.turn <= turn'
    BY <1>2, <1>3, <1>4, <1>6
  <2> QED
    BY <1>2, <1>3, <1>6, <2>1 DEF MessagesOK, SummaryInv
<1>8. SummaryTakesWholeTurns'
  <2>1. \A t \in 1 .. turn' : Human(t) \in Texts' \cup cp'.summary
    BY <1>2, <1>3, <1>6 DEF SummaryInv, SummaryTakesWholeTurns
  <2>2. cp'.messages # <<>> => cp'.messages[1].kind = "human"
    BY <1>2, <1>6 DEF SummaryInv, SummaryTakesWholeTurns
  <2>3. ASSUME NEW m \in Texts' \cup cp'.summary, m.kind = "ai"
        PROVE  m \in Texts' <=> Human(m.turn) \in Texts'
    <3>1. m # x /\ m \in Texts \cup cp.summary
      BY <1>2, <1>3, <1>6, <2>3
    <3>2. m.turn \in Turns /\ m.turn # turn + 1
      BY <1>4, <3>1, MessageKinds
    <3>3. Human(m.turn) # x
      <4>1. Human(m.turn).turn = m.turn
        BY <3>2, MessageKinds
      <4> QED
        BY <1>2, <3>2, <4>1
    <3> QED
      BY <1>6, <2>3, <3>1, <3>3 DEF SummaryInv, SummaryTakesWholeTurns
  <2> QED
    BY <2>1, <2>2, <2>3 DEF SummaryTakesWholeTurns
<1> QED
  BY <1>1, <1>6, <1>7, <1>8 DEF SummaryInv

(* The answer goes behind the question of its run, and belongs to it. *)
LEMMA SummaryCommit ==
  ASSUME SummaryInv, Commit
  PROVE  SummaryInv' /\ Texts' = Texts \cup {Ai(turn)}
<1> DEFINE x == Ai(turn)
<1>1. TitleInv'
  BY TitleMain DEF SummaryInv, MainStep
<1>2. /\ turn \in Turns /\ turn \in Nat /\ turn' = turn
      /\ x \in Message /\ x.turn = turn /\ x.kind = "ai"
  BY MessageKinds, ConversationAssumption
     DEF SummaryInv, TitleInv, WeakTypeOK, Commit, Turns
<1>3. /\ cp'.messages = Append(cp.messages, x) /\ cp'.summary = cp.summary
      /\ DOMAIN cp' = DOMAIN cp /\ pc' \notin Unanswered
  BY DEF Commit, GoNext, SummaryInv, MessagesOK, Unanswered
<1>4. /\ Listed(cp.messages) /\ cp.messages # <<>>
      /\ cp.messages[Len(cp.messages)] = Human(turn)
      /\ Len(cp.messages) \in DOMAIN cp.messages
  <2>1. Listed(cp.messages) /\ cp.messages # <<>>
        /\ cp.messages[Len(cp.messages)] = Human(turn)
    BY DEF SummaryInv, MessagesOK, Commit, Unanswered
  <2>2. Len(cp.messages) \in DOMAIN cp.messages
    BY <2>1, EmptySeq DEF Listed
  <2> QED
    BY <2>1, <2>2
<1>5. \A i \in DOMAIN cp.messages : Before(cp.messages[i], x)
  <2> SUFFICES ASSUME NEW i \in DOMAIN cp.messages PROVE Before(cp.messages[i], x)
    OBVIOUS
  <2>1. CASE i = Len(cp.messages)
    BY <1>2, <1>4, <2>1, MessageKinds DEF Before
  <2>2. CASE i # Len(cp.messages)
    <3>1. cp.messages[i] \in Message /\ i < Len(cp.messages)
      BY <1>4, <2>2, ElementOfSeq DEF Listed
    <3>2. Before(cp.messages[i], Human(turn))
      BY <1>4, <3>1 DEF Listed
    <3>3. cp.messages[i].turn < turn
      BY <1>2, <3>2, MessageKinds DEF Before
    <3> QED
      BY <1>2, <3>3 DEF Before
  <2> QED
    BY <2>1, <2>2
<1>6. /\ Listed(cp'.messages) /\ Texts' = Texts \cup {x} /\ cp'.messages[1] = cp.messages[1]
  BY <1>2, <1>3, <1>4, <1>5, ListedAppend DEF Texts
<1>7. MessagesOK'
  <2>1. \A m \in Texts' \cup cp'.summary : m.turn <= turn'
    BY <1>2, <1>3, <1>6 DEF SummaryInv, MessagesOK
  <2> QED
    BY <1>3, <1>6, <2>1 DEF MessagesOK, SummaryInv
<1>8. SummaryTakesWholeTurns'
  <2>1. \A t \in 1 .. turn' : Human(t) \in Texts' \cup cp'.summary
    BY <1>2, <1>3, <1>6 DEF SummaryInv, SummaryTakesWholeTurns
  <2>2. cp'.messages # <<>> => cp'.messages[1].kind = "human"
    BY <1>4, <1>6 DEF SummaryInv, SummaryTakesWholeTurns
  <2>3. ASSUME NEW m \in Texts' \cup cp'.summary, m.kind = "ai"
        PROVE  m \in Texts' <=> Human(m.turn) \in Texts'
    <3>1. Human(turn) \in Texts
      BY <1>4 DEF Texts
    <3>2. CASE m = x
      BY <1>2, <1>6, <3>1, <3>2
    <3>3. CASE m # x
      <4>1. m \in Texts \cup cp.summary /\ m \in Message
        BY <1>3, <1>6, <3>3, ElementOfSeq DEF Texts, Listed, SummaryInv, MessagesOK
      <4>2. Human(m.turn) # x
        BY <1>2, <4>1, MessageKinds
      <4> QED
        BY <1>6, <2>3, <3>3, <4>1, <4>2 DEF SummaryInv, SummaryTakesWholeTurns
    <3> QED
      BY <3>2, <3>3
  <2> QED
    BY <2>1, <2>2, <2>3 DEF SummaryTakesWholeTurns
<1> QED
  BY <1>1, <1>6, <1>7, <1>8 DEF SummaryInv

(* What is left of a list that is cut before a question is a list again;    *)
(* answers stay on the side of the cut their questions are on.              *)
LEMMA ListedCut ==
  ASSUME NEW m, Listed(m), NEW cut \in Nat, cut < Len(m),
         cut = 0 \/ m[cut + 1].kind = "human"
  PROVE  LET n == SubSeq(m, cut + 1, Len(m))
         IN  /\ Listed(n) /\ n # <<>> /\ n[Len(n)] = m[Len(m)] /\ n[1] = m[cut + 1]
             /\ {n[i] : i \in DOMAIN n} = {m[i] : i \in cut + 1 .. Len(m)}
<1> DEFINE n == SubSeq(m, cut + 1, Len(m))
<1>1. m \in Seq(Message) /\ Len(m) \in Nat /\ DOMAIN m = 1 .. Len(m)
  BY DEF Listed
<1>2. /\ n \in Seq(Message) /\ Len(n) = Len(m) - cut
      /\ \A i \in 1 .. Len(m) - cut : n[i] = m[cut + i]
  <2>1. \A i \in cut + 1 .. Len(m) : m[i] \in Message
    BY <1>1, ElementOfSeq
  <2>2. /\ n \in Seq(Message)
        /\ Len(n) = IF cut + 1 <= Len(m) THEN Len(m) - (cut + 1) + 1 ELSE 0
        /\ \A i \in 1 .. Len(m) - (cut + 1) + 1 : n[i] = m[cut + 1 + i - 1]
    BY <1>1, <2>1, SubSeqProperties
  <2> HIDE DEF n
  <2>3. Len(n) = Len(m) - cut /\ Len(m) - (cut + 1) + 1 = Len(m) - cut
    <3>1. cut + 1 <= Len(m) /\ Len(m) - (cut + 1) + 1 = Len(m) - cut
      BY <1>1
    <3> QED
      BY <2>2, <3>1
  <2>4. ASSUME NEW i \in 1 .. Len(m) - cut PROVE n[i] = m[cut + i]
    <3>1. n[i] = m[cut + 1 + i - 1]
      BY <2>2, <2>3, <2>4
    <3>2. cut + 1 + i - 1 = cut + i
      OBVIOUS
    <3> QED
      BY <3>1, <3>2
  <2> QED
    BY <2>2, <2>3, <2>4
<1> HIDE DEF n
<1>3. DOMAIN n = 1 .. Len(m) - cut /\ n # <<>>
  BY <1>1, <1>2, EmptySeq
<1> DEFINE k == Len(m)
<1>31. /\ k \in Nat /\ DOMAIN n = 1 .. k - cut /\ DOMAIN m = 1 .. k /\ cut < k
       /\ \A i \in 1 .. k - cut : n[i] = m[cut + i]
  BY <1>1, <1>2, <1>3
<1> HIDE DEF k
<1>32. ASSUME NEW i \in DOMAIN n
       PROVE  i \in Nat /\ cut + i \in DOMAIN m /\ n[i] = m[cut + i] /\ i >= 1 /\ i <= k - cut
  BY <1>31
<1>4. ASSUME NEW i \in DOMAIN n, NEW j \in DOMAIN n, i < j
      PROVE  Before(n[i], n[j])
  <2>1. /\ cut + i \in DOMAIN m /\ cut + j \in DOMAIN m /\ cut + i < cut + j
        /\ n[i] = m[cut + i] /\ n[j] = m[cut + j]
    BY <1>32, <1>4
  <2>2. Before(m[cut + i], m[cut + j])
    BY <2>1 DEF Listed
  <2> QED
    BY <2>1, <2>2
<1>5. ASSUME NEW i \in DOMAIN n, n[i].kind = "ai"
      PROVE  i > 1 /\ n[i - 1] = Human(n[i].turn)
  <2>1. cut + i \in DOMAIN m /\ n[i] = m[cut + i]
    BY <1>1, <1>2, <1>3
  <2>2. cut + i > 1 /\ m[cut + i - 1] = Human(m[cut + i].turn)
    <3>1. m[cut + i].kind = "ai"
      BY <1>5, <2>1
    <3> DEFINE c == cut + i
    <3>2. c \in DOMAIN m /\ m[c].kind = "ai"
      BY <2>1, <3>1
    <3>3. c > 1 /\ m[c - 1] = Human(m[c].turn)
      <4> HIDE DEF c
      <4> QED
        BY <3>2 DEF Listed
    <3> QED
      BY <1>32, <3>3
  <2>3. i > 1
    BY <1>1, <1>3, <1>5, <2>1, <2>2
  <2>4. n[i - 1] = m[cut + (i - 1)] /\ cut + (i - 1) = cut + i - 1
    BY <1>1, <1>2, <1>3, <2>3
  <2> QED
    BY <2>1, <2>2, <2>3, <2>4
<1>6. {n[i] : i \in DOMAIN n} = {m[i] : i \in cut + 1 .. Len(m)}
  <2>1. ASSUME NEW i \in DOMAIN n
        PROVE  cut + i \in cut + 1 .. Len(m) /\ n[i] = m[cut + i]
    BY <1>1, <1>2, <1>3
  <2>2. ASSUME NEW j \in cut + 1 .. Len(m)
        PROVE  j - cut \in DOMAIN n /\ n[j - cut] = m[j]
    BY <1>1, <1>2, <1>3
  <2> QED
    BY <2>1, <2>2
<1>7. Listed(n)
  BY <1>2, <1>4, <1>5 DEF Listed
<1>8. n[Len(n)] = m[Len(m)] /\ n[1] = m[cut + 1]
  BY <1>1, <1>2
<1> QED
  BY <1>3, <1>6, <1>7, <1>8 DEF n

(* A summary moves the messages before the cut, each turn with its answer. *)
LEMMA SummaryFold ==
  ASSUME SummaryInv, Summarize
  PROVE  SummaryInv' /\ Texts' \cup cp'.summary = Texts \cup cp.summary
<1> DEFINE m == cp.messages
           cut == IF Len(m) < SummarizeThreshold THEN 0 ELSE Cut(m)
           folded == {m[i] : i \in 1 .. cut}
           left == {m[i] : i \in cut + 1 .. Len(m)}
<1>1. TitleInv'
  BY TitleMain DEF SummaryInv, MainStep
<1>2. /\ cp'.messages = SubSeq(m, cut + 1, Len(m)) /\ cp'.summary = cp.summary \cup folded
      /\ DOMAIN cp' = DOMAIN cp /\ turn' = turn
  BY DEF Summarize, SummaryInv, MessagesOK
<1>3. /\ Listed(m) /\ m # <<>> /\ m[Len(m)] = Human(turn) /\ m \in Seq(Message)
      /\ Len(m) \in Nat \ {0} /\ DOMAIN m = 1 .. Len(m)
  <2>1. Listed(m) /\ m # <<>> /\ m[Len(m)] = Human(turn) /\ m \in Seq(Message)
    BY DEF SummaryInv, MessagesOK, Summarize, Unanswered, Listed
  <2> QED
    BY <2>1, EmptySeq
<1> HIDE DEF m
<1>4. cut \in Nat /\ cut < Len(m) /\ (cut = 0 \/ m[cut + 1].kind = "human")
  BY <1>3, CutIsClean, ConversationAssumption
<1> HIDE DEF cut
<1>5. /\ Listed(cp'.messages) /\ cp'.messages # <<>>
      /\ cp'.messages[Len(cp'.messages)] = Human(turn)
      /\ cp'.messages[1] = m[cut + 1] /\ Texts' = left
  <2>1. LET n == SubSeq(m, cut + 1, Len(m))
        IN  /\ Listed(n) /\ n # <<>> /\ n[Len(n)] = m[Len(m)] /\ n[1] = m[cut + 1]
            /\ {n[i] : i \in DOMAIN n} = left
    BY <1>3, <1>4, ListedCut
  <2> QED
    BY <1>2, <1>3, <2>1 DEF Texts
<1>6. Texts = folded \cup left
  <2>1. 1 .. Len(m) = (1 .. cut) \cup (cut + 1 .. Len(m))
    BY <1>3, <1>4
  <2>2. Texts = {m[i] : i \in 1 .. Len(m)}
    BY <1>3 DEF Texts, m
  <2> QED
    BY <2>1, <2>2
<1>7. Texts' \cup cp'.summary = Texts \cup cp.summary
  BY <1>2, <1>5, <1>6
<1>8. folded \cap left = {}
  <2> SUFFICES ASSUME NEW i \in 1 .. cut, NEW j \in cut + 1 .. Len(m), m[i] = m[j]
               PROVE  FALSE
    OBVIOUS
  <2>1. i \in DOMAIN m /\ j \in DOMAIN m /\ i # j
    BY <1>3, <1>4
  <2> QED
    BY <1>3, <2>1, ListedOnce
<1>9. MessagesOK'
  <2>1. folded \subseteq Message
    BY <1>3, <1>4, ElementOfSeq
  <2> QED
    BY <1>2, <1>5, <1>7, <2>1 DEF MessagesOK, SummaryInv
<1>10. SummaryTakesWholeTurns'
  <2>1. \A t \in 1 .. turn' : Human(t) \in Texts' \cup cp'.summary
    BY <1>2, <1>7 DEF SummaryInv, SummaryTakesWholeTurns
  <2>2. cp'.messages[1].kind = "human"
    BY <1>3, <1>4, <1>5 DEF SummaryInv, SummaryTakesWholeTurns, m
  <2>3. ASSUME NEW x \in Texts' \cup cp'.summary, x.kind = "ai"
        PROVE  x \in Texts' <=> Human(x.turn) \in Texts'
    <3>1. x \in Texts \cup cp.summary /\ (x \in Texts <=> Human(x.turn) \in Texts)
      BY <1>7, <2>3 DEF SummaryInv, SummaryTakesWholeTurns
    <3>2. CASE x \notin Texts
      BY <1>5, <1>6, <3>1, <3>2
    <3>3. CASE x \in Texts
      <4>1. PICK i \in DOMAIN m : m[i] = x
        BY <1>3, <3>3 DEF Texts, m
      <4>2. i > 1 /\ m[i - 1] = Human(x.turn)
        BY <1>3, <2>3, <4>1 DEF Listed
      <4>3. i \in 1 .. Len(m) /\ i - 1 \in 1 .. Len(m)
        BY <1>3, <4>2
      <4>4. CASE i <= cut
        <5>1. x \in folded /\ Human(x.turn) \in folded
          BY <1>4, <4>1, <4>2, <4>3, <4>4
        <5> QED
          BY <1>5, <1>8, <5>1
      <4>5. CASE i > cut
        <5>1. i # cut + 1
          BY <1>4, <2>3, <4>1, <4>2
        <5>2. i \in cut + 1 .. Len(m) /\ i - 1 \in cut + 1 .. Len(m)
          BY <1>4, <4>3, <4>5, <5>1
        <5>3. x \in left /\ Human(x.turn) \in left
          BY <4>1, <4>2, <5>2
        <5> QED
          BY <1>5, <5>3
      <4> QED
        BY <1>4, <4>3, <4>4, <4>5
    <3> QED
      BY <3>2, <3>3
  <2> QED
    BY <2>1, <2>2, <2>3 DEF SummaryTakesWholeTurns
<1> QED
  BY <1>1, <1>7, <1>9, <1>10 DEF SummaryInv

(* Nothing else touches the messages or asks a question. *)
LEMMA SummaryRest ==
  ASSUME SummaryInv, [Next]_vars,
         cp'.messages = cp.messages, cp'.summary = cp.summary, DOMAIN cp' = DOMAIN cp,
         turn' = turn, pc' \in Unanswered => pc \in Unanswered
  PROVE  SummaryInv'
<1>1. TitleInv'
  BY TitleStepOK DEF SummaryInv
<1>2. Texts' = Texts
  BY DEF Texts
<1> QED
  BY <1>1, <1>2 DEF SummaryInv, MessagesOK, SummaryTakesWholeTurns

LEMMA SummaryNext ==
  ASSUME SummaryInv, [Next]_vars
  PROVE  SummaryInv'
<1> USE DEF SummaryInv, MessagesOK
<1>1. CASE \E image \in BOOLEAN : StartRun(image)
  BY <1>1, SummaryStart
<1>2. CASE Summarize
  BY <1>2, SummaryFold
<1>3. CASE Commit
  BY <1>3, SummaryCommit
<1>4. CASE TitleStep
  BY <1>4, SummaryRest DEF TitleStep, TitleAttempt, TitleAsk, TitlePersist, TitleAnnounce
<1>5. CASE Profile \/ EndSuperstep1
  BY <1>5, SummaryRest DEF Profile, EndSuperstep1, Unanswered
<1>6. CASE Orchestrate \/ PrepareQuery \/ HybridSearch \/ Rerank \/ TrendScout \/ RetrievalFails
  BY <1>6, SummaryRest DEF Orchestrate, PrepareQuery, HybridSearch, Rerank, TrendScout,
                           RetrievalFails, Retrieved, GoNext, Unanswered
<1>7. CASE Token \/ Synthesize
  BY <1>7, SummaryRest DEF Token, Synthesize, Unanswered
<1>8. CASE ImageSkip \/ ImageFails \/ ImageInsert \/ ImageReady
  BY <1>8, SummaryRest DEF ImageSkip, ImageFails, ImageInsert, ImageReady, Unanswered
<1>9. CASE LimitReached \/ NodeFails \/ EndRun
  BY <1>9, SummaryRest DEF LimitReached, NodeFails, RunFails, EndRun, Unanswered
<1>10. CASE UNCHANGED vars
  BY <1>10, SummaryRest DEF vars
<1> QED
  BY <1>1, <1>2, <1>3, <1>4, <1>5, <1>6, <1>7, <1>8, <1>9, <1>10 DEF Next, MainStep

(* No message of a request is lost, and the summary takes in whole turns    *)
(* only, for every threshold and count, whichever runs fail between.        *)
THEOREM SummaryIsWhole == Spec => []SummaryTakesWholeTurns
<1>1. SummaryInv => SummaryTakesWholeTurns
  BY DEF SummaryInv
<1> QED
  BY <1>1, SummaryInit, SummaryNext, PTL DEF Spec

-----------------------------------------------------------------------------
(* What a run that ended well leaves                                       *)

(* Past its answer a run has it in the checkpoint, and a run that failed    *)
(* has said so.                                                             *)
KeptOK ==
    /\ pc \in {"image", "recorded", "done"} => Ai(turn) \in Texts
    /\ pc = "failed" => Sent("error")
    /\ DoneMeansKept

KeptInv == SummaryInv /\ FramesInv /\ KeptOK

(* A run ends without an error only from behind its answer. *)
LEMMA KeptNext ==
  ASSUME KeptInv, [Next]_vars
  PROVE  KeptOK'
<1> USE DEF KeptInv, KeptOK
<1>1. CASE \E image \in BOOLEAN : StartRun(image)
  BY <1>1 DEF StartRun, DoneMeansKept
<1>2. CASE TitleStep
  <2>1. UNCHANGED <<pc, cp, turn>> /\ pc \in {"profiler", "profiled"}
    BY <1>2 DEF TitleStep, TitleAttempt, TitleAsk, TitlePersist, TitleAnnounce,
                FramesInv, TitleInv, BranchOK
  <2> QED
    BY <2>1 DEF DoneMeansKept
<1>3. CASE \/ Profile \/ EndSuperstep1 \/ Summarize \/ Orchestrate
           \/ PrepareQuery \/ HybridSearch \/ Rerank \/ TrendScout \/ RetrievalFails
           \/ Token \/ Synthesize
  <2>1. pc' \notin {"image", "recorded", "done", "failed", "idle"}
    BY <1>3 DEF Profile, EndSuperstep1, Summarize, Orchestrate, PrepareQuery, HybridSearch,
                Rerank, TrendScout, RetrievalFails, Retrieved, Token, Synthesize, GoNext
  <2> QED
    BY <2>1 DEF DoneMeansKept
<1>4. CASE Commit
  <2>1. Ai(turn)' \in Texts' /\ pc' \notin {"failed", "idle"}
    BY <1>4, SummaryCommit DEF Commit, GoNext, Ai
  <2> QED
    BY <2>1 DEF DoneMeansKept
<1>5. CASE ImageSkip \/ ImageFails \/ ImageInsert \/ ImageReady
  <2>1. UNCHANGED <<cp, turn>> /\ pc \in {"image", "recorded"} /\ pc' \in {"recorded", "done"}
    BY <1>5 DEF ImageSkip, ImageFails, ImageInsert, ImageReady
  <2> QED
    BY <2>1 DEF DoneMeansKept, Texts, Ai
<1>6. CASE LimitReached \/ NodeFails
  <2>1. /\ Emit("error", turn) /\ pc' = "failed" /\ stream \in Seq(Frames)
        /\ turn \in Turns
    BY <1>6 DEF LimitReached, NodeFails, RunFails, FramesInv, TitleInv, WeakTypeOK
  <2>2. Sent("error")'
    <3> DEFINE f == [type |-> "error", of |-> turn]
    <3>1. f \in Frames /\ f.type = "error"
      BY <2>1, ConversationAssumption DEF Frames, FrameTypes, Turns
    <3> HIDE DEF f
    <3>2. /\ Len(stream) + 1 \in DOMAIN Append(stream, f)
          /\ Append(stream, f)[Len(stream) + 1] = f
      BY <2>1, <3>1, AppendProperties
    <3> QED
      BY <2>1, <3>1, <3>2 DEF Emit, Sent, f
  <2> QED
    BY <2>1, <2>2 DEF DoneMeansKept
<1>7. CASE EndRun
  <2>1. /\ Emit("end", turn) /\ UNCHANGED <<cp, turn>> /\ pc' = "idle"
        /\ pc \in {"done", "failed"} /\ stream \in Seq(Frames) /\ turn \in Turns
    BY <1>7 DEF EndRun, FramesInv, TitleInv, WeakTypeOK
  <2>2. CASE pc = "done"
    BY <2>1, <2>2 DEF DoneMeansKept, Texts, Ai
  <2>3. CASE pc = "failed"
    <3> DEFINE f == [type |-> "end", of |-> turn]
    <3>1. f \in Frames
      BY <2>1, ConversationAssumption DEF Frames, FrameTypes, Turns
    <3> HIDE DEF f
    <3>2. \A i \in DOMAIN stream : /\ i \in DOMAIN Append(stream, f)
                                   /\ Append(stream, f)[i] = stream[i]
      BY <2>1, <3>1, AppendProperties
    <3>3. Sent("error")'
      BY <2>1, <2>3, <3>2 DEF Emit, Sent, f
    <3> QED
      BY <2>1, <3>3 DEF DoneMeansKept
  <2> QED
    BY <2>1, <2>2, <2>3
<1>8. CASE UNCHANGED vars
  BY <1>8 DEF vars, DoneMeansKept, Sent, Texts, Ai
<1> QED
  BY <1>1, <1>2, <1>3, <1>4, <1>5, <1>6, <1>7, <1>8 DEF Next, MainStep

(* An answer the client saw as done, in a run without an error, is in the   *)
(* checkpoint, for every setting and every number of turns and faults.      *)
THEOREM DoneIsKept == Spec => []DoneMeansKept
<1>1. Init => KeptInv
  BY SummaryInit, FramesInit DEF Init, KeptInv, KeptOK, DoneMeansKept, Sent
<1>2. KeptInv /\ [Next]_vars => KeptInv'
  BY SummaryNext, FramesNext, KeptNext DEF KeptInv
<1>3. KeptInv => DoneMeansKept
  BY DEF KeptInv, KeptOK
<1> QED
  BY <1>1, <1>2, <1>3, PTL DEF Spec

-----------------------------------------------------------------------------
(* The title                                                               *)

Listings == Texts \cup cp.summary

(* The run is on, and its branch has no title to report. *)
NotMaking == pc \in MainPC /\ titlePc \notin {"announce", "made"}

(* The title of an answered turn has the flag, and so has the title of this *)
(* turn once its branch is over: the answer and the flag cannot come apart. *)
FlagOK ==
    /\ row.title <= turn
    /\ row.title # 0 /\ Ai(row.title) \in Listings => cp.titled
    /\ row.title = turn /\ turn > 0 /\ NotMaking => cp.titled

FlagInv == SummaryInv /\ FlagOK

(* While a question is the last message, it has no answer yet. *)
LEMMA NoAnswerYet ==
  ASSUME SummaryInv, pc \in Unanswered, turn > 0
  PROVE  Ai(turn) \notin Listings
<1> SUFFICES ASSUME Ai(turn) \in Listings PROVE FALSE
  OBVIOUS
<1> DEFINE m == cp.messages
<1>1. /\ turn \in Turns /\ turn \in Nat /\ Listed(m) /\ m \in Seq(Message)
      /\ m # <<>> /\ m[Len(m)] = Human(turn)
  BY ConversationAssumption
  DEF SummaryInv, TitleInv, WeakTypeOK, MessagesOK, Listed, Turns
<1>2. Len(m) \in Nat /\ Len(m) \in DOMAIN m /\ DOMAIN m = 1 .. Len(m)
  BY <1>1, EmptySeq
<1>3. Human(turn) \in Texts
  BY <1>1, <1>2 DEF Texts
<1>4. Ai(turn) \in Texts
  BY <1>1, <1>3, MessageKinds DEF SummaryInv, SummaryTakesWholeTurns, Listings
<1>5. PICK i \in DOMAIN m : m[i] = Ai(turn)
  BY <1>4 DEF Texts
<1>6. i # Len(m)
  BY <1>1, <1>5, MessageKinds
<1>7. Before(Ai(turn), Human(turn))
  BY <1>1, <1>2, <1>5, <1>6 DEF Listed
<1> QED
  BY <1>1, <1>7, MessageKinds DEF Before

(* Only a step that writes a message or a title, or by which a run comes     *)
(* past its branch, can disturb FlagOK.                                      *)
LEMMA FlagKept ==
  ASSUME FlagOK, UNCHANGED turn, row'.title = row.title, cp.titled => cp'.titled,
         Listings' = Listings,
         NotMaking' => NotMaking
  PROVE  FlagOK'
<1>1. row'.title <= turn'
  BY DEF FlagOK
<1>2. row'.title # 0 /\ Ai(row'.title) \in Listings' => cp'.titled
  BY DEF FlagOK
<1>3. row'.title = turn' /\ turn' > 0 /\ NotMaking' => cp'.titled
  BY DEF FlagOK
<1> QED
  BY <1>1, <1>2, <1>3 DEF FlagOK

LEMMA FlagNext ==
  ASSUME FlagInv, [Next]_vars
  PROVE  FlagOK'
<1>0. /\ turn \in Nat /\ turn \in Turns /\ row.title \in Nat /\ row.title \in Turns
      /\ {"titled", "messages", "summary"} \subseteq DOMAIN cp
      /\ row \in Row /\ row.title <= turn /\ FlagOK
  BY ConversationAssumption
  DEF FlagInv, FlagOK, SummaryInv, TitleInv, WeakTypeOK, MessagesOK, Row, Turns
<1>1. ASSUME NEW image \in BOOLEAN, StartRun(image)
      PROVE  FlagOK'
  <2>1. /\ turn' = turn + 1 /\ row' = row
        /\ cp.titled => cp'.titled
        /\ cp'.summary = cp.summary
    BY <1>0, <1>1 DEF StartRun
  <2>2. Listings' = Listings \cup {Human(turn + 1)}
    BY <1>1, <2>1, SummaryStart DEF FlagInv, Listings
  <2>3. Ai(row.title) # Human(turn + 1)
    BY DEF Ai, Human
  <2>4. row'.title <= turn' /\ row'.title # turn'
    BY <1>0, <2>1
  <2>5. row'.title # 0 /\ Ai(row'.title) \in Listings' => cp'.titled
    BY <1>0, <2>1, <2>2, <2>3 DEF FlagOK
  <2> QED
    BY <2>4, <2>5 DEF FlagOK
<1>2. CASE TitlePersist
  <2>1. /\ pc \in Unanswered /\ turn > 0 /\ UNCHANGED <<turn, cp, pc>>
        /\ titlePc' = "announce" /\ row'.title = turn
    BY <1>0, <1>2 DEF TitlePersist, FlagInv, SummaryInv, TitleInv, BranchOK, Unanswered, Row
  <2>2. Ai(turn) \notin Listings
    BY <2>1, NoAnswerYet DEF FlagInv
  <2>3. Ai(row'.title) \notin Listings'
    BY <2>1, <2>2 DEF Listings, Texts
  <2>4. row'.title <= turn'
    BY <1>0, <2>1
  <2> QED
    BY <2>1, <2>3, <2>4 DEF FlagOK, NotMaking
<1>3. CASE TitleAttempt \/ TitleAsk \/ TitleAnnounce
  <2>1. /\ UNCHANGED <<turn, cp, pc>> /\ row'.title = row.title
        /\ titlePc' \notin {"announce", "made"} => titlePc \notin {"announce", "made"}
    BY <1>0, <1>3 DEF TitleAttempt, TitleAsk, TitleAnnounce, Row
  <2>2. Listings' = Listings
    BY <2>1 DEF Listings, Texts
  <2> QED
    BY <1>0, <2>1, <2>2, FlagKept DEF NotMaking
<1>4. CASE EndSuperstep1
  <2>1. /\ UNCHANGED <<turn, row>> /\ pc \in MainPC
        /\ titlePc \in {"made", "skipped"}
        /\ cp.titled \/ titlePc = "made" => cp'.titled
        /\ cp'.messages = cp.messages /\ cp'.summary = cp.summary
    BY <1>0, <1>4 DEF EndSuperstep1, MainPC
  <2>2. Listings' = Listings
    BY <2>1 DEF Listings, Texts
  <2>3. CASE titlePc = "made"
    BY <1>0, <2>1, <2>3 DEF FlagOK
  <2>4. CASE titlePc = "skipped"
    BY <1>0, <2>1, <2>2, <2>4, FlagKept DEF NotMaking
  <2> QED
    BY <2>1, <2>3, <2>4
<1>5. CASE Summarize
  <2>1. UNCHANGED <<turn, row, titlePc>> /\ pc \in MainPC /\ (cp.titled => cp'.titled)
    BY <1>0, <1>5 DEF Summarize, MainPC
  <2>2. Listings' = Listings
    BY <1>5, SummaryFold DEF FlagInv, Listings
  <2> QED
    BY <1>0, <2>1, <2>2, FlagKept DEF NotMaking
<1>6. CASE Commit
  <2>1. /\ UNCHANGED <<turn, row, titlePc>> /\ pc \in MainPC /\ pc = "answered"
        /\ cp.titled => cp'.titled
        /\ cp'.summary = cp.summary
    BY <1>0, <1>6 DEF Commit, MainPC
  <2>2. turn > 0 \/ row.title # turn \/ row.title = 0
    BY <1>0
  <2>3. titlePc = "off"
    BY <1>0, <2>1 DEF FlagInv, SummaryInv, TitleInv, BranchOK
  <2>4. Listings' = Listings \cup {Ai(turn)}
    BY <1>6, <2>1, SummaryCommit DEF FlagInv, Listings
  <2>5. Ai(row.title) = Ai(turn) => row.title = turn
    BY <1>0, MessageKinds
  <2>6. row.title # 0 /\ row.title = turn => cp.titled
    BY <1>0, <2>1, <2>2, <2>3 DEF FlagOK, NotMaking
  <2>7. row'.title # 0 /\ Ai(row'.title) \in Listings' => cp'.titled
    BY <1>0, <2>1, <2>4, <2>5, <2>6 DEF FlagOK
  <2>8. row'.title = turn' /\ turn' > 0 => cp'.titled
    BY <1>0, <2>1, <2>6
  <2> QED
    BY <1>0, <2>1, <2>7, <2>8 DEF FlagOK
<1>7. CASE \/ Profile \/ Orchestrate \/ PrepareQuery \/ HybridSearch \/ Rerank \/ TrendScout
           \/ RetrievalFails \/ Token \/ Synthesize
           \/ ImageSkip \/ ImageFails \/ ImageInsert \/ ImageReady
  <2>1. /\ UNCHANGED <<turn, row, titlePc>> /\ pc \in MainPC /\ (cp.titled => cp'.titled)
        /\ cp'.messages = cp.messages /\ cp'.summary = cp.summary
    BY <1>0, <1>7 DEF Profile, Orchestrate, PrepareQuery, HybridSearch, Rerank, TrendScout,
         RetrievalFails, Retrieved, Token, Synthesize, ImageSkip, ImageFails, ImageInsert,
         ImageReady, GoNext, MainPC
  <2>2. Listings' = Listings
    BY <2>1 DEF Listings, Texts
  <2> QED
    BY <1>0, <2>1, <2>2, FlagKept DEF NotMaking
<1>8. CASE LimitReached \/ NodeFails \/ EndRun
  <2>1. UNCHANGED <<turn, row, cp>> /\ pc' \notin MainPC
    BY <1>8 DEF LimitReached, NodeFails, RunFails, EndRun, MainPC
  <2>2. Listings' = Listings
    BY <2>1 DEF Listings, Texts
  <2> QED
    BY <1>0, <2>1, <2>2, FlagKept DEF NotMaking
<1>9. CASE UNCHANGED vars
  <2>1. Listings' = Listings
    BY <1>9 DEF vars, Listings, Texts
  <2> QED
    BY <1>0, <1>9, <2>1, FlagKept DEF vars, NotMaking
<1> QED
  BY <1>1, <1>2, <1>3, <1>4, <1>5, <1>6, <1>7, <1>8, <1>9 DEF Next, MainStep, TitleStep

(* The one statement that writes a title belongs to a run that met no flag. *)
LEMMA TitleReplaced ==
  ASSUME FlagInv, [Next]_vars, row.title # 0, row'.title # row.title
  PROVE  Ai(row.title) \notin Listings
<1>1. TitlePersist \/ row'.title = row.title
  BY TitleMain DEF Next, StartRun, TitleStep, TitleAttempt, TitleAsk, TitleAnnounce, vars,
                   FlagInv, SummaryInv, TitleInv, WeakTypeOK, Row
<1>2. ~cp.titled
  BY <1>1 DEF TitlePersist, FlagInv, SummaryInv, TitleInv, TitleOK
<1> QED
  BY <1>2 DEF FlagInv, FlagOK

(* Once a turn has been answered the title made in it stays, for every      *)
(* number of turns, attempts and faults: a title is replaced only if the    *)
(* turn that made it failed before it had an answer.                        *)
THEOREM TitleIsKept == Spec => TitleIsFinal
<1>1. Init => FlagInv
  <2>1. Init => row.title = 0 /\ turn = 0
    BY DEF Init
  <2> QED
    BY <2>1, SummaryInit DEF FlagInv, FlagOK
<1>2. FlagInv /\ [Next]_vars => FlagInv'
  BY SummaryNext, FlagNext DEF FlagInv
<1>3. FlagInv /\ [Next]_vars
        => [row.title # 0 /\ row'.title # row.title
               => Ai(row.title) \notin Texts \cup cp.summary]_vars
  BY TitleReplaced DEF Listings
<1> QED
  BY <1>1, <1>2, <1>3, PTL DEF Spec, TitleIsFinal

-----------------------------------------------------------------------------
(* Type correctness                                                        *)

TypeInv == KeptInv /\ TypeOK /\ (pc = "summarize" => steps = 2)

LEMMA TypeInit == Init => TypeOK
<1> SUFFICES ASSUME Init PROVE TypeOK
  OBVIOUS
<1>1. cp \in Checkpoint
  <2>1. <<>> \in Seq(Message)
    BY EmptySeq
  <2> QED
    BY <2>1, ConversationAssumption DEF Init, Checkpoint, Turns
<1>2. stream \in Seq(Frame)
  BY EmptySeq DEF Init
<1>3. row \in Row
  BY ConversationAssumption DEF Init, Row, Turns
<1>4. turn \in Turns /\ steps \in 0 .. StepLimit /\ faults \in 0 .. MaxFaults
  BY ConversationAssumption DEF Init, Turns
<1> QED
  BY <1>1, <1>2, <1>3, <1>4 DEF Init, TypeOK, TitlePC

(* There is a question on the list when an image is made for it. *)
LEMMA LastHumanTyped ==
  ASSUME KeptInv, pc = "image"
  PROVE  LastHuman(cp.messages) \in Message
<1> DEFINE m == cp.messages
           at == {i \in DOMAIN m : m[i].kind = "human"}
<1>1. m \in Seq(Message) /\ DOMAIN m = 1 .. Len(m) /\ Len(m) \in Nat
  BY DEF KeptInv, SummaryInv, MessagesOK, Listed
<1>2. m # <<>>
  BY DEF KeptInv, KeptOK, Texts
<1>3. 1 \in at
  BY <1>1, <1>2, EmptySeq DEF KeptInv, SummaryInv, SummaryTakesWholeTurns
<1>4. \E i \in at : \A j \in at : j <= i
  <2>1. at \subseteq 1 .. Len(m) /\ at # {}
    BY <1>1, <1>3
  <2> HIDE DEF at, m
  <2> QED
    BY <1>1, <2>1, GreatestExists
<1>5. LastHuman(m) \in {m[i] : i \in at}
  BY <1>4 DEF LastHuman
<1> QED
  BY <1>1, <1>5, ElementOfSeq

(* A frame of the list of types may be sent. *)
LEMMA EmitTyped ==
  ASSUME TypeOK, NEW type \in FrameTypes, NEW of \in Turns, Emit(type, of)
  PROVE  stream' \in Seq(Frame)
<1>1. [type |-> type, of |-> of] \in Frame
  BY DEF Frame, FrameTypes
<1> QED
  BY <1>1, AppendProperties DEF TypeOK, Emit

LEMMA TypeNext ==
  ASSUME TypeInv, [Next]_vars
  PROVE  TypeOK' /\ (pc' = "summarize" => steps' = 2)
<1> USE ConversationAssumption DEF TypeInv
<1>1. SummaryInv' /\ cp'.messages \in Seq(Message)
  BY SummaryNext DEF KeptInv, SummaryInv, MessagesOK, Listed
<1>2. ASSUME NEW image \in BOOLEAN, StartRun(image)
      PROVE  TypeOK' /\ pc' # "summarize"
  <2>1. stream' \in Seq(Frame)
    BY <1>2, EmptySeq DEF StartRun
  <2>2. cp' \in Checkpoint
    BY <1>1, <1>2 DEF StartRun, TypeOK, Checkpoint
  <2> QED
    BY <1>2, <2>1, <2>2 DEF StartRun, TypeOK, MainPC, TitlePC, Turns
<1>3. CASE TitleStep
  <2>1. stream' \in Seq(Frame)
    <3>1. CASE TitleAnnounce
      BY <1>3, <3>1, EmitTyped DEF TitleAnnounce, TypeOK, FrameTypes
    <3> QED
      BY <1>3, <3>1 DEF TypeOK, TitleStep, TitleAttempt, TitleAsk, TitlePersist
  <2>2. row' \in Row
    BY <1>3 DEF TypeOK, Row, TitleStep, TitleAttempt, TitleAsk, TitlePersist, TitleAnnounce
  <2> QED
    BY <1>3, <2>1, <2>2 DEF TypeOK, TitlePC, TitleStep, TitleAttempt, TitleAsk,
                            TitlePersist, TitleAnnounce
<1>4. CASE Profile \/ EndSuperstep1
  <2>1. CASE Profile
    BY <1>4, <2>1 DEF Profile, TypeOK, MainPC
  <2>2. CASE EndSuperstep1
    <3>1. cp' \in Checkpoint
      BY <2>2 DEF EndSuperstep1, TypeOK, Checkpoint
    <3> QED
      BY <2>2, <3>1 DEF EndSuperstep1, TypeOK, MainPC, TitlePC
  <2> QED
    BY <1>4, <2>1, <2>2
<1>5. CASE Summarize
  <2>1. cp'.summary \subseteq Message /\ cp' = [cp EXCEPT !.messages = cp'.messages,
                                                       !.summary = cp'.summary]
    BY <1>1, <1>5 DEF SummaryInv, MessagesOK, Summarize, TypeOK, Checkpoint
  <2>2. cp' \in Checkpoint
    BY <1>1, <2>1 DEF TypeOK, Checkpoint
  <2> QED
    BY <1>5, <2>2 DEF Summarize, TypeOK, MainPC
<1>6. CASE Orchestrate \/ PrepareQuery \/ HybridSearch \/ Rerank \/ TrendScout \/ RetrievalFails
  <2>1. cp' \in Checkpoint
    <3>1. \/ cp' = cp
          \/ \E t \in {0, turn} : \/ cp' = [cp EXCEPT !.products = t]
                                \/ cp' = [cp EXCEPT !.prompt = t]
      BY <1>6 DEF Orchestrate, PrepareQuery, HybridSearch, Rerank, TrendScout,
                  RetrievalFails, Retrieved
    <3>2. \A t \in {0, turn} : t \in Turns
      BY DEF TypeOK, Turns
    <3> QED
      BY <3>1, <3>2 DEF TypeOK, Checkpoint
  <2>2. CASE Orchestrate
    BY <2>1, <2>2 DEF Orchestrate, GoNext, TypeOK, MainPC
  <2>3. CASE PrepareQuery \/ HybridSearch
    BY <2>1, <2>3 DEF PrepareQuery, HybridSearch, Retrieved, GoNext, TypeOK, MainPC
  <2>4. CASE Rerank \/ TrendScout
    BY <2>1, <2>4 DEF Rerank, TrendScout, Retrieved, GoNext, TypeOK, MainPC
  <2>5. CASE RetrievalFails
    BY <2>1, <2>5 DEF RetrievalFails, Retrieved, GoNext, TypeOK, MainPC
  <2> QED
    BY <1>6, <2>2, <2>3, <2>4, <2>5
<1>7. CASE Token \/ Synthesize
  <2>1. stream' \in Seq(Frame)
    <3>1. CASE Token
      BY <3>1, EmitTyped DEF Token, TypeOK, FrameTypes
    <3>2. CASE Synthesize
      <4> DEFINE listed == IF cp.products = 0 THEN <<>>
                           ELSE <<[type |-> "products", of |-> cp.products]>>
                 done == <<[type |-> "done", of |-> turn]>>
      <4>1. /\ [type |-> "products", of |-> cp.products] \in Frame
            /\ [type |-> "done", of |-> turn] \in Frame
        BY DEF TypeOK, Checkpoint, Frame
      <4>2. listed \in Seq(Frame) /\ done \in Seq(Frame) /\ stream \in Seq(Frame)
        BY <4>1, EmptySeq DEF TypeOK
      <4>3. stream' = stream \o listed \o done
        BY <3>2 DEF Synthesize
      <4> HIDE DEF listed, done
      <4> QED
        BY <4>2, <4>3, ConcatProperties
    <3> QED
      BY <1>7, <3>1, <3>2
  <2> QED
    BY <1>7, <2>1 DEF Token, Synthesize, TypeOK, MainPC
<1>8. CASE Commit
  <2>1. cp' \in Checkpoint
    BY <1>1, <1>8 DEF Commit, TypeOK, Checkpoint
  <2> QED
    BY <1>8, <2>1 DEF Commit, GoNext, TypeOK, MainPC
<1>9. CASE ImageInsert
  <2>1. LastHuman(cp.messages) \in Message
    BY <1>9, LastHumanTyped DEF ImageInsert
  <2> QED
    BY <1>9, <2>1 DEF ImageInsert, TypeOK, MainPC, Image, Checkpoint
<1>10. CASE ImageSkip \/ ImageFails \/ ImageReady \/ LimitReached \/ NodeFails \/ EndRun
  <2>1. stream' \in Seq(Frame)
    BY <1>10, EmitTyped DEF ImageSkip, ImageFails, ImageReady, LimitReached, NodeFails,
                            RunFails, EndRun, TypeOK, Checkpoint, FrameTypes
  <2> QED
    BY <1>10, <2>1 DEF ImageSkip, ImageFails, ImageReady, LimitReached, NodeFails,
                       RunFails, EndRun, TypeOK, MainPC, TitlePC
<1>11. CASE UNCHANGED vars
  BY <1>11 DEF vars, TypeOK
<1> QED
  BY <1>2, <1>3, <1>4, <1>5, <1>6, <1>7, <1>8, <1>9, <1>10, <1>11 DEF Next, MainStep

(* Every variable keeps its type: the supersteps stay within the limit, the *)
(* list is one of messages after every cut, and an image names a message.   *)
THEOREM ConversationTypeCorrect == Spec => []TypeOK
<1>1. Init => TypeInv
  BY TypeInit, SummaryInit, FramesInit
     DEF Init, TypeInv, KeptInv, KeptOK, DoneMeansKept, Sent
<1>2. TypeInv /\ [Next]_vars => TypeInv'
  BY TypeNext, SummaryNext, FramesNext, KeptNext DEF TypeInv, KeptInv
<1>3. TypeInv => TypeOK
  BY DEF TypeInv
<1> QED
  BY <1>1, <1>2, <1>3, PTL DEF Spec
=============================================================================
