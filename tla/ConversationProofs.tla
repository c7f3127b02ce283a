------------------------- MODULE ConversationProofs -------------------------
(***************************************************************************)
(* Theorems about Conversation for every number of turns and faults and    *)
(* every setting: the branch of the title, and the order of the frames.     *)
(***************************************************************************)
EXTENDS Conversation, SequenceTheorems, TLAPS

(* The part of TypeOK the arguments need; what a summary leaves of the     *)
(* messages does not matter to them.                                        *)
WeakTypeOK ==
    /\ turn \in Turns
    /\ pc \in MainPC \cup {"idle", "failed"} /\ titlePc \in TitlePC
    /\ {"titled", "products", "prompt"} \subseteq DOMAIN cp
    /\ cp.titled \in BOOLEAN /\ cp.products \in Nat /\ cp.prompt \in Nat
    /\ row \in Row

(* The branch that makes titles is over when superstep 1 is.               *)
BranchOK ==
    titlePc # "off" => pc \in {"profiler", "profiled"} /\ turn > 0

(* Only a run that met no title in the checkpoint makes one, and the row    *)
(* has it before the frame and the flag say so.                             *)
TitleOK ==
    /\ cp.titled => row.title # 0
    /\ titlePc \in {"ask", "persist", "announce", "made"} => ~cp.titled
    /\ titlePc \in {"announce", "made"} => row.title # 0

TitleInv == WeakTypeOK /\ BranchOK /\ TitleOK

-----------------------------------------------------------------------------
(* The title                                                               *)

LEMMA TitleInit == Init => TitleInv
BY ConversationAssumption
DEF Init, TitleInv, WeakTypeOK, BranchOK, TitleOK, MainPC, TitlePC, Row, Turns

(* A request starts the branch afresh. *)
LEMMA TitleStart ==
  ASSUME TitleInv, NEW image \in BOOLEAN, StartRun(image)
  PROVE  TitleInv'
<1> USE DEF TitleInv, StartRun
<1>1. WeakTypeOK'
  BY ConversationAssumption DEF WeakTypeOK, MainPC, TitlePC, Turns
<1>2. BranchOK' /\ TitleOK'
  BY ConversationAssumption DEF WeakTypeOK, BranchOK, TitleOK, Turns
<1> QED
  BY <1>1, <1>2

(* The steps of the branch itself. *)
LEMMA TitleBranch ==
  ASSUME TitleInv, TitleStep
  PROVE  TitleInv'
<1> USE DEF TitleInv, WeakTypeOK, BranchOK, TitleOK, TitlePC, Row, Turns
<1>1. CASE TitleAttempt
  BY <1>1 DEF TitleAttempt
<1>2. CASE TitleAsk
  BY <1>2 DEF TitleAsk
<1>3. CASE TitlePersist
  BY <1>3, ConversationAssumption DEF TitlePersist
<1>4. CASE TitleAnnounce
  BY <1>4 DEF TitleAnnounce
<1> QED
  BY <1>1, <1>2, <1>3, <1>4 DEF TitleStep

(* The main branch writes no title; the first superstep ends with the flag *)
(* only if the branch made one, and the branch is over then.                *)
LEMMA TitleMain ==
  ASSUME TitleInv, MainStep \/ RetrievalFails \/ NodeFails
  PROVE  TitleInv' /\ UNCHANGED row
<1> USE ConversationAssumption
    DEF TitleInv, WeakTypeOK, BranchOK, TitleOK, TitlePC, MainPC, GoNext, Turns
<1>1. CASE Profile \/ EndSuperstep1
  BY <1>1 DEF Profile, EndSuperstep1
<1>2. CASE Summarize
  <2>1. /\ UNCHANGED <<turn, titlePc, row>> /\ pc = "summarize" /\ pc' = "orchestrate"
        /\ DOMAIN cp' = DOMAIN cp
        /\ cp'.titled = cp.titled /\ cp'.products = cp.products /\ cp'.prompt = cp.prompt
    BY <1>2 DEF Summarize
  <2> QED
    BY <2>1
<1>3. CASE Orchestrate \/ PrepareQuery \/ HybridSearch \/ Rerank \/ TrendScout
  BY <1>3 DEF Orchestrate, PrepareQuery, HybridSearch, Rerank, TrendScout, Retrieved
<1>4. CASE Token \/ Synthesize \/ Commit
  BY <1>4 DEF Token, Synthesize, Commit
<1>5. CASE ImageSkip \/ ImageFails \/ ImageInsert \/ ImageReady
  BY <1>5 DEF ImageSkip, ImageFails, ImageInsert, ImageReady
<1>6. CASE LimitReached \/ EndRun \/ NodeFails
  BY <1>6 DEF LimitReached, EndRun, NodeFails, RunFails
<1>7. CASE RetrievalFails
  BY <1>7 DEF RetrievalFails, Retrieved
<1> QED
  BY <1>1, <1>2, <1>3, <1>4, <1>5, <1>6, <1>7 DEF MainStep

(* A step keeps the title of a thread whose checkpoint has the flag: the    *)
(* only statement that writes a title belongs to a run that met no flag.    *)
LEMMA TitleStepOK ==
  ASSUME TitleInv, [Next]_vars
  PROVE  /\ TitleInv'
         /\ cp.titled => row.title # 0 /\ row'.title = row.title
<1>1. ASSUME NEW image \in BOOLEAN, StartRun(image)
      PROVE  TitleInv' /\ UNCHANGED row
  BY <1>1, TitleStart DEF StartRun
<1>2. CASE TitleStep
  <2>1. cp.titled => row'.title = row.title
    BY <1>2 DEF TitleInv, WeakTypeOK, Row, TitleOK, TitleStep, TitleAttempt, TitleAsk,
                TitlePersist, TitleAnnounce
  <2> QED
    BY <1>2, <2>1, TitleBranch DEF TitleInv, TitleOK
<1>3. CASE MainStep \/ RetrievalFails \/ NodeFails
  BY <1>3, TitleMain DEF TitleInv, TitleOK
<1>4. CASE UNCHANGED vars
  BY <1>4 DEF vars, TitleInv, WeakTypeOK, BranchOK, TitleOK
<1> QED
  BY <1>1, <1>2, <1>3, <1>4 DEF Next, TitleInv, TitleOK

-----------------------------------------------------------------------------
(* The frames                                                              *)

FrameTypes == {"token", "products", "image_ready", "image_failed",
               "thread_title", "done", "error", "end"}

Frames == [type : FrameTypes, of : Nat]

Rising(s) == \A i, j \in DOMAIN s : i < j => Rank[s[i].type] < Rank[s[j].type]

(* No frame of rank r or above has been sent. *)
Below(s, r) == \A i \in DOMAIN s : Rank[s[i].type] < r

(* The rank no frame has reached while the run is at p. *)
Far(p) == CASE p = "synthesize" -> 3
            [] p \in {"answered", "image", "recorded", "limit"} -> 5
            [] p = "done" -> 6
            [] p = "failed" -> 7
            [] p = "idle" -> 8
            [] OTHER -> 2

(* How far the frames of a run have come, by where its branches are.        *)
FramesBounded ==
    /\ Below(stream, Far(pc))
    /\ titlePc \notin {"off", "made"} => Below(stream, 1)

(* The sentinel is there if the run is over; there is a run if there are    *)
(* frames.                                                                  *)
EndSent ==
    /\ pc = "idle" /\ turn > 0 => Sent("end")
    /\ pc # "idle" => turn > 0

FramesInv ==
    TitleInv /\ stream \in Seq(Frames) /\ Rising(stream) /\ FramesBounded /\ EndSent

LEMMA Ranks ==
  ASSUME NEW type \in FrameTypes
  PROVE  /\ Rank[type] \in 1 .. 7
         /\ (Rank[type] = 7) <=> (type = "end")
         /\ Rank[type] < 3 => type \in {"thread_title", "token"}
         /\ Rank["thread_title"] = 1 /\ Rank["token"] = 2 /\ Rank["products"] = 3
         /\ Rank["done"] = 4 /\ Rank["image_ready"] = 5 /\ Rank["image_failed"] = 5
         /\ Rank["error"] = 6 /\ Rank["end"] = 7
BY DEF Rank, FrameTypes

LEMMA FrameTyped ==
  ASSUME NEW s \in Seq(Frames), NEW i \in DOMAIN s
  PROVE  s[i].type \in FrameTypes
<1>1. s[i] \in Frames
  BY ElementOfSeq
<1> QED
  BY <1>1 DEF Frames

(* A queue that has come less far is below every higher rank too. *)
LEMMA BelowMore ==
  ASSUME NEW s \in Seq(Frames), NEW r \in Nat, NEW q \in Nat, r <= q, Below(s, r)
  PROVE  Below(s, q)
<1> SUFFICES ASSUME NEW i \in DOMAIN s PROVE Rank[s[i].type] < q
  BY DEF Below
<1>1. s[i].type \in FrameTypes
  BY FrameTyped
<1> QED
  BY <1>1, Ranks DEF Below

(* A frame of a rank above all before it keeps the order. *)
LEMMA AppendRises ==
  ASSUME NEW s \in Seq(Frames), Rising(s),
         NEW type \in FrameTypes, NEW of \in Nat, Below(s, Rank[type])
  PROVE  LET t == Append(s, [type |-> type, of |-> of])
         IN  /\ t \in Seq(Frames) /\ Rising(t) /\ Below(t, Rank[type] + 1)
             /\ \E i \in DOMAIN t : t[i].type = type
<1> DEFINE f == [type |-> type, of |-> of]
           t == Append(s, f)
<1>1. f \in Frames /\ f.type = type
  BY DEF Frames
<1>2. /\ t \in Seq(Frames) /\ Len(t) = Len(s) + 1
      /\ \A i \in 1 .. Len(s) : t[i] = s[i]
      /\ t[Len(s) + 1] = f
  BY <1>1, AppendProperties
<1>3. DOMAIN s = 1 .. Len(s) /\ DOMAIN t = 1 .. Len(s) + 1 /\ Len(s) \in Nat
  BY <1>2
<1> HIDE DEF f, t
<1>4. \A i \in DOMAIN t : \/ i \in DOMAIN s /\ t[i] = s[i]
                          \/ i = Len(s) + 1 /\ t[i] = f
  BY <1>2, <1>3
<1>5. Rising(t)
  <2> SUFFICES ASSUME NEW i \in DOMAIN t, NEW j \in DOMAIN t, i < j
               PROVE  Rank[t[i].type] < Rank[t[j].type]
    BY DEF Rising
  <2>1. i \in DOMAIN s /\ t[i] = s[i]
    BY <1>3, <1>4
  <2>2. CASE j \in DOMAIN s /\ t[j] = s[j]
    BY <2>1, <2>2 DEF Rising
  <2>3. CASE t[j] = f
    BY <2>1, <2>3, <1>1 DEF Below
  <2> QED
    BY <1>4, <2>2, <2>3
<1>6. Below(t, Rank[type] + 1)
  <2> SUFFICES ASSUME NEW i \in DOMAIN t
               PROVE  Rank[t[i].type] < Rank[type] + 1
    BY DEF Below
  <2>1. Rank[type] \in 1 .. 7
    BY Ranks
  <2>2. CASE i \in DOMAIN s /\ t[i] = s[i]
    <3>1. s[i].type \in FrameTypes
      BY <2>2, FrameTyped
    <3> QED
      BY <2>1, <2>2, <3>1, Ranks DEF Below
  <2>3. CASE t[i] = f
    BY <2>1, <2>3, <1>1
  <2> QED
    BY <1>4, <2>2, <2>3
<1>7. \E i \in DOMAIN t : t[i].type = type
  BY <1>1, <1>2, <1>3
<1> QED
  BY <1>2, <1>5, <1>6, <1>7 DEF t, f

LEMMA FarInNat ==
  ASSUME NEW p \in MainPC \cup {"idle", "failed"}
  PROVE  Far(p) \in 2 .. 8 /\ (p # "idle" => Far(p) <= 7)
BY DEF Far, MainPC

(* A step of a run that sends nothing, and after which more is allowed. *)
LEMMA Quiet ==
  ASSUME FramesInv, TitleInv', UNCHANGED <<stream, turn>>,
         pc # "idle", pc' # "idle", Far(pc) <= Far(pc'),
         titlePc' \notin {"off", "made"} => titlePc \notin {"off", "made"}
  PROVE  FramesInv'
<1>1. Far(pc) \in Nat /\ Far(pc') \in Nat
  BY FarInNat DEF FramesInv, TitleInv, WeakTypeOK
<1>2. Below(stream, Far(pc'))
  BY <1>1, BelowMore DEF FramesInv, FramesBounded
<1> QED
  BY <1>2 DEF FramesInv, FramesBounded, EndSent, Below, Rising

(* A step of a run that sends a frame of a rank above all before. *)
LEMMA Sends ==
  ASSUME FramesInv, TitleInv', UNCHANGED turn, pc # "idle",
         NEW type \in FrameTypes, NEW of \in Nat, Emit(type, of),
         Below(stream, Rank[type]), Rank[type] < Far(pc'),
         titlePc' \in {"off", "made"}, pc' = "idle" => type = "end"
  PROVE  FramesInv'
<1>1. /\ stream' \in Seq(Frames) /\ Rising(stream') /\ Below(stream', Rank[type] + 1)
      /\ \E i \in DOMAIN stream' : stream'[i].type = type
  BY AppendRises DEF FramesInv, Emit
<1>2. Far(pc') \in Nat /\ Rank[type] \in Nat
  BY FarInNat, Ranks DEF TitleInv, WeakTypeOK
<1>3. Below(stream', Far(pc'))
  BY <1>1, <1>2, BelowMore
<1>4. EndSent'
  BY <1>1 DEF FramesInv, EndSent, Sent
<1> QED
  BY <1>1, <1>3, <1>4 DEF FramesInv, FramesBounded, Below, Rising

LEMMA FramesInit == Init => FramesInv
<1> SUFFICES ASSUME Init PROVE FramesInv
  OBVIOUS
<1>1. stream = <<>> /\ stream \in Seq(Frames) /\ DOMAIN stream = {}
  BY DEF Init
<1> QED
  BY <1>1, TitleInit DEF Init, FramesInv, Rising, FramesBounded, Below, EndSent

(* A request starts with an empty queue. *)
LEMMA FramesStart ==
  ASSUME FramesInv, NEW image \in BOOLEAN, StartRun(image)
  PROVE  FramesInv'
<1>1. TitleInv'
  BY TitleStart DEF FramesInv
<1>2. stream' \in Seq(Frames) /\ DOMAIN stream' = {}
  BY DEF StartRun
<1>3. EndSent'
  BY DEF StartRun, EndSent, FramesInv, TitleInv, WeakTypeOK, Turns
<1> QED
  BY <1>1, <1>2, <1>3 DEF FramesInv, Rising, FramesBounded, Below

(* The branch sends the title before its superstep ends. *)
LEMMA FramesBranch ==
  ASSUME FramesInv, TitleStep
  PROVE  FramesInv'
<1>1. TitleInv'
  BY TitleBranch DEF FramesInv
<1>2. pc \in {"profiler", "profiled"} /\ UNCHANGED <<pc, turn>> /\ turn \in Nat
  BY DEF FramesInv, TitleInv, WeakTypeOK, BranchOK, Turns,
         TitleStep, TitleAttempt, TitleAsk, TitlePersist, TitleAnnounce
<1>3. Far(pc) = 2 /\ Far(pc') = 2
  BY <1>2 DEF Far
<1>4. CASE TitleAttempt \/ TitleAsk \/ TitlePersist
  <2>1. UNCHANGED stream /\ titlePc \notin {"off", "made"}
    BY <1>4 DEF TitleAttempt, TitleAsk, TitlePersist
  <2> QED
    BY <1>1, <1>2, <1>3, <2>1, Quiet
<1>5. CASE TitleAnnounce
  <2>1. Below(stream, Rank["thread_title"]) /\ Rank["thread_title"] = 1
    BY <1>5, Ranks DEF FramesInv, FramesBounded, TitleAnnounce, FrameTypes
  <2>2. Emit("thread_title", turn) /\ titlePc' = "made"
    BY <1>5 DEF TitleAnnounce
  <2> QED
    BY <1>1, <1>2, <1>3, <2>1, <2>2, Sends DEF FrameTypes
<1> QED
  BY <1>4, <1>5 DEF TitleStep

(* The steps of the main branch that send nothing. *)
LEMMA FramesQuiet ==
  ASSUME FramesInv,
         \/ Profile \/ EndSuperstep1 \/ Summarize \/ Orchestrate
         \/ PrepareQuery \/ HybridSearch \/ Rerank \/ TrendScout \/ RetrievalFails
         \/ Commit \/ ImageSkip \/ ImageInsert
  PROVE  FramesInv'
<1>1. TitleInv'
  BY TitleMain DEF FramesInv, MainStep
<1>2. UNCHANGED <<stream, turn>>
  BY DEF Profile, EndSuperstep1, Summarize, Orchestrate, PrepareQuery, HybridSearch,
         Rerank, TrendScout, RetrievalFails, Commit, ImageSkip, ImageInsert, Retrieved
<1>3. titlePc' \in {titlePc, "off"}
  BY DEF Profile, EndSuperstep1, Summarize, Orchestrate, PrepareQuery, HybridSearch,
         Rerank, TrendScout, RetrievalFails, Commit, ImageSkip, ImageInsert, Retrieved
<1>4. pc # "idle" /\ pc' # "idle" /\ Far(pc) <= Far(pc')
  <2> USE DEF Far, GoNext
  <2>1. CASE Profile \/ EndSuperstep1 \/ Summarize
    BY <2>1 DEF Profile, EndSuperstep1, Summarize
  <2>2. CASE Orchestrate
    BY <2>2 DEF Orchestrate
  <2>3. CASE PrepareQuery \/ HybridSearch \/ Rerank \/ TrendScout \/ RetrievalFails
    BY <2>3 DEF PrepareQuery, HybridSearch, Rerank, TrendScout, RetrievalFails, Retrieved
  <2>4. CASE Commit \/ ImageSkip \/ ImageInsert
    BY <2>4 DEF Commit, ImageSkip, ImageInsert
  <2> QED
    BY <2>1, <2>2, <2>3, <2>4
<1> QED
  BY <1>1, <1>2, <1>3, <1>4, Quiet

(* Tokens follow the title only; then come the products, and done. *)
LEMMA FramesAnswer ==
  ASSUME FramesInv, Token \/ Synthesize
  PROVE  FramesInv'
<1>1. TitleInv'
  BY TitleMain DEF FramesInv, MainStep
<1>2. /\ pc = "synthesize" /\ titlePc = "off" /\ UNCHANGED <<turn, titlePc>>
      /\ turn \in Nat /\ cp.products \in Nat
      /\ stream \in Seq(Frames) /\ Rising(stream) /\ Below(stream, 3)
  BY DEF FramesInv, FramesBounded, Far, TitleInv, WeakTypeOK, BranchOK, Turns,
         Token, Synthesize
<1>3. CASE Token
  <2>1. Below(stream, Rank["token"])
    BY <1>2, <1>3, FrameTyped, Ranks DEF Below, Token
  <2>2. Emit("token", turn) /\ Rank["token"] < Far(pc') /\ pc' # "idle"
    BY <1>2, <1>3, Ranks DEF Token, Far, FrameTypes
  <2> QED
    BY <1>1, <1>2, <2>1, <2>2, Sends DEF FrameTypes
<1>4. CASE Synthesize
  <2> DEFINE listed == [type |-> "products", of |-> cp.products]
             done == [type |-> "done", of |-> turn]
             before == IF cp.products = 0 THEN stream ELSE Append(stream, listed)
  <2>1. listed \in Frames /\ done \in Frames
    BY <1>2 DEF Frames, FrameTypes
  <2>2. stream' = Append(before, done)
    <3>1. stream \o <<>> = stream
      BY <1>2, ConcatEmptySeq
    <3>2. stream \o <<listed>> = Append(stream, listed)
      BY <1>2, <2>1, AppendIsConcat
    <3>3. before \in Seq(Frames)
      BY <1>2, <2>1, AppendProperties
    <3>4. before \o <<done>> = Append(before, done)
      BY <2>1, <3>3, AppendIsConcat
    <3> QED
      BY <1>4, <3>1, <3>2, <3>4 DEF Synthesize
  <2>3. before \in Seq(Frames) /\ Rising(before) /\ Below(before, Rank["done"])
    <3>1. Rank["products"] = 3 /\ Rank["done"] = 4
      BY Ranks DEF FrameTypes
    <3>2. CASE cp.products = 0
      BY <1>2, <3>1, <3>2, BelowMore
    <3>3. CASE cp.products # 0
      BY <1>2, <3>1, <3>3, AppendRises DEF FrameTypes
    <3> QED
      BY <3>2, <3>3
  <2>4. /\ stream' \in Seq(Frames) /\ Rising(stream')
        /\ Below(stream', 5) /\ Rank["done"] = 4
    <3> HIDE DEF before
    <3>1. "done" \in FrameTypes /\ Rank["done"] = 4
      BY Ranks DEF FrameTypes
    <3>2. LET t == Append(before, done)
          IN  t \in Seq(Frames) /\ Rising(t) /\ Below(t, Rank["done"] + 1)
      BY <1>2, <2>3, <3>1, AppendRises
    <3> QED
      BY <2>2, <3>1, <3>2
  <2>5. pc' = "answered" /\ Far(pc') = 5
    BY <1>4 DEF Synthesize, Far
  <2> QED
    BY <1>1, <1>2, <2>4, <2>5 DEF FramesInv, FramesBounded, Below, Rising, EndSent
<1> QED
  BY <1>3, <1>4

(* The frame of the image, the error, and the sentinel. *)
LEMMA FramesEnd ==
  ASSUME FramesInv, ImageFails \/ ImageReady \/ LimitReached \/ NodeFails \/ EndRun
  PROVE  FramesInv'
<1>1. TitleInv'
  BY TitleMain DEF FramesInv, MainStep
<1>2. /\ turn \in Nat /\ cp.prompt \in Nat /\ stream \in Seq(Frames) /\ UNCHANGED turn
      /\ Below(stream, Far(pc)) /\ Far(pc) \in 2 .. 8
  BY FarInNat DEF FramesInv, FramesBounded, TitleInv, WeakTypeOK, Turns,
                  ImageFails, ImageReady, LimitReached, NodeFails, EndRun, RunFails
<1>3. Rank["image_ready"] = 5 /\ Rank["image_failed"] = 5 /\ Rank["error"] = 6 /\ Rank["end"] = 7
  BY Ranks DEF FrameTypes
<1>4. titlePc' \in {"off", "made"}
  BY DEF FramesInv, TitleInv, BranchOK,
         ImageFails, ImageReady, LimitReached, NodeFails, EndRun, RunFails
<1>5. CASE ImageFails
  <2>1. Emit("image_failed", turn) /\ pc = "image" /\ pc' = "done"
    BY <1>5 DEF ImageFails
  <2>2. Far(pc) = 5 /\ Far(pc') = 6
    BY <2>1 DEF Far
  <2> QED
    BY <1>1, <1>2, <1>3, <1>4, <2>1, <2>2, Sends DEF FrameTypes
<1>6. CASE ImageReady
  <2>1. Emit("image_ready", cp.prompt) /\ pc = "recorded" /\ pc' = "done"
    BY <1>6 DEF ImageReady
  <2>2. Far(pc) = 5 /\ Far(pc') = 6
    BY <2>1 DEF Far
  <2> QED
    BY <1>1, <1>2, <1>3, <1>4, <2>1, <2>2, Sends DEF FrameTypes
<1>7. CASE LimitReached \/ NodeFails
  <2>1. Emit("error", turn) /\ pc \in MainPC /\ pc' = "failed"
    BY <1>7 DEF LimitReached, NodeFails, RunFails, Running, MainPC
  <2>2. Far(pc) <= 6 /\ Far(pc') = 7 /\ pc # "idle"
    BY <2>1 DEF Far, MainPC
  <2>3. Below(stream, 6)
    BY <1>2, <2>2, BelowMore
  <2> QED
    BY <1>1, <1>2, <1>3, <1>4, <2>1, <2>2, <2>3, Sends DEF FrameTypes
<1>8. CASE EndRun
  <2>1. Emit("end", turn) /\ pc \in {"done", "failed"} /\ pc' = "idle"
    BY <1>8 DEF EndRun
  <2>2. Far(pc) <= 7 /\ Far(pc') = 8 /\ pc # "idle"
    BY <2>1 DEF Far
  <2>3. Below(stream, 7)
    BY <1>2, <2>2, BelowMore
  <2> QED
    BY <1>1, <1>2, <1>3, <1>4, <2>1, <2>2, <2>3, Sends DEF FrameTypes
<1> QED
  BY <1>5, <1>6, <1>7, <1>8

LEMMA FramesNext ==
  ASSUME FramesInv, [Next]_vars
  PROVE  FramesInv'
<1>1. CASE \E image \in BOOLEAN : StartRun(image)
  BY <1>1, FramesStart
<1>2. CASE TitleStep
  BY <1>2, FramesBranch
<1>3. CASE MainStep \/ RetrievalFails \/ NodeFails
  BY <1>3, FramesQuiet, FramesAnswer, FramesEnd DEF MainStep
<1>4. CASE UNCHANGED vars
  <2>1. TitleInv'
    BY <1>4, TitleStepOK DEF FramesInv
  <2> QED
    BY <1>4, <2>1 DEF vars, FramesInv, FramesBounded, EndSent, Below, Rising, Sent
<1> QED
  BY <1>1, <1>2, <1>3, <1>4 DEF Next

(* The frames of a run are in the one order the code gives them, whatever   *)
(* its branches, the timeout and the errors do, and the sentinel is there   *)
(* exactly when the run is over.                                            *)
THEOREM FramesAreInOrder == Spec => []FramesInOrder
<1>1. FramesInv => FramesInOrder
  <2> SUFFICES ASSUME FramesInv PROVE FramesInOrder
    OBVIOUS
  <2>1. ASSUME pc # "idle" PROVE ~Sent("end")
    <3>1. Far(pc) \in 2 .. 7
      BY <2>1, FarInNat DEF FramesInv, TitleInv, WeakTypeOK
    <3>2. Rank["end"] = 7
      BY Ranks DEF FrameTypes
    <3> QED
      BY <3>1, <3>2 DEF FramesInv, FramesBounded, Below, Sent
  <2> QED
    BY <2>1 DEF FramesInOrder, FramesInv, Rising, EndSent, Sent
<1> QED
  BY <1>1, FramesInit, FramesNext, PTL DEF Spec
=============================================================================
