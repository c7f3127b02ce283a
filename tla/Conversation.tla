---------------------------- MODULE Conversation ----------------------------
(***************************************************************************)
(* The turns of one thread: the LangGraph run behind each chat request,    *)
(* what it leaves in the checkpoint and in PostgreSQL, and the frames it    *)
(* streams.  ThreadLifecycle shows that runs of a thread exclude each      *)
(* other; here they follow one another.                                    *)
(*                                                                         *)
(* LangGraph runs a graph in supersteps.  The tasks of a superstep read    *)
(* the checkpoint as the previous one left it, and their updates are       *)
(* applied together when all have returned; if one raises, or the run is   *)
(* cancelled, the updates of its superstep are gone, and the next run       *)
(* starts over at START with what the checkpoint holds.                    *)
(*                                                                         *)
(* What a model answers is a choice; a list of products, an image prompt   *)
(* and a title are abstracted to the turn they were made for, 0 for none.  *)
(***************************************************************************)
EXTENDS Integers, Sequences, FiniteSets

CONSTANTS
    SummarizeThreshold, SummarizeCount,  \* message_summarize_threshold, _count
    TitleAttempts,     \* title_generation_max_attempts
    MaxAgentSteps, FallbackThreshold,    \* the guard of the orchestrator
    StepLimit,         \* LangGraph's recursion limit, in supersteps
    MaxTurns,          \* bound: chat requests
    MaxFaults          \* bound: failing calls and timeouts

ASSUME ConversationAssumption ==
    /\ SummarizeCount \in Nat /\ SummarizeThreshold \in Nat
    /\ SummarizeCount < SummarizeThreshold
    /\ TitleAttempts \in Nat /\ MaxTurns \in Nat /\ MaxFaults \in Nat
    /\ StepLimit \in Nat \ {0, 1, 2} /\ MaxAgentSteps \in Nat /\ FallbackThreshold \in Nat

VARIABLES
    turn,      \* number of the current or last run
    wanted,    \* generate_image of its request
    pc,        \* the node its main branch is in
    titlePc,   \* the branch generate_title, in the superstep of the profiler
    steps,     \* supersteps the run has taken
    cp,        \* the checkpoint
    row,       \* the title columns of the threads row
    images,    \* generated_images rows
    stream,    \* frames of the current run
    faults     \* how much of the bound is spent

vars == <<turn, wanted, pc, titlePc, steps, cp, row, images, stream, faults>>

-----------------------------------------------------------------------------
Turns   == 0 .. MaxTurns
Message == [kind : {"human", "ai"}, turn : Turns]
Human(t) == [kind |-> "human", turn |-> t]
Ai(t)    == [kind |-> "ai", turn |-> t]

MainPC  == {"profiler", "profiled", "summarize", "orchestrate", "prepare",
            "search", "rerank", "trend", "synthesize", "answered", "image",
            "recorded", "done", "limit"}
TitlePC == {"off", "start", "ask", "persist", "announce", "made", "skipped"}

Checkpoint ==
    [messages : Seq(Message), summary : SUBSET Message, titled : BOOLEAN,
     products : Turns, prompt : Turns]

Row   == [title : Turns, attempts : Nat]
Image == [request : Message, prompt : Turns, made : Turns]  \* made: created_at
Frame == [type : {"token", "products", "image_ready", "image_failed",
                  "thread_title", "done", "error", "end"}, of : Turns]

Running == pc \in MainPC
Texts == {cp.messages[i] : i \in DOMAIN cp.messages}

\* put_nowait on a queue without a limit.
Emit(type, of) == stream' = Append(stream, [type |-> type, of |-> of])

Init ==
    /\ turn = 0 /\ wanted = FALSE
    /\ pc = "idle" /\ titlePc = "off" /\ steps = 0
    /\ cp = [messages |-> <<>>, summary |-> {}, titled |-> FALSE,
             products |-> 0, prompt |-> 0]
    /\ row = [title |-> 0, attempts |-> 0]
    /\ images = {} /\ stream = <<>> /\ faults = 0

-----------------------------------------------------------------------------
(* stream_run, up to the start of the graph                                *)

\* The input is the message, the flag and first_user_message, which is the
\* message of this request; the rest of the state is carried over.
StartRun(image) ==
    /\ pc = "idle" /\ turn < MaxTurns
    /\ turn' = turn + 1 /\ wanted' = image
    /\ cp' = [cp EXCEPT !.messages = Append(@, Human(turn + 1))]
    /\ pc' = "profiler" /\ titlePc' = "start" /\ steps' = 1
    /\ stream' = <<>>
    /\ UNCHANGED <<row, images, faults>>

-----------------------------------------------------------------------------
(* Superstep 1: profiler and generate_title                                *)

\* The profile is loaded, merged by the model and stored.
Profile ==
    /\ pc = "profiler" /\ pc' = "profiled"
    /\ UNCHANGED <<turn, wanted, titlePc, steps, cp, row, images, stream, faults>>

\* Slip: the flag of the checkpoint is not looked at.
TitleAttemptAlways ==
    /\ Running /\ titlePc = "start"
    /\ row' = [row EXCEPT !.attempts = @ + 1]
    /\ titlePc' = IF row.attempts + 1 > TitleAttempts THEN "persist" ELSE "ask"
    /\ UNCHANGED <<turn, wanted, pc, steps, cp, images, stream, faults>>

TitleAttempt ==
    /\ Running /\ titlePc = "start"
    /\ IF cp.titled
       THEN titlePc' = "skipped" /\ UNCHANGED row
       ELSE /\ row' = [row EXCEPT !.attempts = @ + 1]
            /\ titlePc' = IF row.attempts + 1 > TitleAttempts THEN "persist" ELSE "ask"
    /\ UNCHANGED <<turn, wanted, pc, steps, cp, images, stream, faults>>

\* A title, or an error, a timeout or nothing usable; the last three are left
\* for the next turn.
TitleAsk ==
    /\ titlePc = "ask"
    /\ titlePc' \in {"persist", "skipped"}
    /\ UNCHANGED <<turn, wanted, pc, steps, cp, row, images, stream, faults>>

TitlePersist ==
    /\ titlePc = "persist" /\ titlePc' = "announce"
    /\ row' = [row EXCEPT !.title = turn]
    /\ UNCHANGED <<turn, wanted, pc, steps, cp, images, stream, faults>>

TitleAnnounce ==
    /\ titlePc = "announce" /\ titlePc' = "made"
    /\ Emit("thread_title", turn)
    /\ UNCHANGED <<turn, wanted, pc, steps, cp, row, images, faults>>

\* Slip: the main branch goes on without waiting for the title.
EndSuperstep1Early ==
    /\ pc = "profiled"
    /\ cp' = [cp EXCEPT !.titled = @ \/ titlePc = "made"]
    /\ pc' = "summarize" /\ steps' = 2
    /\ UNCHANGED <<turn, wanted, titlePc, row, images, stream, faults>>

EndSuperstep1 ==
    /\ pc = "profiled" /\ titlePc \in {"made", "skipped"}
    /\ cp' = [cp EXCEPT !.titled = @ \/ titlePc = "made"]
    /\ pc' = "summarize" /\ steps' = 2 /\ titlePc' = "off"
    /\ UNCHANGED <<turn, wanted, row, images, stream, faults>>

-----------------------------------------------------------------------------
(* summarize                                                               *)

\* Slip: the cut is not walked back to a human message.
CutFixed(m) == SummarizeCount

\* The number of messages to fold: at most SummarizeCount, such that the first
\* one left is a human message; 0 if there is no such place.
Cut(m) ==
    LET cuts == {c \in 1 .. SummarizeCount : m[c + 1].kind = "human"}
    IN IF cuts = {} THEN 0 ELSE CHOOSE c \in cuts : \A d \in cuts : d <= c

Summarize ==
    /\ pc = "summarize" /\ pc' = "orchestrate" /\ steps' = steps + 1
    /\ LET m   == cp.messages
           cut == IF Len(m) < SummarizeThreshold THEN 0 ELSE Cut(m)
       IN cp' = [cp EXCEPT !.messages = SubSeq(m, cut + 1, Len(m)),
                           !.summary = @ \cup {m[i] : i \in 1 .. cut}]
    /\ UNCHANGED <<turn, wanted, titlePc, row, images, stream, faults>>

-----------------------------------------------------------------------------
(* orchestrate and the subagents                                           *)

\* Slip: the supersteps are not counted.
GoNextUncounted(node) == pc' = node /\ UNCHANGED steps

\* Slip: the supersteps are counted, and nobody compares them with the limit.
GoNextUnlimited(node) == pc' = node /\ steps' = steps + 1

\* The updates of a superstep are kept even if it was the last one allowed.
GoNext(node) == IF steps < StepLimit THEN pc' = node /\ steps' = steps + 1
                                     ELSE pc' = "limit" /\ UNCHANGED steps

\* Nobody sets configurable.remaining_steps: the guard compares two settings.
ForcedFallback == MaxAgentSteps <= FallbackThreshold

\* Four of the six intents, and whatever is not an intent, lead to synthesize.
Orchestrate ==
    /\ pc = "orchestrate"
    /\ \E node \in {"prepare", "trend", "synthesize"} :
          /\ ForcedFallback => node = "synthesize"
          /\ GoNext(node)
    /\ UNCHANGED <<turn, wanted, titlePc, cp, row, images, stream, faults>>

PrepareQuery ==
    /\ pc = "prepare" /\ pc' = "search"
    /\ UNCHANGED <<turn, wanted, titlePc, steps, cp, row, images, stream, faults>>

Retrieved(t) ==
    /\ cp' = [cp EXCEPT !.products = t]
    /\ GoNext("orchestrate")
    /\ UNCHANGED <<turn, wanted, titlePc, row, images, stream>>

\* There are candidates to rerank, or there are none.
HybridSearch ==
    /\ pc = "search" /\ UNCHANGED faults
    /\ \/ /\ pc' = "rerank"
          /\ UNCHANGED <<turn, wanted, titlePc, steps, cp, row, images, stream>>
       \/ Retrieved(0)

\* The best by the model's ranking, or by score if the model fails.
Rerank == pc = "rerank" /\ Retrieved(turn) /\ UNCHANGED faults

\* After three attempts the handlers go to "hybrid_search" and "llm_postprocess".
\* No nodes have these names: whether LangGraph follows the edge of the node that
\* failed, with the words of the user for the query, or the subgraph ends there,
\* is up to LangGraph.
RetrievalFails ==
    /\ faults < MaxFaults /\ faults' = faults + 1
    /\ \/ /\ pc = "prepare" /\ pc' = "search"
          /\ UNCHANGED <<turn, wanted, titlePc, steps, cp, row, images, stream>>
       \/ pc \in {"prepare", "search"} /\ Retrieved(0)

\* With a prompt or without; any exception counts as no prompt.
TrendScout ==
    /\ pc = "trend"
    /\ \E prompt \in {0, turn} : cp' = [cp EXCEPT !.prompt = prompt]
    /\ GoNext("orchestrate")
    /\ UNCHANGED <<turn, wanted, titlePc, row, images, stream, faults>>

-----------------------------------------------------------------------------
(* synthesize and generate_image                                           *)

\* Bound: one frame stands for all the tokens of an answer, which may have none.
Token ==
    /\ pc = "synthesize" /\ \A i \in DOMAIN stream : stream[i].type # "token"
    /\ Emit("token", turn)
    /\ UNCHANGED <<turn, wanted, pc, titlePc, steps, cp, row, images, faults>>

\* The last frames are put into the queue with no step of anybody in between.
Synthesize ==
    /\ pc = "synthesize" /\ pc' = "answered"
    /\ stream' = stream
         \o (IF cp.products = 0 THEN <<>>
             ELSE <<[type |-> "products", of |-> cp.products]>>)
         \o <<[type |-> "done", of |-> turn]>>
    /\ UNCHANGED <<turn, wanted, titlePc, steps, cp, row, images, faults>>

\* Slip: the answer is dropped when no text was streamed.
CommitTextOnly ==
    /\ pc = "answered" /\ GoNext("image")
    /\ cp' = IF \E i \in DOMAIN stream : stream[i].type = "token"
             THEN [cp EXCEPT !.messages = Append(@, Ai(turn))] ELSE cp
    /\ UNCHANGED <<turn, wanted, titlePc, row, images, stream, faults>>

Commit ==
    /\ pc = "answered" /\ GoNext("image")
    /\ cp' = [cp EXCEPT !.messages = Append(@, Ai(turn))]
    /\ UNCHANGED <<turn, wanted, titlePc, row, images, stream, faults>>

LastHuman(m) ==
    LET at == {i \in DOMAIN m : m[i].kind = "human"}
    IN m[CHOOSE i \in at : \A j \in at : j <= i]

ImageSkip ==
    /\ pc = "image" /\ (~wanted \/ cp.prompt = 0) /\ pc' = "done"
    /\ UNCHANGED <<turn, wanted, titlePc, steps, cp, row, images, stream, faults>>

\* The quota of the user is spent, perhaps in other threads; or the model, the
\* upload or the INSERT fails.
ImageFails ==
    /\ pc = "image" /\ wanted /\ cp.prompt # 0 /\ pc' = "done"
    /\ Emit("image_failed", turn)
    /\ UNCHANGED <<turn, wanted, titlePc, steps, cp, row, images, faults>>

\* Slip: the row refers to the first message instead of the last human one.
ImageForFirst ==
    /\ pc = "image" /\ wanted /\ cp.prompt # 0 /\ pc' = "recorded"
    /\ images' = images \cup {[request |-> cp.messages[1], prompt |-> cp.prompt,
                                 made |-> turn]}
    /\ UNCHANGED <<turn, wanted, titlePc, steps, cp, row, stream, faults>>

ImageInsert ==
    /\ pc = "image" /\ wanted /\ cp.prompt # 0 /\ pc' = "recorded"
    /\ images' = images \cup {[request |-> LastHuman(cp.messages), prompt |-> cp.prompt,
                                 made |-> turn]}
    /\ UNCHANGED <<turn, wanted, titlePc, steps, cp, row, stream, faults>>

ImageReady ==
    /\ pc = "recorded" /\ pc' = "done"
    /\ Emit("image_ready", cp.prompt)
    /\ UNCHANGED <<turn, wanted, titlePc, steps, cp, row, images, faults>>

-----------------------------------------------------------------------------
(* _run_graph: ways out of the graph                                       *)

RunFails ==
    /\ pc' = "failed" /\ titlePc' = "off"
    /\ Emit("error", turn)
    /\ UNCHANGED <<turn, wanted, steps, cp, row, images>>

\* A node raises, or the timeout cancels the run wherever it is.
NodeFails ==
    /\ faults < MaxFaults /\ faults' = faults + 1
    /\ Running /\ RunFails

LimitReached ==
    /\ pc = "limit" /\ RunFails /\ UNCHANGED faults

\* The thread is idle again, and the sentinel closes the stream.
EndRun ==
    /\ pc \in {"done", "failed"} /\ pc' = "idle"
    /\ Emit("end", turn)
    /\ UNCHANGED <<turn, wanted, titlePc, steps, cp, row, images, faults>>

-----------------------------------------------------------------------------
TitleStep == TitleAttempt \/ TitleAsk \/ TitlePersist \/ TitleAnnounce

MainStep ==
    \/ Profile \/ EndSuperstep1 \/ Summarize \/ Orchestrate
    \/ PrepareQuery \/ HybridSearch \/ Rerank \/ TrendScout
    \/ Token \/ Synthesize \/ Commit
    \/ ImageSkip \/ ImageFails \/ ImageInsert \/ ImageReady
    \/ LimitReached \/ EndRun

Next == \/ \E image \in BOOLEAN : StartRun(image)
        \/ TitleStep \/ MainStep \/ RetrievalFails \/ NodeFails

\* Each node comes to an answer or to an error of its own, or chat_run_timeout
\* ends it; nobody has to send a request.
Spec == Init /\ [][Next]_vars /\ WF_vars(MainStep) /\ WF_vars(TitleStep)

-----------------------------------------------------------------------------
(* Properties                                                              *)

TypeOK ==
    /\ turn \in Turns /\ wanted \in BOOLEAN
    /\ pc \in MainPC \cup {"idle", "failed"} /\ titlePc \in TitlePC
    /\ steps \in 0 .. StepLimit
    /\ cp \in Checkpoint /\ row \in Row
    /\ images \in SUBSET Image /\ stream \in Seq(Frame)
    /\ faults \in 0 .. MaxFaults

(* Whatever runs failed before, no message of a request is lost, and the    *)
(* summary takes in whole turns only: what is left starts with a human      *)
(* message, and no answer is separated from its question.                   *)
SummaryTakesWholeTurns ==
    /\ \A t \in 1 .. turn : Human(t) \in Texts \cup cp.summary
    /\ cp.messages # <<>> => cp.messages[1].kind = "human"
    /\ \A m \in Texts \cup cp.summary :
          m.kind = "ai" => (m \in Texts <=> Human(m.turn) \in Texts)

Rank == [thread_title |-> 1, token |-> 2, products |-> 3, done |-> 4,
         image_ready |-> 5, image_failed |-> 5, error |-> 6, end |-> 7]

(* The two branches of a run and its error path write into one queue, and  *)
(* still the code gives the frames one order: the title before the answer,  *)
(* for the superstep ends with both branches, one done at most, an image    *)
(* after it, nothing after an error, and the sentinel last, when the run is *)
(* over.  The documents want it otherwise in places: the title after the    *)
(* answer (generate_title.py:9-13), the image before done (FR-069), no done *)
(* in a run with an error (schemas/chat.py:139-141).                        *)
FramesInOrder ==
    /\ \A i, j \in DOMAIN stream : i < j => Rank[stream[i].type] < Rank[stream[j].type]
    /\ turn > 0 => (pc = "idle" <=> \E i \in DOMAIN stream : stream[i].type = "end")

Sent(type) == \E i \in DOMAIN stream : stream[i].type = type

(* An answer that was reported as done, in a run that reported no error, is *)
(* in the checkpoint when the thread is idle again, with or without text.   *)
DoneMeansKept ==
    pc = "idle" /\ Sent("done") /\ ~Sent("error") => Ai(turn) \in Texts

(* Each turn starts the branch again, and the flag that stops it and the    *)
(* title are stored apart: a title is replaced only if the turn that made   *)
(* it came to no answer, having failed before a checkpoint had the flag.    *)
(* (In that case it is, though FR-024 and generate_title.py:17-19 have the  *)
(* title made once, and state.py:65-66 the flag read from the row.)         *)
TitleIsFinal ==
    [][row.title # 0 /\ row'.title # row.title
          => Ai(row.title) \notin Texts \cup cp.summary]_vars

(* Every run comes to an end, and with it the stream of its client, though  *)
(* the model may ask for a subagent again and again.                        *)
RunEnds == Running ~> pc = "idle"
=============================================================================
