--------------------------- MODULE VoiceSession ---------------------------
(* The turn ids of one agent session: ArgusAgent's stt_node, llm_node and     *)
(* tts_node and the handler of typed text, in voice-agent/agent.py under      *)
(* src/files/ai-platform. The four run as tasks of one event loop and share   *)
(* the attribute _current_turn_id; a step here is what one of them does       *)
(* between two suspensions.                                                   *)
(*                                                                            *)
(* A turn mints at most one id, so the turn itself stands for its uuid. Every *)
(* node runs after some mint, so the fallback to a fresh uuid in llm_node and *)
(* tts_node is never taken. Publishing is fire-and-forget: an event counts as *)
(* emitted when its task is created, and what the data channel makes of it    *)
(* does not come back into the session.                                       *)
EXTENDS Naturals, FiniteSets

CONSTANTS
  Spoken,         \* turns the operator speaks
  Typed,          \* turns the operator types in the dashboard
  NoTurn,         \* _current_turn_id before the first mint
  MaxSteps        \* bound: generation steps (1 + tool calls) of each turn

ASSUME SessionAssumption ==
  /\ Spoken \cap Typed = {}
  /\ NoTurn \notin Spoken \cup Typed
  /\ MaxSteps \in [Spoken \cup Typed -> Nat \ {0}]

Turns == Spoken \cup Typed
Replies == UNION {{t} \X (1 .. MaxSteps[t]) : t \in Turns}
Nodes == Replies \X {"llm", "tts"}
Sources == Nodes \cup (Spoken \X {"stt"})

VARIABLES
  turn,           \* where each turn is, before any reply
  sttOn,          \* whether the generator stt_node is still running
  currentTurn,    \* the attribute _current_turn_id
  node,           \* state of every llm_node and tts_node invocation
  nodeTurn,       \* the local turn_id of that invocation
  events,         \* history: phase events emitted [source, id, edge]
  mints,          \* history: how many ids were minted
  stamp           \* history: the position of each turn's mint, 0 if none

vars == <<turn, sttOn, currentTurn, node, nodeTurn, events, mints, stamp>>

TurnStates == {"idle", "arrived", "transcribing", "failed", "queued"}
NodeStates == {"none", "running", "ended"}

TypeOK ==
  /\ turn \in [Turns -> TurnStates]
  /\ sttOn \in BOOLEAN
  /\ currentTurn \in Turns \cup {NoTurn}
  /\ node \in [Nodes -> NodeStates]
  /\ nodeTurn \in [Nodes -> Turns \cup {NoTurn}]
  /\ events \subseteq [source : Sources, id : Turns, edge : {"start", "end"}]
  /\ mints \in Nat
  /\ stamp \in [Turns -> Nat]

Init ==
  /\ turn = [t \in Turns |-> "idle"]
  /\ sttOn = TRUE
  /\ currentTurn = NoTurn
  /\ node = [n \in Nodes |-> "none"]
  /\ nodeTurn = [n \in Nodes |-> NoTurn]
  /\ events = {}
  /\ mints = 0
  /\ stamp = [t \in Turns |-> 0]

Emit(source, id, edge) ==
  events' = events \cup {[source |-> source, id |-> id, edge |-> edge]}

(* Assigning a new uuid to _current_turn_id.                                  *)
Mint(t) ==
  /\ currentTurn' = t
  /\ mints' = mints + 1
  /\ stamp' = [stamp EXCEPT ![t] = mints + 1]

----------------------------------------------------------------------------
(* Speech recognition. The adapter around the recogniser handles one          *)
(* utterance after the other: END_OF_SPEECH, the call, FINAL_TRANSCRIPT.      *)

Speaks(u) ==
  /\ turn[u] = "idle"
  /\ turn' = [turn EXCEPT ![u] = "arrived"]
  /\ UNCHANGED <<sttOn, currentTurn, node, nodeTurn, events, mints, stamp>>

Transcribing == {u \in Spoken : turn[u] = "transcribing"}

(* Mutant: the new id is used for the event and not stored.                   *)
EndOfSpeechNotStored(u) ==
  /\ sttOn /\ Transcribing = {}
  /\ turn[u] = "arrived"
  /\ turn' = [turn EXCEPT ![u] = "transcribing"]
  /\ mints' = mints + 1
  /\ stamp' = [stamp EXCEPT ![u] = mints + 1]
  /\ Emit(<<u, "stt">>, u, "start")
  /\ UNCHANGED <<sttOn, currentTurn, node, nodeTurn>>

EndOfSpeech(u) ==
  /\ sttOn /\ Transcribing = {}
  /\ turn[u] = "arrived"
  /\ turn' = [turn EXCEPT ![u] = "transcribing"]
  /\ Mint(u)
  /\ Emit(<<u, "stt">>, u, "start")
  /\ UNCHANGED <<sttOn, node, nodeTurn>>

FinalTranscript(u) ==
  /\ sttOn
  /\ turn[u] = "transcribing"
  /\ turn' = [turn EXCEPT ![u] = "queued"]
  /\ IF currentTurn = NoTurn THEN UNCHANGED events
     ELSE Emit(<<u, "stt">>, currentTurn, "end")
  /\ UNCHANGED <<sttOn, currentTurn, node, nodeTurn, mints, stamp>>

(* The except clause of stt_node: the operator is told, the generator ends,   *)
(* and the session does not start another one.                                *)
SttFails ==
  /\ sttOn
  /\ sttOn' = FALSE
  /\ turn' = [t \in Turns |-> IF turn[t] = "transcribing" THEN "failed" ELSE turn[t]]
  /\ UNCHANGED <<currentTurn, node, nodeTurn, events, mints, stamp>>

----------------------------------------------------------------------------
(* Typed text: _on_data_received creates a task, which mints and replies.     *)

TextArrives(t) ==
  /\ turn[t] = "idle"
  /\ turn' = [turn EXCEPT ![t] = "arrived"]
  /\ UNCHANGED <<sttOn, currentTurn, node, nodeTurn, events, mints, stamp>>

(* Mutant: a typed turn goes on under the id the session already has.         *)
HandleTextInheriting(t) ==
  /\ turn[t] = "arrived"
  /\ turn' = [turn EXCEPT ![t] = "queued"]
  /\ IF currentTurn = NoTurn THEN Mint(t)
     ELSE /\ mints' = mints + 1
          /\ stamp' = [stamp EXCEPT ![t] = mints + 1]
          /\ UNCHANGED currentTurn
  /\ UNCHANGED <<sttOn, node, nodeTurn, events>>

HandleTextInput(t) ==
  /\ turn[t] = "arrived"
  /\ turn' = [turn EXCEPT ![t] = "queued"]
  /\ Mint(t)
  /\ UNCHANGED <<sttOn, node, nodeTurn, events>>

----------------------------------------------------------------------------
(* The reply. The session runs one llm_node and one tts_node per generation   *)
(* step of a turn, the next step after a tool call of the one before. Steps   *)
(* of different turns may overlap.                                            *)

NodeStarts(n) ==
  /\ node[n] = "none"
  /\ currentTurn # NoTurn
  /\ node' = [node EXCEPT ![n] = "running"]
  /\ nodeTurn' = [nodeTurn EXCEPT ![n] = currentTurn]
  /\ Emit(n, currentTurn, "start")
  /\ UNCHANGED <<turn, sttOn, currentTurn, mints, stamp>>

LlmStarts(r) ==
  /\ turn[r[1]] = "queued"
  /\ r[2] > 1 => node[<<<<r[1], r[2] - 1>>, "llm">>] = "ended"
  /\ NodeStarts(<<r, "llm">>)

TtsStarts(r) ==
  /\ node[<<r, "llm">>] # "none"
  /\ NodeStarts(<<r, "tts">>)

(* Mutant: the finally clause reads the attribute again.                      *)
NodeEndsUnderCurrentTurn(n) ==
  /\ node[n] = "running"
  /\ node' = [node EXCEPT ![n] = "ended"]
  /\ currentTurn # NoTurn
  /\ Emit(n, currentTurn, "end")
  /\ UNCHANGED <<turn, sttOn, currentTurn, nodeTurn, mints, stamp>>

(* The finally clause: exhausted, failed (after the fallback chunk or the     *)
(* voice_error) or cancelled by an interruption, the phase is closed.         *)
NodeEnds(n) ==
  /\ node[n] = "running"
  /\ node' = [node EXCEPT ![n] = "ended"]
  /\ Emit(n, nodeTurn[n], "end")
  /\ UNCHANGED <<turn, sttOn, currentTurn, nodeTurn, mints, stamp>>

----------------------------------------------------------------------------
Next ==
  \/ \E u \in Spoken : Speaks(u) \/ EndOfSpeech(u) \/ FinalTranscript(u)
  \/ SttFails
  \/ \E t \in Typed : TextArrives(t) \/ HandleTextInput(t)
  \/ \E r \in Replies : LlmStarts(r) \/ TtsStarts(r)
  \/ \E n \in Nodes : NodeEnds(n)

Spec == Init /\ [][Next]_vars

(* The event loop runs what is ready, and a recognition call returns or       *)
(* raises: the client of the speech service has a timeout.                    *)
FairSpec ==
  /\ Spec
  /\ \A u \in Spoken : WF_vars(EndOfSpeech(u)) /\ WF_vars(FinalTranscript(u))
  /\ \A t \in Typed : WF_vars(HandleTextInput(t))
  /\ \A r \in Replies : WF_vars(LlmStarts(r)) /\ WF_vars(TtsStarts(r))
  /\ \A n \in Nodes : WF_vars(NodeEnds(n))

----------------------------------------------------------------------------
(* Properties.                                                                *)

Event(source, id, edge) == [source |-> source, id |-> id, edge |-> edge] \in events

(* However the turns overlap, an LLM or TTS phase that was opened for an id   *)
(* is closed for that id, once, and nothing is closed that was not opened:    *)
(* the dashboard never shows a phase of a finished node as running, nor loses *)
(* one of another turn (llm_node 390-406, tts_node 409-426).                  *)
PhasesClose ==
  \A n \in Nodes, id \in Turns :
    /\ Event(n, id, "end") <=> node[n] = "ended" /\ Event(n, id, "start")
    /\ Event(n, id, "start") <=> node[n] # "none" /\ nodeTurn[n] = id

(* No part of a reply is reported under a turn that began before the reply's  *)
(* own: not for a typed turn after a spoken one (comment at 538-540), not for *)
(* a spoken turn after another, not in a second generation step.              *)
NeverEarlierTurn ==
  \A n \in Nodes :
    node[n] # "none" => stamp[nodeTurn[n]] >= stamp[n[1][1]] /\ stamp[n[1][1]] > 0

(* A transcription is reported as ended under another id than it was started  *)
(* with only if a typed turn came between: END_OF_SPEECH mints at 370-373 and *)
(* FINAL_TRANSCRIPT reads at 374-377.                                         *)
OnlyTypingSplitsStt ==
  \A u \in Spoken, id \in Turns :
    Event(<<u, "stt">>, id, "end") /\ id # u =>
      /\ id \in Typed
      /\ stamp[id] > stamp[u]
      /\ Event(<<u, "stt">>, u, "start")

(* agent.py 381 tells the operator to try again in a few seconds: whatever is *)
(* said is transcribed, or answered by that message.                          *)
SpeechIsHeard ==
  \A u \in Spoken : turn[u] = "arrived" ~> turn[u] \in {"queued", "failed"}
=============================================================================
