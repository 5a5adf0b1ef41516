------------------------ MODULE VoiceSessionProofs ------------------------
(* Proofs about VoiceSession, for every set of turns and every number of      *)
(* generation steps. MintInv says that the attribute _current_turn_id is the  *)
(* latest id minted, which is why a node that reads it late can only be too   *)
(* new; SttInv says what can happen to it while an utterance is transcribed.  *)
EXTENDS VoiceSession, TLAPS

MintInv ==
  /\ currentTurn = NoTurn => mints = 0
  /\ currentTurn # NoTurn => stamp[currentTurn] = mints /\ mints > 0
  /\ \A t \in Turns : stamp[t] <= mints
  /\ \A t \in Turns : turn[t] \in {"idle", "arrived"} <=> stamp[t] = 0

ReplyInv ==
  \A n \in Nodes : node[n] # "none" => nodeTurn[n] # NoTurn /\ turn[n[1][1]] = "queued"

SttInv ==
  /\ \A u, v \in Transcribing : u = v
  /\ \A u \in Transcribing :
       /\ Event(<<u, "stt">>, u, "start")
       /\ currentTurn # u => currentTurn \in Typed /\ stamp[currentTurn] > stamp[u]
  /\ \A u \in Spoken, id \in Turns :
       Event(<<u, "stt">>, id, "end") => stamp[u] > 0 /\ stamp[id] > 0
  /\ OnlyTypingSplitsStt

IInv == TypeOK /\ MintInv /\ ReplyInv /\ NeverEarlierTurn /\ SttInv /\ PhasesClose

(* The session's steps, with the two ways of starting a node seen as one: a   *)
(* node starts only for a turn that waits for its reply.                      *)
Step ==
  \/ \E u \in Spoken : Speaks(u) \/ EndOfSpeech(u) \/ FinalTranscript(u)
  \/ SttFails
  \/ \E t \in Typed : TextArrives(t) \/ HandleTextInput(t)
  \/ \E n \in Nodes : NodeStarts(n) /\ turn[n[1][1]] = "queued"
  \/ \E n \in Nodes : NodeEnds(n)
  \/ UNCHANGED vars

(* Every step of the specification is such a Step.                            *)
LEMMA NextIsStep == IInv /\ [Next]_vars => Step
<1> SUFFICES ASSUME IInv, Next PROVE Step
  BY DEF Step
<1>1. ASSUME NEW r \in Replies, LlmStarts(r) PROVE Step
  <2>1. <<r, "llm">> \in Nodes /\ <<r, "llm">>[1] = r
    BY DEF Nodes
  <2> QED
    BY <1>1, <2>1 DEF Step, LlmStarts
<1>2. ASSUME NEW r \in Replies, TtsStarts(r) PROVE Step
  <2>1. <<r, "tts">> \in Nodes /\ <<r, "tts">>[1] = r
    BY DEF Nodes
  <2>2. <<r, "llm">> \in Nodes /\ <<r, "llm">>[1] = r
    BY DEF Nodes
  <2>3. turn[r[1]] = "queued"
    BY <1>2, <2>2 DEF TtsStarts, IInv, ReplyInv
  <2> QED
    BY <1>2, <2>1, <2>3 DEF Step, TtsStarts
<1> QED
  BY <1>1, <1>2 DEF Next, Step

(* Every step keeps the types; a node that ends has read an id.               *)
LEMMA TypeStep == IInv /\ Step => TypeOK'
<1> SUFFICES ASSUME IInv, Step PROVE TypeOK'
  OBVIOUS
<1> USE DEF IInv, TypeOK, TurnStates, NodeStates, ReplyInv, MintInv
<1> USE SessionAssumption
<1>1. ASSUME NEW u \in Spoken, Speaks(u) PROVE TypeOK'
  BY <1>1 DEF Speaks, Turns, Sources
<1>2. ASSUME NEW u \in Spoken, EndOfSpeech(u) PROVE TypeOK'
  BY <1>2 DEF EndOfSpeech, Mint, Emit, Turns, Sources
<1>3. ASSUME NEW u \in Spoken, FinalTranscript(u) PROVE TypeOK'
  BY <1>3 DEF FinalTranscript, Emit, Turns, Sources
<1>4. CASE SttFails
  BY <1>4 DEF SttFails, Turns, Sources
<1>5. ASSUME NEW t \in Typed, TextArrives(t) PROVE TypeOK'
  BY <1>5 DEF TextArrives, Turns, Sources
<1>6. ASSUME NEW t \in Typed, HandleTextInput(t) PROVE TypeOK'
  BY <1>6 DEF HandleTextInput, Mint, Turns, Sources
<1>7. ASSUME NEW n \in Nodes, NodeStarts(n), turn[n[1][1]] = "queued" PROVE TypeOK'
  BY <1>7 DEF NodeStarts, Emit, Turns, Sources
<1>8. ASSUME NEW n \in Nodes, NodeEnds(n) PROVE TypeOK'
  BY <1>8 DEF NodeEnds, Emit, Turns, Sources
<1>9. CASE UNCHANGED vars
  BY <1>9 DEF vars, Turns, Sources
<1> QED
  BY <1>1, <1>2, <1>3, <1>4, <1>5, <1>6, <1>7, <1>8, <1>9 DEF Step

(* Every step keeps the attribute at the latest mint.                         *)
LEMMA MintStep == IInv /\ Step /\ TypeOK' => MintInv'
<1> SUFFICES ASSUME IInv, Step, TypeOK' PROVE MintInv'
  OBVIOUS
<1> USE DEF IInv, TypeOK, TurnStates, NodeStates, ReplyInv, MintInv
<1> USE SessionAssumption DEF Turns
<1>1. ASSUME NEW u \in Spoken, Speaks(u) PROVE MintInv'
  BY <1>1 DEF Speaks
<1>2. ASSUME NEW u \in Spoken, EndOfSpeech(u) PROVE MintInv'
  BY <1>2 DEF EndOfSpeech, Mint, Emit
<1>3. ASSUME NEW u \in Spoken, FinalTranscript(u) PROVE MintInv'
  BY <1>3 DEF FinalTranscript, Emit
<1>4. CASE SttFails
  BY <1>4 DEF SttFails
<1>5. ASSUME NEW t \in Typed, TextArrives(t) PROVE MintInv'
  BY <1>5 DEF TextArrives
<1>6. ASSUME NEW t \in Typed, HandleTextInput(t) PROVE MintInv'
  BY <1>6 DEF HandleTextInput, Mint
<1>7. ASSUME NEW n \in Nodes, NodeStarts(n), turn[n[1][1]] = "queued" PROVE MintInv'
  BY <1>7 DEF NodeStarts, Emit
<1>8. ASSUME NEW n \in Nodes, NodeEnds(n) PROVE MintInv'
  BY <1>8 DEF NodeEnds, Emit
<1>9. CASE UNCHANGED vars
  BY <1>9 DEF vars
<1> QED
  BY <1>1, <1>2, <1>3, <1>4, <1>5, <1>6, <1>7, <1>8, <1>9 DEF Step

(* A node never loses its id, nor its turn the place in the queue.            *)
LEMMA ReplyStep == IInv /\ Step /\ TypeOK' => ReplyInv'
<1> SUFFICES ASSUME IInv, Step, TypeOK' PROVE ReplyInv'
  OBVIOUS
<1> USE DEF IInv, TypeOK, TurnStates, NodeStates, ReplyInv, MintInv
<1> USE SessionAssumption DEF Turns, Nodes, Replies
<1>1. ASSUME NEW u \in Spoken, Speaks(u) PROVE ReplyInv'
  BY <1>1 DEF Speaks
<1>2. ASSUME NEW u \in Spoken, EndOfSpeech(u) PROVE ReplyInv'
  BY <1>2 DEF EndOfSpeech, Mint, Emit
<1>3. ASSUME NEW u \in Spoken, FinalTranscript(u) PROVE ReplyInv'
  BY <1>3 DEF FinalTranscript, Emit
<1>4. CASE SttFails
  BY <1>4 DEF SttFails
<1>5. ASSUME NEW t \in Typed, TextArrives(t) PROVE ReplyInv'
  BY <1>5 DEF TextArrives
<1>6. ASSUME NEW t \in Typed, HandleTextInput(t) PROVE ReplyInv'
  BY <1>6 DEF HandleTextInput, Mint
<1>7. ASSUME NEW n \in Nodes, NodeStarts(n), turn[n[1][1]] = "queued" PROVE ReplyInv'
  BY <1>7 DEF NodeStarts, Emit
<1>8. ASSUME NEW n \in Nodes, NodeEnds(n) PROVE ReplyInv'
  BY <1>8 DEF NodeEnds, Emit
<1>9. CASE UNCHANGED vars
  BY <1>9 DEF vars
<1> QED
  BY <1>1, <1>2, <1>3, <1>4, <1>5, <1>6, <1>7, <1>8, <1>9 DEF Step

(* No node's turn is stamped before the node's own.                           *)
LEMMA EarlierStep == IInv /\ Step /\ TypeOK' => NeverEarlierTurn'
<1> SUFFICES ASSUME IInv, Step, TypeOK' PROVE NeverEarlierTurn'
  OBVIOUS
<1> USE DEF IInv, TypeOK, TurnStates, NodeStates, ReplyInv, MintInv
<1> USE SessionAssumption DEF Turns, Nodes, Replies, NeverEarlierTurn
<1>1. ASSUME NEW u \in Spoken, Speaks(u) PROVE NeverEarlierTurn'
  BY <1>1 DEF Speaks
<1>2. ASSUME NEW u \in Spoken, EndOfSpeech(u) PROVE NeverEarlierTurn'
  BY <1>2 DEF EndOfSpeech, Mint, Emit
<1>3. ASSUME NEW u \in Spoken, FinalTranscript(u) PROVE NeverEarlierTurn'
  BY <1>3 DEF FinalTranscript, Emit
<1>4. CASE SttFails
  BY <1>4 DEF SttFails
<1>5. ASSUME NEW t \in Typed, TextArrives(t) PROVE NeverEarlierTurn'
  BY <1>5 DEF TextArrives
<1>6. ASSUME NEW t \in Typed, HandleTextInput(t) PROVE NeverEarlierTurn'
  BY <1>6 DEF HandleTextInput, Mint
<1>7. ASSUME NEW n \in Nodes, NodeStarts(n), turn[n[1][1]] = "queued" PROVE NeverEarlierTurn'
  BY <1>7 DEF NodeStarts, Emit
<1>8. ASSUME NEW n \in Nodes, NodeEnds(n) PROVE NeverEarlierTurn'
  BY <1>8 DEF NodeEnds, Emit
<1>9. CASE UNCHANGED vars
  BY <1>9 DEF vars
<1> QED
  BY <1>1, <1>2, <1>3, <1>4, <1>5, <1>6, <1>7, <1>8, <1>9 DEF Step

(* Only a typed turn can come between the two events of a transcription.      *)
LEMMA SttStep == IInv /\ Step /\ TypeOK' => SttInv'
<1> SUFFICES ASSUME IInv, Step, TypeOK' PROVE SttInv'
  OBVIOUS
<1> USE DEF IInv, TypeOK, TurnStates, NodeStates, ReplyInv, MintInv
<1> USE SessionAssumption DEF Turns, SttInv, OnlyTypingSplitsStt, Transcribing, Event, Nodes
<1>1. ASSUME NEW u \in Spoken, Speaks(u) PROVE SttInv'
  BY <1>1 DEF Speaks
<1>2. ASSUME NEW u \in Spoken, EndOfSpeech(u) PROVE SttInv'
  BY <1>2 DEF EndOfSpeech, Mint, Emit
<1>3. ASSUME NEW u \in Spoken, FinalTranscript(u) PROVE SttInv'
  BY <1>3 DEF FinalTranscript, Emit
<1>4. CASE SttFails
  BY <1>4 DEF SttFails
<1>5. ASSUME NEW t \in Typed, TextArrives(t) PROVE SttInv'
  BY <1>5 DEF TextArrives
<1>6. ASSUME NEW t \in Typed, HandleTextInput(t) PROVE SttInv'
  BY <1>6 DEF HandleTextInput, Mint
<1>7. ASSUME NEW n \in Nodes, NodeStarts(n), turn[n[1][1]] = "queued" PROVE SttInv'
  BY <1>7 DEF NodeStarts, Emit
<1>8. ASSUME NEW n \in Nodes, NodeEnds(n) PROVE SttInv'
  BY <1>8 DEF NodeEnds, Emit
<1>9. CASE UNCHANGED vars
  BY <1>9 DEF vars
<1> QED
  BY <1>1, <1>2, <1>3, <1>4, <1>5, <1>6, <1>7, <1>8, <1>9 DEF Step

(* A step that leaves the nodes and their events alone.                       *)
LEMMA PhasesFrame ==
  ASSUME PhasesClose, node' = node, nodeTurn' = nodeTurn,
         \A n \in Nodes, id \in Turns, e \in {"start", "end"} :
           Event(n, id, e)' <=> Event(n, id, e)
  PROVE  PhasesClose'
<1> HIDE DEF Event
<1>1. SUFFICES ASSUME NEW n \in Nodes, NEW id \in Turns
               PROVE /\ Event(n, id, "end")' <=> node'[n] = "ended" /\ Event(n, id, "start")'
                     /\ Event(n, id, "start")' <=> node'[n] # "none" /\ nodeTurn'[n] = id
  BY DEF PhasesClose
<1>2. /\ Event(n, id, "end")' <=> Event(n, id, "end")
      /\ Event(n, id, "start")' <=> Event(n, id, "start")
  OBVIOUS
<1>3. /\ Event(n, id, "end") <=> node[n] = "ended" /\ Event(n, id, "start")
      /\ Event(n, id, "start") <=> node[n] # "none" /\ nodeTurn[n] = id
  BY DEF PhasesClose
<1> QED
  BY <1>2, <1>3

(* A node's end carries the id of its start.                                  *)
LEMMA PhasesStep == IInv /\ Step /\ TypeOK' => PhasesClose'
<1> SUFFICES ASSUME IInv, Step, TypeOK' PROVE PhasesClose'
  OBVIOUS
<1> USE DEF IInv
<1>1. ASSUME NEW u \in Spoken, Speaks(u) PROVE PhasesClose'
  <2>1. node' = node /\ nodeTurn' = nodeTurn /\ events' = events
    BY <1>1 DEF Speaks
  <2> QED
    BY <2>1, PhasesFrame DEF Event
<1>2. ASSUME NEW u \in Spoken, EndOfSpeech(u) PROVE PhasesClose'
  <2>1. node' = node /\ nodeTurn' = nodeTurn
    BY <1>2 DEF EndOfSpeech
  <2>2. ASSUME NEW n \in Nodes, NEW id \in Turns, NEW e \in {"start", "end"}
        PROVE Event(n, id, e)' <=> Event(n, id, e)
    <3>1. n # <<u, "stt">>
      BY DEF Nodes
    <3> QED
      BY <1>2, <3>1 DEF EndOfSpeech, Emit, Event
  <2> QED
    BY <2>1, <2>2, PhasesFrame
<1>3. ASSUME NEW u \in Spoken, FinalTranscript(u) PROVE PhasesClose'
  <2>1. node' = node /\ nodeTurn' = nodeTurn
    BY <1>3 DEF FinalTranscript
  <2>2. ASSUME NEW n \in Nodes, NEW id \in Turns, NEW e \in {"start", "end"}
        PROVE Event(n, id, e)' <=> Event(n, id, e)
    <3>1. n # <<u, "stt">>
      BY DEF Nodes
    <3> QED
      BY <1>3, <3>1 DEF FinalTranscript, Emit, Event
  <2> QED
    BY <2>1, <2>2, PhasesFrame
<1>4. CASE SttFails
  <2>1. node' = node /\ nodeTurn' = nodeTurn /\ events' = events
    BY <1>4 DEF SttFails
  <2> QED
    BY <2>1, PhasesFrame DEF Event
<1>5. ASSUME NEW t \in Typed, TextArrives(t) PROVE PhasesClose'
  <2>1. node' = node /\ nodeTurn' = nodeTurn /\ events' = events
    BY <1>5 DEF TextArrives
  <2> QED
    BY <2>1, PhasesFrame DEF Event
<1>6. ASSUME NEW t \in Typed, HandleTextInput(t) PROVE PhasesClose'
  <2>1. node' = node /\ nodeTurn' = nodeTurn /\ events' = events
    BY <1>6 DEF HandleTextInput
  <2> QED
    BY <2>1, PhasesFrame DEF Event
<1>7. ASSUME NEW n \in Nodes, NodeStarts(n), turn[n[1][1]] = "queued" PROVE PhasesClose'
  <2> SUFFICES ASSUME NEW m \in Nodes, NEW id \in Turns
               PROVE /\ Event(m, id, "end")' <=> node'[m] = "ended" /\ Event(m, id, "start")'
                     /\ Event(m, id, "start")' <=> node'[m] # "none" /\ nodeTurn'[m] = id
    BY DEF PhasesClose
  <2>1. currentTurn \in Turns
    BY <1>7 DEF NodeStarts, TypeOK, ReplyInv
  <2>2. ASSUME NEW e \in {"start", "end"}
        PROVE Event(m, id, e)' <=> Event(m, id, e) \/ (e = "start" /\ m = n /\ id = currentTurn)
    BY <1>7 DEF NodeStarts, Emit, Event
  <2>3. /\ Event(m, id, "end") <=> node[m] = "ended" /\ Event(m, id, "start")
        /\ Event(m, id, "start") <=> node[m] # "none" /\ nodeTurn[m] = id
    BY DEF PhasesClose
  <2>4. /\ node[n] = "none"
        /\ node'[m] = IF m = n THEN "running" ELSE node[m]
        /\ nodeTurn'[m] = IF m = n THEN currentTurn ELSE nodeTurn[m]
    BY <1>7 DEF NodeStarts, TypeOK
  <2> QED
    BY <2>1, <2>2, <2>3, <2>4
<1>8. ASSUME NEW n \in Nodes, NodeEnds(n) PROVE PhasesClose'
  <2> SUFFICES ASSUME NEW m \in Nodes, NEW id \in Turns
               PROVE /\ Event(m, id, "end")' <=> node'[m] = "ended" /\ Event(m, id, "start")'
                     /\ Event(m, id, "start")' <=> node'[m] # "none" /\ nodeTurn'[m] = id
    BY DEF PhasesClose
  <2>1. nodeTurn[n] \in Turns
    BY <1>8 DEF NodeEnds, TypeOK, ReplyInv
  <2>2. ASSUME NEW e \in {"start", "end"}
        PROVE Event(m, id, e)' <=> Event(m, id, e) \/ (e = "end" /\ m = n /\ id = nodeTurn[n])
    BY <1>8 DEF NodeEnds, Emit, Event
  <2>3. /\ Event(m, id, "end") <=> node[m] = "ended" /\ Event(m, id, "start")
        /\ Event(m, id, "start") <=> node[m] # "none" /\ nodeTurn[m] = id
    BY DEF PhasesClose
  <2>4. /\ node[n] = "running"
        /\ node'[m] = IF m = n THEN "ended" ELSE node[m]
        /\ nodeTurn' = nodeTurn
    BY <1>8 DEF NodeEnds, TypeOK
  <2> QED
    BY <2>1, <2>2, <2>3, <2>4
<1>9. CASE UNCHANGED vars
  <2>1. node' = node /\ nodeTurn' = nodeTurn /\ events' = events
    BY <1>9 DEF vars
  <2> QED
    BY <2>1, PhasesFrame DEF Event
<1> QED
  BY <1>1, <1>2, <1>3, <1>4, <1>5, <1>6, <1>7, <1>8, <1>9 DEF Step

(* The invariant holds initially and is kept by every step.                   *)
LEMMA Inductive == Spec => []IInv
<1>1. Init => IInv
  <2> SUFFICES ASSUME Init PROVE IInv
    OBVIOUS
  <2>1. TypeOK
    BY SessionAssumption DEF Init, TypeOK, TurnStates, NodeStates
  <2>2. MintInv
    BY DEF Init, MintInv
  <2>3. ReplyInv /\ NeverEarlierTurn
    BY DEF Init, ReplyInv, NeverEarlierTurn
  <2>4. Transcribing = {}
    BY DEF Init, Transcribing, Turns
  <2>5. SttInv
    BY <2>4 DEF Init, SttInv, OnlyTypingSplitsStt, Event
  <2>6. PhasesClose
    BY DEF Init, PhasesClose, Event
  <2> QED
    BY <2>1, <2>2, <2>3, <2>5, <2>6 DEF IInv
<1>2. IInv /\ [Next]_vars => IInv'
  <2> SUFFICES ASSUME IInv, [Next]_vars PROVE IInv'
    OBVIOUS
  <2>1. Step
    BY NextIsStep
  <2>2. TypeOK'
    BY <2>1, TypeStep
  <2> QED
    BY <2>1, <2>2, MintStep, ReplyStep, EarlierStep, SttStep, PhasesStep DEF IInv
<1> QED
  BY <1>1, <1>2, PTL DEF Spec

(* The type invariant of the session: every task of ArgusAgent keeps it.      *)
THEOREM TypeCorrect == Spec => []TypeOK
<1>1. IInv => TypeOK
  BY DEF IInv, SttInv
<1> QED
  BY <1>1, Inductive, PTL

(* Every LLM and TTS phase is closed for the id it was opened for, whatever   *)
(* the other turns do in between.                                             *)
THEOREM PhasesAreClosed == Spec => []PhasesClose
<1>1. IInv => PhasesClose
  BY DEF IInv, SttInv
<1> QED
  BY <1>1, Inductive, PTL

(* No part of a reply is reported under a turn older than the reply's own.    *)
THEOREM NoEarlierTurn == Spec => []NeverEarlierTurn
<1>1. IInv => NeverEarlierTurn
  BY DEF IInv, SttInv
<1> QED
  BY <1>1, Inductive, PTL

(* A transcription's two events carry different ids only when a typed turn    *)
(* minted between them.                                                       *)
THEOREM SttSplitByTypingOnly == Spec => []OnlyTypingSplitsStt
<1>1. IInv => OnlyTypingSplitsStt
  BY DEF IInv, SttInv
<1> QED
  BY <1>1, Inductive, PTL
=============================================================================
