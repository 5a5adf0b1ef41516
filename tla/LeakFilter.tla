----------------------------- MODULE LeakFilter -----------------------------
(* The filter that keeps a model's leaked tool-call markup from being spoken: *)
(* _strip_leaked_tool_call_syntax in voice-agent/agent.py under               *)
(* src/files/ai-platform, for every stream of chunks and every way a text can *)
(* be cut into chunks. A text is a sequence of symbols; the tags are short.   *)
(* What the filter yields goes on to tts_node, chunk by chunk, which drops    *)
(* the lines that are blank or markdown noise before they are synthesized.    *)
EXTENDS Naturals, Sequences

CONSTANTS
  Symbols,        \* the alphabet
  Noise,          \* of these the white space and the marks of markdown
  Silent,         \* the chunks of which tts_node leaves nothing to synthesize
  Open, Close,    \* _TOOL_CALL_LEAK_OPEN and _TOOL_CALL_LEAK_CLOSE
  MaxBuffer,      \* _TOOL_CALL_LEAK_MAX_BUFFER
  MaxText,        \* bound: symbols of a reply
  MaxChunk        \* bound: symbols of a chunk

ASSUME FilterAssumption ==
  /\ Open \in Seq(Symbols) /\ Len(Open) > 0
  /\ Close \in Seq(Symbols) /\ Len(Close) > 0
  /\ Noise \subseteq Symbols /\ Silent \subseteq Seq(Noise) /\ <<>> \in Silent
  /\ MaxBuffer \in Nat /\ MaxText \in Nat /\ MaxChunk \in Nat

VARIABLES
  pc,             \* awaiting a chunk, in the loop over buf, or past the stream
  buf,            \* text received and not yet passed on
  inLeak,         \* whether buf begins inside a block
  out,            \* what is to be yielded of the chunk in work
  strippedLeak, emittedContent, sawStructuredToolCall,
  received,       \* history: the whole text so far
  spoken,         \* history: the text passed on so far, out included
  heard,          \* history: whether a chunk left something to synthesize
  gaveUp,         \* history: whether a block was passed on for its length
  fallback        \* whether the recovery prompt was produced

flags == <<strippedLeak, emittedContent, sawStructuredToolCall>>
vars == <<pc, buf, inLeak, out, flags, received, spoken, heard, gaveUp, fallback>>

Positions(tag, text) ==
  {i \in 0 .. Len(text) : i + Len(tag) <= Len(text) /\ SubSeq(text, i + 1, i + Len(tag)) = tag}

(* str.find: the first position of the tag.                                   *)
FoundAt(tag, text, i) == i \in Positions(tag, text) /\ \A j \in Positions(tag, text) : i <= j
Missing(tag, text) == Positions(tag, text) = {}

After(text, i) == SubSeq(text, i + 1, Len(text))

Chunks == UNION {[1 .. n -> Symbols] : n \in 0 .. MaxChunk}

Init ==
  /\ pc = "await"
  /\ buf = <<>> /\ inLeak = FALSE /\ out = <<>>
  /\ strippedLeak = FALSE /\ emittedContent = FALSE /\ sawStructuredToolCall = FALSE
  /\ received = <<>> /\ spoken = <<>> /\ heard = FALSE
  /\ gaveUp = FALSE /\ fallback = FALSE

----------------------------------------------------------------------------
(* Passing text on: the loop collects it in out, and what out holds when the  *)
(* loop ends is the chunk. Text that is blank counts as emitted, though       *)
(* tts_node drops it.                                                         *)
Speak(text) == spoken' = spoken \o text

Yield(chunk) ==
  /\ emittedContent' = (emittedContent \/ chunk # <<>>)
  /\ heard' = (heard \/ chunk \notin Silent)
  /\ out' = <<>>

(* A chunk of the stream: text, the model's structured tool call, or both.    *)
Receive(content, structured) ==
  /\ pc = "await"
  /\ content # <<>> \/ structured
  /\ Len(received) + Len(content) <= MaxText
  /\ sawStructuredToolCall' = (sawStructuredToolCall \/ structured)
  /\ received' = received \o content
  /\ buf' = buf \o content
  /\ pc' = IF content = <<>> THEN "await" ELSE "loop"
  /\ UNCHANGED <<inLeak, out, strippedLeak, emittedContent, spoken, heard, gaveUp, fallback>>

(* Mutant: everything without a whole tag is passed on at once.               *)
SafeLengthAll(text) == Len(text)

(* What cannot be the beginning of an open tag.                               *)
SafeLength(text) == IF Len(text) < Len(Open) THEN 0 ELSE Len(text) - (Len(Open) - 1)

PassOn ==
  /\ pc = "loop" /\ ~inLeak
  /\ Missing(Open, buf)
  /\ Speak(SubSeq(buf, 1, SafeLength(buf)))
  /\ Yield(out \o SubSeq(buf, 1, SafeLength(buf)))
  /\ buf' = After(buf, SafeLength(buf))
  /\ pc' = "await"
  /\ UNCHANGED <<inLeak, strippedLeak, sawStructuredToolCall, received, gaveUp, fallback>>

EnterLeak ==
  /\ pc = "loop" /\ ~inLeak
  /\ \E i \in 0 .. Len(buf) :
       /\ FoundAt(Open, buf, i)
       /\ Speak(SubSeq(buf, 1, i)) /\ out' = out \o SubSeq(buf, 1, i)
       /\ buf' = After(buf, i)
  /\ inLeak' = TRUE
  /\ strippedLeak' = TRUE
  /\ UNCHANGED <<pc, emittedContent, sawStructuredToolCall, received, heard, gaveUp, fallback>>

LeaveLeak ==
  /\ pc = "loop" /\ inLeak
  /\ \E i \in 0 .. Len(buf) : FoundAt(Close, buf, i) /\ buf' = After(buf, i + Len(Close))
  /\ inLeak' = FALSE
  /\ UNCHANGED <<pc, out, flags, received, spoken, heard, gaveUp, fallback>>

(* Mutant: no limit to a block.                                               *)
NeverTooLong(text) == FALSE

TooLong(text) == Len(text) > MaxBuffer

AwaitClose ==
  /\ pc = "loop" /\ inLeak
  /\ Missing(Close, buf) /\ ~TooLong(buf)
  /\ Yield(out)
  /\ pc' = "await"
  /\ UNCHANGED <<buf, inLeak, strippedLeak, sawStructuredToolCall, received, spoken, gaveUp, fallback>>

GiveUp ==
  /\ pc = "loop" /\ inLeak
  /\ Missing(Close, buf) /\ TooLong(buf)
  /\ Speak(buf) /\ Yield(out \o buf)
  /\ buf' = <<>>
  /\ inLeak' = FALSE
  /\ gaveUp' = TRUE
  /\ pc' = "await"
  /\ UNCHANGED <<strippedLeak, sawStructuredToolCall, received, fallback>>

(* Mutant: the prompt is produced for a reply of tool calls only, too.        *)
PromptWheneverSilent == strippedLeak /\ ~emittedContent

NeedsPrompt == strippedLeak /\ ~emittedContent /\ ~sawStructuredToolCall

(* The stream is exhausted: what was held back is passed on, an unclosed      *)
(* block is dropped.                                                          *)
End ==
  /\ pc = "await"
  /\ pc' = "done"
  /\ \/ /\ buf # <<>> /\ ~inLeak
        /\ Speak(buf) /\ Yield(buf)
        /\ UNCHANGED fallback
     \/ /\ buf = <<>> \/ inLeak
        /\ fallback' = NeedsPrompt
        /\ UNCHANGED <<spoken, out, emittedContent, heard>>
  /\ buf' = <<>>
  /\ UNCHANGED <<inLeak, strippedLeak, sawStructuredToolCall, received, gaveUp>>

Next ==
  \/ \E content \in Chunks, structured \in BOOLEAN : Receive(content, structured)
  \/ PassOn \/ EnterLeak \/ LeaveLeak \/ AwaitClose \/ GiveUp
  \/ End

Spec == Init /\ [][Next]_vars

----------------------------------------------------------------------------
(* Properties.                                                                *)

TypeOK ==
  /\ pc \in {"await", "loop", "done"}
  /\ buf \in Seq(Symbols) /\ received \in Seq(Symbols) /\ spoken \in Seq(Symbols)
  /\ inLeak \in BOOLEAN /\ strippedLeak \in BOOLEAN /\ emittedContent \in BOOLEAN
  /\ sawStructuredToolCall \in BOOLEAN /\ gaveUp \in BOOLEAN /\ fallback \in BOOLEAN
  /\ out \in Seq(Symbols) /\ heard \in BOOLEAN

(* The close tags of a text at a position and after it, and where the first   *)
(* of them begins.                                                            *)
Closing(text, i) == {c \in Positions(Close, text) : c >= i}
FirstClose(text, i) == CHOOSE c \in Closing(text, i) : \A d \in Closing(text, i) : c <= d

(* The text from each position on, outside a block, without its blocks, an    *)
(* unclosed one reaching to the end: what the filter is to pass on, read off  *)
(* the whole text.                                                            *)
StrippedFrom(text) ==
  LET from[i \in 0 .. Len(text)] ==
        IF i = Len(text) THEN <<>>
        ELSE IF i \notin Positions(Open, text) THEN <<text[i + 1]>> \o from[i + 1]
        ELSE IF Closing(text, i) = {} THEN <<>>
        ELSE from[FirstClose(text, i) + Len(Close)]
  IN  from

Stripped(text) == StrippedFrom(text)[0]

(* However the text is cut into chunks, what was passed on and what is held   *)
(* back is the text received so far without its blocks (211-258). The limit   *)
(* on a block is the one exception: it depends on where the chunks end.       *)
NothingLostNorLeaked ==
  pc # "loop" /\ ~gaveUp =>
    Stripped(received) = spoken \o (IF inLeak THEN <<>> ELSE buf)

(* The filter holds back less than a tag outside a block and at most the      *)
(* limit in one, whatever arrives: speech is delayed by no more than that     *)
(* ("hold back only what's still ambiguous", 220-222; 196).                   *)
DelayIsBounded ==
  pc = "await" => IF inLeak THEN Len(buf) <= MaxBuffer ELSE Len(buf) < Len(Open)

(* "an empty stream gives TTS no frames and the operator hears nothing"       *)
(* (261-265): the prompt answers a reply that was markup only, but not one    *)
(* with a blank beside the markup, which counts as content (244) and which    *)
(* tts_node drops (411-416). So: a reply of text only is silent only if what  *)
(* is left of it without its blocks is noise, and something; any other symbol *)
(* is heard, however the reply was cut. The prompt never joins text or a tool *)
(* call.                                                                      *)
OperatorHearsSomething ==
  pc = "done" =>
    /\ received # <<>> /\ ~sawStructuredToolCall =>
         heard \/ fallback \/ (spoken # <<>> /\ spoken \in Seq(Noise))
    /\ fallback => spoken = <<>> /\ ~sawStructuredToolCall
=============================================================================
