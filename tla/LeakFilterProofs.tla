-------------------------- MODULE LeakFilterProofs --------------------------
(* Proofs about LeakFilter for every alphabet, every pair of tags and every   *)
(* limit: types, the bounded delay, that the operator hears something, and    *)
(* that what is passed on is the reply without its blocks.                    *)
EXTENDS LeakFilter, SequenceTheorems, WellFoundedInduction, TLAPS

(* Text that was received has been passed on, is held back, or a block was    *)
(* taken out; which of them, emittedContent and strippedLeak remember, the    *)
(* first once the chunk in work is yielded. What nobody heard is noise.       *)
HeardInv ==
  /\ emittedContent \/ out # <<>> <=> spoken # <<>>
  /\ pc # "loop" => out = <<>>
  /\ ~heard /\ out \in Seq(Noise) => spoken \in Seq(Noise)
  /\ inLeak => strippedLeak
  /\ pc # "done" /\ received # <<>> => spoken # <<>> \/ buf # <<>> \/ strippedLeak
  /\ pc # "done" => ~fallback
  /\ OperatorHearsSomething

IInv == TypeOK /\ DelayIsBounded /\ HeardInv

(* Cutting a text in two.                                                     *)
LEMMA Cut ==
  ASSUME NEW text \in Seq(Symbols), NEW i \in Nat, i <= Len(text)
  PROVE  /\ SubSeq(text, 1, i) \in Seq(Symbols) /\ Len(SubSeq(text, 1, i)) = i
         /\ After(text, i) \in Seq(Symbols) /\ Len(After(text, i)) = Len(text) - i
  BY DEF After

LEMMA ChunkIsText == Chunks \subseteq Seq(Symbols)
  BY DEF Chunks

(* A text is empty or has a length, and appending to one that is not empty    *)
(* does not empty it.                                                         *)
LEMMA EmptyText ==
  ASSUME NEW s \in Seq(Symbols), NEW t \in Seq(Symbols)
  PROVE  /\ s = <<>> <=> Len(s) = 0
         /\ s \o t \in Seq(Symbols) /\ Len(s \o t) = Len(s) + Len(t)
         /\ s \o t = <<>> <=> s = <<>> /\ t = <<>>
<1>1. \A u \in Seq(Symbols) : u = <<>> <=> Len(u) = 0
  OBVIOUS
<1>2. s \o t \in Seq(Symbols) /\ Len(s \o t) = Len(s) + Len(t) /\ Len(s) \in Nat /\ Len(t) \in Nat
  OBVIOUS
<1> QED
  BY <1>1, <1>2

LEMMA NoText == <<>> \in Seq(Symbols) /\ Len(<<>>) = 0
  OBVIOUS

(* A text is noise just if its two parts are.                                 *)
LEMMA NoiseInParts ==
  ASSUME NEW s \in Seq(Symbols), NEW t \in Seq(Symbols)
  PROVE  s \o t \in Seq(Noise) <=> s \in Seq(Noise) /\ t \in Seq(Noise)
<1>1. CASE s \in Seq(Noise) /\ t \in Seq(Noise)
  BY <1>1
<1>2. ASSUME s \o t \in Seq(Noise)
      PROVE  s \in Seq(Noise) /\ t \in Seq(Noise)
  <2> DEFINE st == s \o t
  <2>1. /\ st \in Seq(Noise) /\ Len(st) = Len(s) + Len(t) /\ Len(s) \in Nat /\ Len(t) \in Nat
        /\ \A k \in 1 .. Len(s) : st[k] = s[k]
        /\ \A k \in 1 .. Len(t) : st[Len(s) + k] = t[k]
    BY <1>2
  <2> HIDE DEF st
  <2>2. \A k \in 1 .. Len(st) : st[k] \in Noise
    BY <2>1
  <2>3. \A k \in 1 .. Len(s) : s[k] \in Noise
    BY <2>1, <2>2
  <2>4. ASSUME NEW k \in 1 .. Len(t) PROVE t[k] \in Noise
    <3>1. Len(s) + k \in 1 .. Len(st)
      BY <2>1
    <3> QED BY <2>1, <2>2, <3>1
  <2> QED BY <2>3, <2>4
<1> QED BY <1>1, <1>2

(* Passing on a text, as part of the chunk in work: what that does to the     *)
(* text spoken,                                                               *)
LEMMA Speaking ==
  ASSUME TypeOK, HeardInv, NEW text \in Seq(Symbols), Speak(text)
  PROVE  /\ spoken' \in Seq(Symbols) /\ out \o text \in Seq(Symbols)
         /\ emittedContent \/ out \o text # <<>> <=> spoken' # <<>>
         /\ text # <<>> => spoken' # <<>>
         /\ spoken # <<>> => spoken' # <<>>
         /\ ~heard /\ out \o text \in Seq(Noise) => spoken' \in Seq(Noise)
<1>1. spoken \in Seq(Symbols) /\ out \in Seq(Symbols) /\ spoken' = spoken \o text
  BY DEF TypeOK, Speak
<1>2. /\ spoken' \in Seq(Symbols) /\ (spoken' = <<>> <=> spoken = <<>> /\ text = <<>>)
      /\ out \o text \in Seq(Symbols) /\ (out \o text = <<>> <=> out = <<>> /\ text = <<>>)
  BY <1>1, EmptyText
<1>3. /\ spoken' \in Seq(Noise) <=> spoken \in Seq(Noise) /\ text \in Seq(Noise)
      /\ out \o text \in Seq(Noise) <=> out \in Seq(Noise) /\ text \in Seq(Noise)
  BY <1>1, NoiseInParts
<1> QED
  BY <1>2, <1>3 DEF HeardInv

(* and to the flags when the chunk is yielded.                                *)
LEMMA Yielding ==
  ASSUME NEW chunk \in Seq(Symbols), NEW text, Yield(chunk), heard \in BOOLEAN, emittedContent \in BOOLEAN,
         emittedContent \/ chunk # <<>> <=> text # <<>>,
         ~heard /\ chunk \in Seq(Noise) => text \in Seq(Noise)
  PROVE  /\ out' = <<>> /\ out' \in Seq(Symbols) /\ heard' \in BOOLEAN /\ emittedContent' \in BOOLEAN
         /\ emittedContent' <=> text # <<>>
         /\ ~heard' => text \in Seq(Noise)
<1>1. /\ out' = <<>> /\ emittedContent' = (emittedContent \/ chunk # <<>>)
      /\ heard' = (heard \/ chunk \notin Silent)
  BY DEF Yield
<1>2. Silent \subseteq Seq(Noise)
  BY FilterAssumption
<1> QED BY <1>1, <1>2, NoText

LEMMA FilterStep ==
  ASSUME IInv, [Next]_vars
  PROVE  IInv'
<1> USE FilterAssumption
<1>t. TypeOK /\ HeardInv /\ DelayIsBounded
  BY DEF IInv
<1>1. ASSUME NEW content \in Chunks, NEW structured \in BOOLEAN, Receive(content, structured)
      PROVE  IInv'
  <2>1. content \in Seq(Symbols) /\ buf \in Seq(Symbols) /\ received \in Seq(Symbols)
    BY <1>t, ChunkIsText DEF TypeOK
  <2>2. /\ buf' \in Seq(Symbols) /\ received' \in Seq(Symbols)
        /\ buf' = <<>> <=> buf = <<>> /\ content = <<>>
        /\ received' = <<>> <=> received = <<>> /\ content = <<>>
    BY <1>1, <2>1, EmptyText DEF Receive
  <2>3. content = <<>> => buf' = buf /\ received' = received
    BY <1>1, <2>1 DEF Receive
  <2>4. /\ pc = "await" /\ pc' = IF content = <<>> THEN "await" ELSE "loop"
        /\ sawStructuredToolCall' = (sawStructuredToolCall \/ structured)
        /\ UNCHANGED <<inLeak, out, strippedLeak, emittedContent, spoken, heard, gaveUp, fallback>>
    BY <1>1 DEF Receive
  <2>5. TypeOK'
    BY <1>t, <2>2, <2>4 DEF TypeOK
  <2>6. DelayIsBounded'
    BY <1>t, <2>3, <2>4 DEF DelayIsBounded
  <2>7. HeardInv'
    BY <1>t, <2>2, <2>4 DEF HeardInv, OperatorHearsSomething
  <2> QED
    BY <2>5, <2>6, <2>7 DEF IInv
<1>2. CASE PassOn
  <2> DEFINE n == SafeLength(buf)
             text == SubSeq(buf, 1, n)
  <2>1. /\ buf \in Seq(Symbols) /\ Len(Open) \in Nat /\ Len(Open) > 0
        /\ n \in Nat /\ n <= Len(buf) /\ Len(buf) - n < Len(Open)
    BY <1>t DEF TypeOK, SafeLength
  <2>2. /\ pc' = "await" /\ pc = "loop" /\ ~inLeak
        /\ Speak(text) /\ Yield(out \o text) /\ buf' = After(buf, n)
        /\ UNCHANGED <<inLeak, strippedLeak, sawStructuredToolCall, received, gaveUp, fallback>>
    BY <1>2 DEF PassOn
  <2> HIDE DEF n
  <2>3. /\ text \in Seq(Symbols) /\ Len(text) = n
        /\ buf' \in Seq(Symbols) /\ Len(buf') = Len(buf) - n
    BY <2>1, <2>2, Cut
  <2> HIDE DEF text
  <2>4. /\ spoken' \in Seq(Symbols) /\ out \o text \in Seq(Symbols)
        /\ emittedContent \/ out \o text # <<>> <=> spoken' # <<>>
        /\ text # <<>> => spoken' # <<>>
        /\ spoken # <<>> => spoken' # <<>>
        /\ ~heard /\ out \o text \in Seq(Noise) => spoken' \in Seq(Noise)
    BY <1>t, <2>2, <2>3, Speaking
  <2>y. /\ out' = <<>> /\ out' \in Seq(Symbols) /\ heard' \in BOOLEAN /\ emittedContent' \in BOOLEAN
        /\ emittedContent' <=> spoken' # <<>>
        /\ ~heard' => spoken' \in Seq(Noise)
    <3>1. heard \in BOOLEAN /\ emittedContent \in BOOLEAN
      BY <1>t DEF TypeOK
    <3> QED BY <2>2, <2>4, <3>1, Yielding
  <2>5. buf # <<>> => spoken' # <<>> \/ buf' # <<>>
    <3>1. /\ buf = <<>> <=> Len(buf) = 0
          /\ buf' = <<>> <=> Len(buf') = 0
          /\ text = <<>> <=> Len(text) = 0
      BY <2>1, <2>3, EmptyText
    <3>2. Len(buf) = 0 \/ n # 0 \/ Len(buf) - n # 0
      BY <2>1
    <3> QED
      BY <3>1, <3>2, <2>3, <2>4
  <2>6. TypeOK'
    BY <1>t, <2>2, <2>3, <2>4, <2>y DEF TypeOK
  <2>7. DelayIsBounded'
    BY <2>1, <2>2, <2>3 DEF DelayIsBounded
  <2>8. HeardInv'
    BY <1>t, <2>2, <2>4, <2>5, <2>y DEF HeardInv, OperatorHearsSomething
  <2> QED
    BY <2>6, <2>7, <2>8 DEF IInv
<1>3. CASE EnterLeak
  <2>1. PICK i \in 0 .. Len(buf) :
          Speak(SubSeq(buf, 1, i)) /\ out' = out \o SubSeq(buf, 1, i) /\ buf' = After(buf, i)
    BY <1>3 DEF EnterLeak
  <2>2. /\ pc = "loop" /\ pc' = "loop" /\ inLeak' = TRUE /\ strippedLeak' = TRUE
        /\ UNCHANGED <<emittedContent, sawStructuredToolCall, received, heard, gaveUp, fallback>>
    BY <1>3 DEF EnterLeak
  <2>3. SubSeq(buf, 1, i) \in Seq(Symbols) /\ buf' \in Seq(Symbols)
    BY <1>t, <2>1, Cut DEF TypeOK
  <2>4. /\ spoken' \in Seq(Symbols) /\ out' \in Seq(Symbols)
        /\ emittedContent \/ out' # <<>> <=> spoken' # <<>>
        /\ ~heard /\ out' \in Seq(Noise) => spoken' \in Seq(Noise)
    BY <1>t, <2>1, <2>3, Speaking
  <2>5. TypeOK'
    BY <1>t, <2>2, <2>3, <2>4 DEF TypeOK
  <2> QED
    BY <1>t, <2>2, <2>4, <2>5 DEF IInv, DelayIsBounded, HeardInv, OperatorHearsSomething
<1>4. CASE LeaveLeak
  <2>1. PICK i \in 0 .. Len(buf) : FoundAt(Close, buf, i) /\ buf' = After(buf, i + Len(Close))
    BY <1>4 DEF LeaveLeak
  <2>2. i + Len(Close) \in Nat /\ i + Len(Close) <= Len(buf)
    BY <1>t, <2>1 DEF FoundAt, Positions, TypeOK
  <2>3. buf' \in Seq(Symbols)
    BY <1>t, <2>1, <2>2, Cut DEF TypeOK
  <2>4. /\ pc = "loop" /\ inLeak /\ inLeak' = FALSE
        /\ UNCHANGED <<pc, out, flags, received, spoken, heard, gaveUp, fallback>>
    BY <1>4 DEF LeaveLeak
  <2>5. TypeOK'
    BY <1>t, <2>3, <2>4 DEF TypeOK, flags
  <2> QED
    BY <1>t, <2>4, <2>5 DEF IInv, DelayIsBounded, HeardInv, OperatorHearsSomething, flags
<1>5. CASE AwaitClose
  <2>1. /\ pc = "loop" /\ pc' = "await" /\ inLeak /\ ~TooLong(buf) /\ Yield(out)
        /\ UNCHANGED <<buf, inLeak, strippedLeak, sawStructuredToolCall, received, spoken, gaveUp, fallback>>
    BY <1>5 DEF AwaitClose
  <2>2. Len(buf) <= MaxBuffer
    BY <1>t, <2>1 DEF TooLong, TypeOK
  <2>y. /\ out' = <<>> /\ out' \in Seq(Symbols) /\ heard' \in BOOLEAN /\ emittedContent' \in BOOLEAN
        /\ emittedContent' <=> spoken # <<>>
        /\ ~heard' => spoken \in Seq(Noise)
    <3>1. /\ heard \in BOOLEAN /\ emittedContent \in BOOLEAN /\ out \in Seq(Symbols)
          /\ emittedContent \/ out # <<>> <=> spoken # <<>>
          /\ ~heard /\ out \in Seq(Noise) => spoken \in Seq(Noise)
      BY <1>t DEF TypeOK, HeardInv
    <3> QED BY <2>1, <3>1, Yielding
  <2>3. TypeOK'
    BY <1>t, <2>1, <2>y DEF TypeOK
  <2>4. DelayIsBounded'
    BY <2>1, <2>2 DEF DelayIsBounded
  <2> QED
    BY <1>t, <2>1, <2>y, <2>3, <2>4 DEF IInv, HeardInv, OperatorHearsSomething
<1>6. CASE GiveUp
  <2>1. /\ pc = "loop" /\ pc' = "await" /\ inLeak /\ Speak(buf) /\ Yield(out \o buf)
        /\ buf' = <<>> /\ inLeak' = FALSE /\ gaveUp' = TRUE
        /\ UNCHANGED <<strippedLeak, sawStructuredToolCall, received, fallback>>
    BY <1>6 DEF GiveUp
  <2>2. /\ spoken' \in Seq(Symbols) /\ out \o buf \in Seq(Symbols)
        /\ emittedContent \/ out \o buf # <<>> <=> spoken' # <<>>
        /\ ~heard /\ out \o buf \in Seq(Noise) => spoken' \in Seq(Noise)
    BY <1>t, <2>1, Speaking DEF TypeOK
  <2>y. /\ out' = <<>> /\ out' \in Seq(Symbols) /\ heard' \in BOOLEAN /\ emittedContent' \in BOOLEAN
        /\ emittedContent' <=> spoken' # <<>>
        /\ ~heard' => spoken' \in Seq(Noise)
    <3>1. heard \in BOOLEAN /\ emittedContent \in BOOLEAN
      BY <1>t DEF TypeOK
    <3> QED BY <2>1, <2>2, <3>1, Yielding
  <2>3. TypeOK'
    <3>1. buf' \in Seq(Symbols)
      BY <2>1, NoText
    <3>2. UNCHANGED <<strippedLeak, sawStructuredToolCall, received, fallback>>
      BY <2>1
    <3> QED
      BY <1>t, <2>1, <2>2, <2>y, <3>1, <3>2 DEF TypeOK
  <2>4. DelayIsBounded'
    BY <2>1 DEF DelayIsBounded
  <2> QED
    BY <1>t, <2>1, <2>2, <2>y, <2>3, <2>4 DEF IInv, HeardInv, OperatorHearsSomething
<1>7. CASE End
  <2>1. /\ pc = "await" /\ pc' = "done" /\ buf' = <<>> /\ buf' \in Seq(Symbols)
        /\ UNCHANGED <<inLeak, strippedLeak, sawStructuredToolCall, received, gaveUp>>
    BY <1>7, NoText DEF End
  <2>d. DelayIsBounded'
    BY <2>1 DEF DelayIsBounded
  <2>o. out = <<>> /\ buf \in Seq(Symbols) /\ heard \in BOOLEAN /\ emittedContent \in BOOLEAN /\ ~fallback
    BY <1>t, <2>1 DEF TypeOK, HeardInv
  <2>2. CASE buf # <<>> /\ ~inLeak
    <3>1. Speak(buf) /\ Yield(buf) /\ fallback' = fallback
      BY <1>7, <2>2 DEF End
    <3>2. out \o buf = buf
      BY <2>o, ConcatEmptySeq
    <3>3. /\ spoken' \in Seq(Symbols) /\ spoken' # <<>>
          /\ emittedContent \/ buf # <<>> <=> spoken' # <<>>
          /\ ~heard /\ buf \in Seq(Noise) => spoken' \in Seq(Noise)
      BY <1>t, <2>2, <2>o, <3>1, <3>2, Speaking
    <3>y. /\ out' = <<>> /\ out' \in Seq(Symbols) /\ heard' \in BOOLEAN /\ emittedContent' \in BOOLEAN
          /\ emittedContent' <=> spoken' # <<>>
          /\ ~heard' => spoken' \in Seq(Noise)
      BY <2>o, <3>1, <3>3, Yielding
    <3>4. TypeOK'
      BY <1>t, <2>1, <3>1, <3>3, <3>y DEF TypeOK
    <3> QED
      BY <1>t, <2>1, <2>d, <2>o, <3>1, <3>3, <3>4, <3>y DEF IInv, HeardInv, OperatorHearsSomething
  <2>3. CASE buf = <<>> \/ inLeak
    <3>1. fallback' = NeedsPrompt /\ UNCHANGED <<spoken, out, emittedContent, heard>>
      BY <1>7, <2>3 DEF End
    <3>2. TypeOK'
      BY <1>t, <2>1, <3>1 DEF TypeOK, NeedsPrompt
    <3>3. out \in Seq(Noise)
      BY <2>o
    <3> QED
      BY <1>t, <2>1, <2>d, <2>o, <2>3, <3>1, <3>2, <3>3 DEF IInv, HeardInv, OperatorHearsSomething, NeedsPrompt
  <2> QED
    BY <2>2, <2>3
<1>8. CASE UNCHANGED vars
  BY <1>t, <1>8 DEF vars, flags, IInv, TypeOK, DelayIsBounded, HeardInv, OperatorHearsSomething
<1> QED
  BY <1>1, <1>2, <1>3, <1>4, <1>5, <1>6, <1>7, <1>8 DEF Next

LEMMA Inductive == Spec => []IInv
<1>1. Init => IInv
  <2> SUFFICES ASSUME Init PROVE IInv
    OBVIOUS
  <2>1. TypeOK
    BY NoText DEF Init, TypeOK
  <2>2. DelayIsBounded
    <3>1. Len(buf) = 0 /\ ~inLeak
      BY NoText DEF Init
    <3>2. Len(Open) \in Nat /\ Len(Open) > 0
      BY FilterAssumption
    <3> QED
      BY <3>1, <3>2 DEF DelayIsBounded
  <2>3. HeardInv
    <3>1. <<>> \in Seq(Noise)
      OBVIOUS
    <3> QED BY <3>1 DEF Init, HeardInv, OperatorHearsSomething
  <2> QED
    BY <2>1, <2>2, <2>3 DEF IInv
<1>2. IInv /\ [Next]_vars => IInv'
  BY FilterStep
<1> QED
  BY <1>1, <1>2, PTL DEF Spec

(* The types of the filter's state.                                           *)
THEOREM TypeCorrect == Spec => []TypeOK
<1>1. IInv => TypeOK
  BY DEF IInv
<1> QED
  BY <1>1, Inductive, PTL

(* Whatever arrives, less than a tag, or at most the limit, is held back.     *)
THEOREM DelayBounded == Spec => []DelayIsBounded
<1>1. IInv => DelayIsBounded
  BY DEF IInv
<1> QED
  BY <1>1, Inductive, PTL

(* Whatever tts_node drops of noise, however a reply of text is cut: any      *)
(* symbol outside its blocks that is no noise is heard, markup alone is       *)
(* answered by the prompt, and that one never joins text or a tool call       *)
(* (_strip_leaked_tool_call_syntax and tts_node, voice-agent/agent.py).       *)
THEOREM OperatorIsAnswered == Spec => []OperatorHearsSomething
<1>1. IInv => OperatorHearsSomething
  BY DEF IInv, HeardInv
<1> QED
  BY <1>1, Inductive, PTL

----------------------------------------------------------------------------
(* The text without its blocks. StrippedFrom is a recursive function of the   *)
(* position: what it computes is shown by counting up from the end of the     *)
(* text, a set of natural numbers at a time.                                  *)
LEMMA LeastNatural ==
  ASSUME NEW T, T \subseteq Nat, T # {}
  PROVE  \E n \in T : \A m \in T : n <= m
<1>1. PICK n \in T : \A m \in T : ~(<<m, n>> \in OpToRel(<, Nat))
  BY NatLessThanWellFounded, WFMin
<1>2. \A m \in T : ~(m < n)
  BY <1>1 DEF OpToRel
<1> QED BY <1>2

(* Induction over the natural numbers, for a set of them.                     *)
LEMMA CountingUp ==
  ASSUME NEW T, T \subseteq Nat, 0 \in T, \A n \in T : n + 1 \in T
  PROVE  T = Nat
<1> SUFFICES ASSUME Nat \ T # {} PROVE FALSE
  OBVIOUS
<1>1. PICK n \in Nat \ T : \A m \in Nat \ T : n <= m
  <2> DEFINE rest == Nat \ T
  <2>1. rest \subseteq Nat /\ rest # {}
    OBVIOUS
  <2> HIDE DEF rest
  <2>2. \E n \in rest : \A m \in rest : n <= m
    BY <2>1, LeastNatural
  <2> QED BY <2>2 DEF rest
<1>2. n # 0 /\ n - 1 \in Nat /\ n - 1 < n
  BY <1>1
<1>3. n - 1 \in T
  BY <1>1, <1>2
<1> QED BY <1>1, <1>3

(* A part of a text, symbol by symbol,                                        *)
LEMMA PartOf ==
  ASSUME NEW text \in Seq(Symbols), NEW i \in Nat, NEW n \in Nat, i + n <= Len(text)
  PROVE  LET part == SubSeq(text, i + 1, i + n)
         IN part \in Seq(Symbols) /\ Len(part) = n /\ \A k \in 1 .. n : part[k] = text[i + k]
<1> DEFINE part == SubSeq(text, i + 1, i + n)
<1>1. \A k \in i + 1 .. i + n : text[k] \in Symbols
  OBVIOUS
<1>2. i + 1 \in Int /\ i + n \in Int /\ (i + n) - (i + 1) + 1 = n
  OBVIOUS
<1>3. part \in Seq(Symbols)
  BY <1>1, <1>2, SubSeqProperties
<1>4. Len(part) = IF i + 1 <= i + n THEN (i + n) - (i + 1) + 1 ELSE 0
  BY <1>1, <1>2, SubSeqProperties
<1>5. \A k \in 1 .. (i + n) - (i + 1) + 1 : part[k] = text[(i + 1) + k - 1]
  BY <1>1, <1>2, SubSeqProperties
<1> HIDE DEF part
<1>6. \A k \in 1 .. n : (i + 1) + k - 1 = i + k
  OBVIOUS
<1>7. part \in Seq(Symbols) /\ Len(part) = n /\ \A k \in 1 .. n : part[k] = text[i + k]
  BY <1>2, <1>3, <1>4, <1>5, <1>6
<1> QED BY <1>7 DEF part

(* and where a tag is in a text.                                              *)
LEMMA PositionMeans ==
  ASSUME NEW text \in Seq(Symbols), NEW tag \in Seq(Symbols), NEW i \in Nat
  PROVE  i \in Positions(tag, text) <=>
           i + Len(tag) <= Len(text) /\ \A k \in 1 .. Len(tag) : text[i + k] = tag[k]
<1> DEFINE part == SubSeq(text, i + 1, i + Len(tag))
<1>1. Len(text) \in Nat /\ Len(tag) \in Nat
  OBVIOUS
<1>2. i \in Positions(tag, text) <=> i + Len(tag) <= Len(text) /\ part = tag
  BY <1>1 DEF Positions
<1>3. ASSUME i + Len(tag) <= Len(text)
      PROVE  part = tag <=> \A k \in 1 .. Len(tag) : text[i + k] = tag[k]
  <2>1. /\ part \in Seq(Symbols) /\ Len(part) = Len(tag)
        /\ \A k \in 1 .. Len(tag) : part[k] = text[i + k]
    BY <1>1, <1>3, PartOf
  <2> HIDE DEF part
  <2>2. part = tag <=> \A k \in 1 .. Len(tag) : part[k] = tag[k]
    BY <2>1, SeqEqual
  <2> QED BY <2>1, <2>2
<1> QED BY <1>2, <1>3

(* Of the close tags after a position there is a first, and it ends inside    *)
(* the text.                                                                  *)
LEMMA FirstCloseIsFirst ==
  ASSUME NEW text \in Seq(Symbols), NEW i \in 0 .. Len(text), Closing(text, i) # {}
  PROVE  /\ FirstClose(text, i) \in Closing(text, i)
         /\ \A d \in Closing(text, i) : FirstClose(text, i) <= d
         /\ FirstClose(text, i) + Len(Close) \in i + 1 .. Len(text)
<1>1. Closing(text, i) \subseteq Nat
  BY DEF Closing, Positions
<1>2. \E c \in Closing(text, i) : \A d \in Closing(text, i) : c <= d
  BY <1>1, LeastNatural
<1>3. /\ FirstClose(text, i) \in Closing(text, i)
      /\ \A d \in Closing(text, i) : FirstClose(text, i) <= d
  BY <1>2, Zenon DEF FirstClose
<1>4. /\ FirstClose(text, i) \in Nat /\ FirstClose(text, i) >= i
      /\ FirstClose(text, i) + Len(Close) <= Len(text)
  BY <1>3 DEF Closing, Positions
<1> QED BY <1>3, <1>4, FilterAssumption

(* One step of the function StrippedFrom.                                     *)
Stripping(text, g, i) ==
  IF i = Len(text) THEN <<>>
  ELSE IF i \notin Positions(Open, text) THEN <<text[i + 1]>> \o g[i + 1]
  ELSE IF Closing(text, i) = {} THEN <<>>
  ELSE g[FirstClose(text, i) + Len(Close)]

StrippedBy(text, g) == [i \in 0 .. Len(text) |-> Stripping(text, g, i)]

(* A step looks at later positions only,                                      *)
LEMMA StrippingLooksAhead ==
  ASSUME NEW text \in Seq(Symbols), NEW i \in 0 .. Len(text), NEW g,
         \A j \in i + 1 .. Len(text) : g[j] \in Seq(Symbols)
  PROVE  /\ Stripping(text, g, i) \in Seq(Symbols)
         /\ \A h : (\A j \in i + 1 .. Len(text) : h[j] = g[j]) => Stripping(text, g, i) = Stripping(text, h, i)
<1>1. Len(text) \in Nat
  OBVIOUS
<1>2. CASE i = Len(text)
  BY <1>2, EmptySeq DEF Stripping
<1>3. CASE i # Len(text) /\ i \notin Positions(Open, text)
  <2>1. i + 1 \in 1 .. Len(text) /\ i + 1 \in i + 1 .. Len(text)
    BY <1>1, <1>3
  <2>2. <<text[i + 1]>> \in Seq(Symbols)
    BY <2>1
  <2>3. <<text[i + 1]>> \o g[i + 1] \in Seq(Symbols)
    BY <2>1, <2>2, ConcatProperties
  <2> QED BY <1>3, <2>1, <2>3 DEF Stripping
<1>4. CASE i # Len(text) /\ i \in Positions(Open, text) /\ Closing(text, i) = {}
  BY <1>4, EmptySeq DEF Stripping
<1>5. CASE i # Len(text) /\ i \in Positions(Open, text) /\ Closing(text, i) # {}
  <2>1. FirstClose(text, i) + Len(Close) \in i + 1 .. Len(text)
    BY <1>5, FirstCloseIsFirst
  <2> QED BY <1>5, <2>1 DEF Stripping
<1> QED BY <1>2, <1>3, <1>4, <1>5

(* so that a function which takes these steps exists, shown for ever longer   *)
(* ends of the text,                                                          *)
LEMMA StrippingExists ==
  ASSUME NEW text \in Seq(Symbols)
  PROVE  \E g : g = StrippedBy(text, g)
<1> DEFINE l == Len(text)
           LastOnes(n, g) == \A i \in 0 .. l : i + n > l => g[i] = Stripping(text, g, i)
           T == {n \in Nat : \E g \in [0 .. l -> Seq(Symbols)] : LastOnes(n, g)}
<1>0. l \in Nat /\ <<>> \in Seq(Symbols)
  BY EmptySeq
<1>1. 0 \in T
  <2> DEFINE g == [i \in 0 .. l |-> <<>>]
  <2>1. g \in [0 .. l -> Seq(Symbols)]
    BY <1>0
  <2>2. LastOnes(0, g)
    BY <1>0
  <2> HIDE DEF g, LastOnes
  <2> QED BY <2>1, <2>2
<1>2. ASSUME NEW n \in T PROVE n + 1 \in T
  <2>1. n \in Nat
    OBVIOUS
  <2>2. PICK g \in [0 .. l -> Seq(Symbols)] : LastOnes(n, g)
    OBVIOUS
  <2> DEFINE h == StrippedBy(text, g)
  <2>3. h \in [0 .. l -> Seq(Symbols)]
    <3> SUFFICES ASSUME NEW i \in 0 .. l PROVE Stripping(text, g, i) \in Seq(Symbols)
      BY DEF StrippedBy
    <3>1. \A j \in i + 1 .. l : g[j] \in Seq(Symbols)
      BY <1>0
    <3> QED BY <3>1, StrippingLooksAhead
  <2>4. LastOnes(n + 1, h)
    <3> SUFFICES ASSUME NEW i \in 0 .. l, i + (n + 1) > l
                 PROVE  h[i] = Stripping(text, h, i)
      OBVIOUS
    <3>1. h[i] = Stripping(text, g, i)
      BY DEF StrippedBy
    <3>2. \A j \in i + 1 .. l : g[j] \in Seq(Symbols)
      BY <1>0
    <3>3. \A j \in i + 1 .. l : h[j] = g[j]
      BY <1>0, <2>1, <2>2 DEF StrippedBy
    <3> HIDE DEF h
    <3>4. Stripping(text, g, i) = Stripping(text, h, i)
      BY <3>2, <3>3, StrippingLooksAhead
    <3> QED BY <3>1, <3>4
  <2> HIDE DEF h, LastOnes
  <2>5. \E f \in [0 .. l -> Seq(Symbols)] : LastOnes(n + 1, f)
    BY <2>3, <2>4
  <2>6. n + 1 \in Nat
    BY <2>1
  <2> QED BY <2>5, <2>6
<1>3. T = Nat
  <2>1. T \subseteq Nat
    OBVIOUS
  <2> HIDE DEF T
  <2> QED BY <1>1, <1>2, <2>1, CountingUp
<1>4. PICK g \in [0 .. l -> Seq(Symbols)] : LastOnes(l + 1, g)
  <2>1. l + 1 \in Nat
    BY <1>0
  <2> HIDE DEF T, LastOnes
  <2>2. l + 1 \in T
    BY <1>3, <2>1
  <2> QED BY <2>2 DEF T
<1>5. \A i \in 0 .. l : g[i] = Stripping(text, g, i)
  BY <1>0, <1>4
<1>6. g = StrippedBy(text, g)
  BY <1>5 DEF StrippedBy
<1> QED BY <1>6, Zenon

(* and StrippedFrom is one.                                                   *)
LEMMA StrippedFromEquation ==
  ASSUME NEW text \in Seq(Symbols), NEW i \in 0 .. Len(text)
  PROVE  StrippedFrom(text)[i] = Stripping(text, StrippedFrom(text), i)
<1> DEFINE F(g) == [j \in 0 .. Len(text) |->
                      IF j = Len(text) THEN <<>>
                      ELSE IF j \notin Positions(Open, text) THEN <<text[j + 1]>> \o g[j + 1]
                      ELSE IF Closing(text, j) = {} THEN <<>>
                      ELSE g[FirstClose(text, j) + Len(Close)]]
           from == CHOOSE g : g = F(g)
<1>1. StrippedFrom(text) = from
  BY Zenon DEF StrippedFrom
<1>2. ASSUME NEW g PROVE F(g) = StrippedBy(text, g)
  BY Zenon DEF StrippedBy, Stripping
<1> HIDE DEF F
<1>3. \E g : g = F(g)
  BY <1>2, StrippingExists
<1>4. from = F(from)
  BY <1>3, Zenon
<1> HIDE DEF from
<1>5. from = StrippedBy(text, from)
  BY <1>2, <1>4, Zenon
<1>6. StrippedBy(text, from)[i] = Stripping(text, from, i)
  BY DEF StrippedBy
<1> QED BY <1>1, <1>5, <1>6, Zenon

(* Its values are texts, again from the end of the text on.                   *)
LEMMA StrippedFromIsText ==
  ASSUME NEW text \in Seq(Symbols), NEW i \in 0 .. Len(text)
  PROVE  StrippedFrom(text)[i] \in Seq(Symbols)
<1> DEFINE l == Len(text)
           g == StrippedFrom(text)
           LastOnes(n) == \A j \in 0 .. l : j + n > l => g[j] \in Seq(Symbols)
           T == {n \in Nat : LastOnes(n)}
<1>0. l \in Nat
  OBVIOUS
<1> HIDE DEF g
<1>1. LastOnes(0)
  BY <1>0
<1>2. ASSUME NEW n \in Nat, LastOnes(n) PROVE LastOnes(n + 1)
  <2> SUFFICES ASSUME NEW j \in 0 .. l, j + (n + 1) > l PROVE g[j] \in Seq(Symbols)
    OBVIOUS
  <2>1. \A k \in j + 1 .. l : g[k] \in Seq(Symbols)
    BY <1>0, <1>2
  <2>2. Stripping(text, g, j) \in Seq(Symbols)
    BY <2>1, StrippingLooksAhead
  <2> QED BY <2>2, StrippedFromEquation DEF g
<1> HIDE DEF LastOnes
<1>3. T = Nat
  <2>1. T \subseteq Nat /\ 0 \in T /\ \A n \in T : n + 1 \in T
    BY <1>1, <1>2
  <2> HIDE DEF T
  <2> QED BY <2>1, CountingUp
<1>4. LastOnes(l + 1)
  BY <1>0, <1>3
<1> QED BY <1>0, <1>4 DEF LastOnes, g

(* Three texts, one after the other.                                          *)
LEMMA Regroup ==
  ASSUME NEW a \in Seq(Symbols), NEW b \in Seq(Symbols), NEW c \in Seq(Symbols)
  PROVE  (a \o b) \o c = a \o (b \o c)
OBVIOUS

(* Where no block begins the text is passed on as it is.                      *)
NoneOpens(text, p, q) == \A j \in p .. q - 1 : j \notin Positions(Open, text)

LEMMA Skipping ==
  ASSUME NEW text \in Seq(Symbols), NEW p \in 0 .. Len(text), NEW q \in p .. Len(text),
         NoneOpens(text, p, q)
  PROVE  StrippedFrom(text)[p] = SubSeq(text, p + 1, q) \o StrippedFrom(text)[q]
<1> DEFINE l == Len(text)
           from == StrippedFrom(text)
           Before(n) == q - n >= p => from[q - n] = SubSeq(text, (q - n) + 1, q) \o from[q]
           T == {n \in Nat : Before(n)}
<1>0. l \in Nat /\ p \in Nat /\ q \in Nat /\ p <= q /\ q <= l
  OBVIOUS
<1>1. \A i \in 0 .. l : from[i] \in Seq(Symbols) /\ from[i] = Stripping(text, from, i)
  BY StrippedFromIsText, StrippedFromEquation
<1> HIDE DEF from
<1>2. Before(0)
  <2>1. SubSeq(text, q + 1, q) = <<>>
    BY <1>0, SubSeqEmpty
  <2>2. q - 0 = q /\ from[q] \in Seq(Symbols)
    BY <1>0, <1>1
  <2>3. <<>> \o from[q] = from[q]
    BY <2>2, ConcatEmptySeq
  <2> QED BY <2>1, <2>2, <2>3
<1>3. ASSUME NEW n \in Nat, Before(n) PROVE Before(n + 1)
  <2> SUFFICES ASSUME q - (n + 1) >= p
               PROVE  from[q - (n + 1)] = SubSeq(text, (q - (n + 1)) + 1, q) \o from[q]
    OBVIOUS
  <2> DEFINE i == q - (n + 1)
             rest == SubSeq(text, (i + 1) + 1, q)
  <2>1. i \in 0 .. l /\ i # l /\ i \in p .. q - 1 /\ i + 1 \in 1 .. l /\ q \in i + 1 .. l /\ q - n = i + 1
    BY <1>0
  <2> HIDE DEF i
  <2>2. from[i] = <<text[i + 1]>> \o from[i + 1]
    BY <1>1, <2>1 DEF Stripping, NoneOpens
  <2>3. from[i + 1] = rest \o from[q]
    <3>1. q - n >= p
      BY <1>0, <2>1
    <3>2. from[q - n] = SubSeq(text, (q - n) + 1, q) \o from[q]
      BY <1>3, <3>1
    <3> QED BY <2>1, <3>2, Zenon
  <2>4. <<text[i + 1]>> \in Seq(Symbols) /\ from[q] \in Seq(Symbols)
    <3>1. text[i + 1] \in Symbols
      BY <2>1
    <3>2. from[q] \in Seq(Symbols)
      BY <1>0, <1>1
    <3> QED BY <3>1, <3>2
  <2>5. rest \in Seq(Symbols)
    <3>1. \A k \in (i + 1) + 1 .. q : text[k] \in Symbols
      BY <1>0, <2>1
    <3>2. (i + 1) + 1 \in Int /\ q \in Int
      BY <1>0, <2>1
    <3> QED BY <3>1, <3>2, SubSeqProperties
  <2>6. SubSeq(text, i + 1, q) = <<text[i + 1]>> \o rest
    BY <2>1, SubSeqRecursiveFirst
  <2> HIDE DEF rest
  <2>7. from[i] = SubSeq(text, i + 1, q) \o from[q]
    <3> DEFINE one == <<text[i + 1]>>
    <3>1. one \in Seq(Symbols) /\ from[q] \in Seq(Symbols) /\ rest \in Seq(Symbols)
      BY <2>4, <2>5
    <3>2. from[i] = one \o (rest \o from[q]) /\ SubSeq(text, i + 1, q) = one \o rest
      BY <2>2, <2>3, <2>6, Zenon
    <3> HIDE DEF one
    <3>3. (one \o rest) \o from[q] = one \o (rest \o from[q])
      BY <3>1, Regroup
    <3> QED BY <3>2, <3>3, Zenon
  <2> QED BY <2>7 DEF i
<1> HIDE DEF Before
<1>4. T = Nat
  <2>1. T \subseteq Nat /\ 0 \in T /\ \A n \in T : n + 1 \in T
    BY <1>2, <1>3
  <2> HIDE DEF T
  <2> QED BY <2>1, CountingUp
<1>5. Before(q - p)
  BY <1>0, <1>4
<1>6. q - (q - p) = p
  BY <1>0
<1>7. p >= p
  BY <1>0
<1> QED BY <1>5, <1>6, <1>7, Zenon DEF Before, from

(* A block is passed over.                                                    *)
LEMMA PassingOver ==
  ASSUME NEW text \in Seq(Symbols), NEW p \in Positions(Open, text)
  PROVE  /\ Closing(text, p) = {} => StrippedFrom(text)[p] = <<>>
         /\ \A c \in Closing(text, p) :
              (\A d \in Closing(text, p) : c <= d) =>
                StrippedFrom(text)[p] = StrippedFrom(text)[c + Len(Close)]
<1>1. p \in 0 .. Len(text) /\ p # Len(text)
  BY FilterAssumption DEF Positions
<1>2. StrippedFrom(text)[p] = IF Closing(text, p) = {} THEN <<>>
                              ELSE StrippedFrom(text)[FirstClose(text, p) + Len(Close)]
  BY <1>1, StrippedFromEquation DEF Stripping
<1>3. ASSUME NEW c \in Closing(text, p), \A d \in Closing(text, p) : c <= d
      PROVE  c = FirstClose(text, p)
  <2>1. Closing(text, p) # {} /\ Closing(text, p) \subseteq Nat
    <3>1. Closing(text, p) # {}
      OBVIOUS
    <3>2. Closing(text, p) \subseteq Nat
      BY DEF Closing, Positions
    <3> QED BY <3>1, <3>2
  <2>2. /\ FirstClose(text, p) \in Closing(text, p)
        /\ \A d \in Closing(text, p) : FirstClose(text, p) <= d
    BY <1>1, <2>1, FirstCloseIsFirst
  <2>3. c <= FirstClose(text, p) /\ FirstClose(text, p) <= c /\ c \in Nat /\ FirstClose(text, p) \in Nat
    BY <1>3, <2>1, <2>2
  <2> QED BY <2>3
<1> QED BY <1>2, <1>3

----------------------------------------------------------------------------
(* The text that is held back is where it is in the text received, and every  *)
(* text that this one may still become is what was spoken and what is left    *)
(* of it from there on. At the beginning of a block the held-back text is an  *)
(* open tag, also in the text received.                                       *)
Continues(t, s) ==
  /\ t \in Seq(Symbols) /\ s \in Seq(Symbols)
  /\ Len(s) <= Len(t) /\ \A k \in 1 .. Len(s) : t[k] = s[k]

Held(b, s, p) ==
  /\ b \in Seq(Symbols) /\ s \in Seq(Symbols) /\ p \in Nat
  /\ p + Len(b) = Len(s) /\ \A k \in 1 .. Len(b) : b[k] = s[p + k]

Ahead(b, p, n, q) == n \in Nat /\ n <= Len(b) /\ q = p + n

Exact(said, s, p) == \A t : Continues(t, s) => Stripped(t) = said \o StrippedFrom(t)[p]

OnCourse(p) ==
  /\ Held(buf, received, p)
  /\ Exact(spoken, received, p)
  /\ inLeak => p \in Positions(Open, received)
  /\ pc = "await" /\ inLeak => Missing(Close, buf)

ExactInv ==
  /\ pc = "done" => NothingLostNorLeaked
  /\ pc # "done" /\ ~gaveUp => OnCourse(Len(received) - Len(buf))

(* A tag in the text held back is one of the whole text.                      *)
LEMMA TagsOfTheHeld ==
  ASSUME NEW b \in Seq(Symbols), NEW s \in Seq(Symbols), NEW t \in Seq(Symbols), NEW p \in Nat,
         Held(b, s, p), Continues(t, s),
         NEW tag \in Seq(Symbols), NEW j \in Nat, j + Len(tag) <= Len(b)
  PROVE  j \in Positions(tag, b) <=> p + j \in Positions(tag, t)
<1>1. /\ Len(b) \in Nat /\ Len(s) \in Nat /\ Len(t) \in Nat /\ Len(tag) \in Nat
      /\ p \in Nat /\ p + Len(b) = Len(s) /\ Len(s) <= Len(t) /\ p + j \in Nat
  BY DEF Held, Continues
<1>2. \A k \in 1 .. Len(tag) : b[j + k] = t[(p + j) + k]
  <2> SUFFICES ASSUME NEW k \in 1 .. Len(tag) PROVE b[j + k] = t[(p + j) + k]
    OBVIOUS
  <2>1. j + k \in 1 .. Len(b) /\ p + (j + k) = (p + j) + k /\ p + (j + k) \in 1 .. Len(s)
    BY <1>1
  <2>2. b[j + k] = s[p + (j + k)] /\ t[p + (j + k)] = s[p + (j + k)]
    BY <2>1 DEF Held, Continues
  <2> QED BY <2>1, <2>2
<1>3. j \in Positions(tag, b) <=> \A k \in 1 .. Len(tag) : b[j + k] = tag[k]
  BY PositionMeans
<1>4. (p + j) + Len(tag) <= Len(t)
  BY <1>1
<1>5. p + j \in Positions(tag, t) <=> \A k \in 1 .. Len(tag) : t[(p + j) + k] = tag[k]
  BY <1>1, <1>4, PositionMeans
<1> QED BY <1>2, <1>3, <1>5

(* A tag stays where it is.                                                   *)
LEMMA TagsStay ==
  ASSUME NEW s \in Seq(Symbols), NEW t \in Seq(Symbols), Continues(t, s),
         NEW tag \in Seq(Symbols), NEW i \in Positions(tag, s)
  PROVE  i \in Positions(tag, t)
<1>1. i \in Nat /\ i + Len(tag) <= Len(s) /\ Len(s) <= Len(t) /\ Len(s) \in Nat /\ Len(t) \in Nat
      /\ Len(tag) \in Nat
  BY DEF Positions, Continues
<1>2. \A k \in 1 .. Len(tag) : s[i + k] = tag[k]
  BY <1>1, PositionMeans
<1>3. \A k \in 1 .. Len(tag) : t[i + k] = s[i + k]
  BY <1>1 DEF Continues
<1>4. \A k \in 1 .. Len(tag) : t[i + k] = tag[k]
  BY <1>2, <1>3
<1>5. i + Len(tag) <= Len(t)
  BY <1>1
<1> QED BY <1>1, <1>4, <1>5, PositionMeans

(* Up to where no block begins, what is held back is to be passed on.         *)
PassesOn(t, p, a, q) ==
  /\ StrippedFrom(t)[p] = a \o StrippedFrom(t)[q]
  /\ a \in Seq(Symbols) /\ StrippedFrom(t)[q] \in Seq(Symbols)

LEMMA HeldIsPassedOn ==
  ASSUME NEW b, NEW s, NEW t, NEW p, NEW n, NEW q,
         Held(b, s, p), Continues(t, s), Ahead(b, p, n, q), NoneOpens(t, p, q)
  PROVE  PassesOn(t, p, SubSeq(b, 1, n), q)
<1>0. b \in Seq(Symbols) /\ s \in Seq(Symbols) /\ t \in Seq(Symbols) /\ p \in Nat
      /\ n \in Nat /\ n <= Len(b) /\ q = p + n
  BY DEF Held, Continues, Ahead
<1> USE <1>0
<1>1. /\ Len(b) \in Nat /\ Len(s) \in Nat /\ Len(t) \in Nat
      /\ p \in Nat /\ p + Len(b) = Len(s) /\ Len(s) <= Len(t)
  BY DEF Held, Continues
<1>2. p \in 0 .. Len(t) /\ q \in p .. Len(t) /\ q \in 0 .. Len(t)
  BY <1>1
<1>3. StrippedFrom(t)[p] = SubSeq(t, p + 1, q) \o StrippedFrom(t)[q]
  BY <1>2, Skipping
<1>4. SubSeq(t, p + 1, q) = SubSeq(b, 1, n) /\ SubSeq(b, 1, n) \in Seq(Symbols)
  <2> DEFINE u == SubSeq(t, p + 1, p + n)
             v == SubSeq(b, 1, n)
  <2>1. /\ u \in Seq(Symbols) /\ Len(u) = n /\ \A k \in 1 .. n : u[k] = t[p + k]
    BY <1>1, PartOf
  <2>2. /\ v \in Seq(Symbols) /\ Len(v) = n /\ \A k \in 1 .. n : v[k] = b[k]
    <3>1. SubSeq(b, 0 + 1, 0 + n) = v /\ 0 \in Nat /\ n \in Nat /\ 0 + n <= Len(b)
      BY <1>1
    <3> HIDE DEF v
    <3>2. v \in Seq(Symbols) /\ Len(v) = n /\ \A k \in 1 .. n : v[k] = b[0 + k]
      BY <3>1, PartOf
    <3> QED BY <3>1, <3>2
  <2>3. ASSUME NEW k \in 1 .. n PROVE t[p + k] = b[k]
    <3>1. k \in 1 .. Len(b) /\ p + k \in 1 .. Len(s)
      BY <1>1
    <3> QED BY <3>1 DEF Held, Continues
  <2> HIDE DEF u, v
  <2>4. u = v
    BY <2>1, <2>2, <2>3, SeqEqual
  <2> QED BY <2>2, <2>4 DEF u, v
<1>5. StrippedFrom(t)[q] \in Seq(Symbols)
  BY <1>2, StrippedFromIsText
<1> QED BY <1>3, <1>4, <1>5 DEF PassesOn

(* What a step does to the text spoken, and to what it may become.            *)
LEMMA StayExact ==
  ASSUME NEW b, NEW s, NEW p, NEW said, NEW n, NEW q,
         Held(b, s, p), Ahead(b, p, n, q), said \in Seq(Symbols), Exact(said, s, p),
         \A t : Continues(t, s) => NoneOpens(t, p, q)
  PROVE  Exact(said \o SubSeq(b, 1, n), s, q)
<1> SUFFICES ASSUME NEW t, Continues(t, s)
             PROVE  Stripped(t) = (said \o SubSeq(b, 1, n)) \o StrippedFrom(t)[q]
  BY Zenon DEF Exact
<1> DEFINE a == SubSeq(b, 1, n)
           c == StrippedFrom(t)[q]
<1>1. StrippedFrom(t)[p] = a \o c /\ a \in Seq(Symbols) /\ c \in Seq(Symbols)
  <2>1. PassesOn(t, p, a, q)
    BY HeldIsPassedOn, Zenon
  <2> QED BY <2>1, Zenon DEF PassesOn
<1>2. Stripped(t) = said \o StrippedFrom(t)[p]
  BY Zenon DEF Exact
<1> HIDE DEF a, c
<1>3. (said \o a) \o c = said \o (a \o c)
  BY <1>1, Regroup
<1>4. Stripped(t) = (said \o a) \o c
  BY <1>1, <1>2, <1>3, Zenon
<1> QED BY <1>4 DEF a, c

(* Passing on the beginning of what is held back.                             *)
LEMMA StayHeld ==
  ASSUME NEW b, NEW s, NEW p, NEW n, NEW q, Held(b, s, p), Ahead(b, p, n, q)
  PROVE  Held(After(b, n), s, q) /\ Len(s) - Len(After(b, n)) = q
<1>0. /\ b \in Seq(Symbols) /\ s \in Seq(Symbols) /\ p \in Nat
      /\ n \in Nat /\ n <= Len(b) /\ q = p + n
  BY DEF Held, Ahead
<1> USE <1>0
<1>1. /\ Len(b) \in Nat /\ Len(s) \in Nat /\ p + Len(b) = Len(s) /\ Len(b) - n \in Nat
      /\ n \in Nat /\ n + (Len(b) - n) = Len(b) /\ n + (Len(b) - n) <= Len(b)
  BY DEF Held
<1> DEFINE m == Len(b) - n
           c == SubSeq(b, n + 1, n + m)
<1>2. c \in Seq(Symbols) /\ Len(c) = m /\ \A k \in 1 .. m : c[k] = b[n + k]
  <2>1. m \in Nat /\ n \in Nat /\ n + m <= Len(b)
    BY <1>1
  <2> HIDE DEF m
  <2> QED BY <2>1, PartOf
<1>3. After(b, n) = c
  BY <1>1 DEF After
<1>l. Len(c) = Len(b) - n
  BY <1>2
<1> HIDE DEF c, m
<1>4. ASSUME NEW k \in 1 .. Len(c) PROVE c[k] = s[(p + n) + k]
  <2>1. n + k \in 1 .. Len(b) /\ p + (n + k) = (p + n) + k /\ k \in 1 .. m
    BY <1>1, <1>l DEF m
  <2>2. b[n + k] = s[p + (n + k)]
    BY <2>1 DEF Held
  <2> QED BY <1>2, <2>1, <2>2
<1>5. p + n \in Nat /\ (p + n) + Len(c) = Len(s)
  BY <1>1, <1>l
<1>6. Held(c, s, p + n)
  BY <1>2, <1>4, <1>5 DEF Held
<1>7. Len(s) - Len(c) = p + n
  BY <1>1, <1>l
<1> QED BY <1>2, <1>3, <1>6, <1>7

(* A chunk is held back with the text that was.                               *)
LEMMA ReceivedIsHeld ==
  ASSUME NEW b, NEW s, NEW p, Held(b, s, p),
         NEW c \in Seq(Symbols)
  PROVE  /\ Held(b \o c, s \o c, p) /\ b \o c \in Seq(Symbols) /\ s \o c \in Seq(Symbols)
         /\ Len(s \o c) - Len(b \o c) = p
         /\ \A t : Continues(t, s \o c) => Continues(t, s)
         /\ Continues(s \o c, s)
<1>0. b \in Seq(Symbols) /\ s \in Seq(Symbols) /\ p \in Nat
  BY DEF Held
<1> USE <1>0
<1> DEFINE bc == b \o c
           sc == s \o c
<1>1. /\ Len(b) \in Nat /\ Len(s) \in Nat /\ Len(c) \in Nat /\ p \in Nat /\ p + Len(b) = Len(s)
  BY DEF Held
<1>2. /\ bc \in Seq(Symbols) /\ Len(bc) = Len(b) + Len(c)
      /\ \A k \in 1 .. Len(b) + Len(c) : bc[k] = IF k <= Len(b) THEN b[k] ELSE c[k - Len(b)]
  BY ConcatProperties
<1>3. /\ sc \in Seq(Symbols) /\ Len(sc) = Len(s) + Len(c)
      /\ \A k \in 1 .. Len(s) + Len(c) : sc[k] = IF k <= Len(s) THEN s[k] ELSE c[k - Len(s)]
  BY ConcatProperties
<1>l. Len(bc) = Len(b) + Len(c) /\ Len(sc) = Len(s) + Len(c)
  BY <1>2, <1>3
<1> HIDE DEF bc, sc
<1>5. p + Len(bc) = Len(sc) /\ Len(sc) - Len(bc) = p
  <2> DEFINE lb == Len(b)
             ls == Len(s)
             lc == Len(c)
  <2>1. /\ lb \in Nat /\ ls \in Nat /\ lc \in Nat /\ p + lb = ls
        /\ Len(bc) = lb + lc /\ Len(sc) = ls + lc
    BY <1>1, <1>l
  <2> HIDE DEF lb, ls, lc
  <2> QED BY <2>1
<1>4. ASSUME NEW k \in 1 .. Len(bc) PROVE bc[k] = sc[p + k]
  <2>1. p + k \in 1 .. Len(s) + Len(c) /\ k \in 1 .. Len(b) + Len(c) /\ (k <= Len(b) <=> p + k <= Len(s))
        /\ (p + k) - Len(s) = k - Len(b)
    <3> DEFINE lb == Len(b)
               ls == Len(s)
               lc == Len(c)
    <3>1. lb \in Nat /\ ls \in Nat /\ lc \in Nat /\ p + lb = ls /\ k \in 1 .. lb + lc
      BY <1>1, <1>l
    <3> HIDE DEF lb, ls, lc
    <3>2. /\ p + k \in 1 .. ls + lc /\ k \in 1 .. lb + lc /\ (k <= lb <=> p + k <= ls)
          /\ (p + k) - ls = k - lb
      BY <3>1
    <3> QED BY <3>2 DEF lb, ls, lc
  <2>2. CASE k <= Len(b)
    <3>1. k \in 1 .. Len(b)
      BY <1>1, <2>1, <2>2
    <3>2. b[k] = s[p + k]
      BY <3>1 DEF Held
    <3> QED BY <1>2, <1>3, <2>1, <2>2, <3>2
  <2>3. CASE ~(k <= Len(b))
    BY <1>2, <1>3, <2>1, <2>3
  <2> QED BY <2>2, <2>3
<1>6. Held(bc, sc, p)
  BY <1>2, <1>3, <1>4, <1>5 DEF Held
<1>7. Len(s) <= Len(sc) /\ \A k \in 1 .. Len(s) : k \in 1 .. Len(sc) /\ sc[k] = s[k]
  <2>1. Len(s) <= Len(sc)
    BY <1>1, <1>l
  <2>2. ASSUME NEW k \in 1 .. Len(s) PROVE k \in 1 .. Len(sc) /\ sc[k] = s[k]
    <3>1. k <= Len(s) /\ k \in 1 .. Len(s) + Len(c)
      BY <1>1
    <3> QED BY <1>l, <1>3, <3>1
  <2> QED BY <2>1, <2>2
<1>8. Continues(sc, s)
  BY <1>3, <1>7 DEF Continues
<1>9. ASSUME NEW t, Continues(t, sc) PROVE Continues(t, s)
  <2>1. t \in Seq(Symbols) /\ Len(t) \in Nat /\ Len(sc) <= Len(t) /\ \A k \in 1 .. Len(sc) : t[k] = sc[k]
    BY <1>9 DEF Continues
  <2>2. Len(s) <= Len(t)
    BY <1>1, <1>l, <2>1
  <2>3. \A k \in 1 .. Len(s) : t[k] = s[k]
    BY <1>7, <2>1
  <2> QED BY <2>1, <2>2, <2>3 DEF Continues
<1> QED BY <1>2, <1>3, <1>5, <1>6, <1>8, <1>9 DEF bc, sc

(* Between chunks: what is held back outside a block is shorter than an open  *)
(* tag, and in a block it has no close tag.                                   *)
LEMMA BetweenChunks ==
  ASSUME TypeOK, DelayIsBounded, pc = "await", NEW p \in Nat, OnCourse(p)
  PROVE  Stripped(received) = spoken \o (IF inLeak THEN <<>> ELSE buf)
<1>1. /\ buf \in Seq(Symbols) /\ received \in Seq(Symbols) /\ spoken \in Seq(Symbols)
      /\ Held(buf, received, p) /\ Continues(received, received) /\ inLeak \in BOOLEAN
  BY DEF TypeOK, OnCourse, Continues
<1>2. Len(buf) \in Nat /\ p + Len(buf) = Len(received) /\ Len(received) \in Nat
  BY <1>1 DEF Held
<1>3. Stripped(received) = spoken \o StrippedFrom(received)[p]
  BY <1>1 DEF OnCourse, Exact
<1>4. CASE inLeak
  <2>1. p \in Positions(Open, received) /\ Missing(Close, buf)
    BY <1>4 DEF OnCourse
  <2>2. Closing(received, p) = {}
    <3> SUFFICES ASSUME NEW c \in Closing(received, p) PROVE FALSE
      OBVIOUS
    <3>1. c \in Positions(Close, received) /\ c >= p /\ c \in Nat /\ c + Len(Close) <= Len(received)
      BY DEF Closing, Positions
    <3>2. c - p \in Nat /\ p + (c - p) = c /\ (c - p) + Len(Close) <= Len(buf) /\ Close \in Seq(Symbols)
      BY <1>2, <3>1, FilterAssumption
    <3>3. c - p \in Positions(Close, buf)
      BY <1>1, <3>1, <3>2, TagsOfTheHeld
    <3> QED BY <2>1, <3>3 DEF Missing
  <2>3. StrippedFrom(received)[p] = <<>>
    BY <1>1, <2>1, <2>2, PassingOver
  <2> QED BY <1>3, <1>4, <2>3
<1>5. CASE ~inLeak
  <2>1. Len(buf) < Len(Open) /\ Len(Open) \in Nat
    BY <1>5, FilterAssumption DEF DelayIsBounded
  <2>2. NoneOpens(received, p, p + Len(buf))
    BY <1>2, <2>1 DEF Positions, NoneOpens
  <2>3. Ahead(buf, p, Len(buf), p + Len(buf))
    BY <1>2 DEF Ahead
  <2>4. StrippedFrom(received)[p] = SubSeq(buf, 1, Len(buf)) \o StrippedFrom(received)[p + Len(buf)]
    <3>1. PassesOn(received, p, SubSeq(buf, 1, Len(buf)), p + Len(buf))
      BY <1>1, <2>2, <2>3, HeldIsPassedOn, Zenon
    <3> QED BY <3>1, Zenon DEF PassesOn
  <2>5. SubSeq(buf, 1, Len(buf)) = buf
    BY <1>1
  <2>6. StrippedFrom(received)[p + Len(buf)] = <<>>
    <3>1. Len(received) \in 0 .. Len(received)
      BY <1>2
    <3>2. StrippedFrom(received)[Len(received)] = <<>>
      BY <1>1, <3>1, StrippedFromEquation DEF Stripping
    <3> QED BY <1>2, <3>2
  <2>7. buf \o <<>> = buf
    BY <1>1, ConcatEmptySeq
  <2> QED BY <1>3, <1>5, <2>4, <2>5, <2>6, <2>7
<1> QED BY <1>1, <1>4, <1>5

(* Every step keeps the invariant. PassOn and EnterLeak pass on text in which *)
(* no block begins, LeaveLeak passes over one, and what AwaitClose leaves is  *)
(* still in it; after GiveUp nothing is said any more.                        *)
LEMMA ExactStep ==
  ASSUME IInv, ExactInv, [Next]_vars
  PROVE  ExactInv'
<1> DEFINE p == Len(received) - Len(buf)
<1>t. TypeOK /\ DelayIsBounded /\ TypeOK' /\ DelayIsBounded'
  BY FilterStep DEF IInv
<1>s. /\ buf \in Seq(Symbols) /\ received \in Seq(Symbols) /\ spoken \in Seq(Symbols)
      /\ Open \in Seq(Symbols) /\ Close \in Seq(Symbols)
      /\ Len(buf) \in Nat /\ Len(received) \in Nat
      /\ Len(Open) \in Nat /\ Len(Open) > 0 /\ Len(Close) \in Nat /\ Len(Close) > 0
  BY <1>t, FilterAssumption DEF TypeOK
<1>c. ASSUME pc # "done", ~gaveUp
      PROVE  /\ OnCourse(p) /\ p \in Nat /\ Held(buf, received, p) /\ Exact(spoken, received, p)
             /\ p + Len(buf) = Len(received)
  BY <1>c DEF ExactInv, OnCourse, Held
<1>1. ASSUME NEW content \in Chunks, NEW structured \in BOOLEAN, Receive(content, structured)
      PROVE  ExactInv'
  <2>1. /\ pc = "await" /\ pc' = (IF content = <<>> THEN "await" ELSE "loop")
        /\ received' = received \o content /\ buf' = buf \o content
        /\ inLeak' = inLeak /\ spoken' = spoken /\ gaveUp' = gaveUp
        /\ content \in Seq(Symbols)
    BY <1>1, ChunkIsText DEF Receive
  <2> SUFFICES ASSUME ~gaveUp PROVE OnCourse(Len(received) - Len(buf))'
    BY <2>1 DEF ExactInv
  <2>2. OnCourse(p) /\ p \in Nat /\ Held(buf, received, p) /\ Exact(spoken, received, p)
    BY <1>c, <2>1
  <2> HIDE DEF p
  <2>3. /\ Held(buf', received', p) /\ buf' \in Seq(Symbols) /\ received' \in Seq(Symbols)
        /\ Len(received') - Len(buf') = p
        /\ \A t : Continues(t, received') => Continues(t, received)
        /\ Continues(received', received)
    BY <1>s, <2>1, <2>2, ReceivedIsHeld
  <2>4. Exact(spoken', received', p)
    BY <2>1, <2>2, <2>3 DEF Exact
  <2>5. inLeak' => p \in Positions(Open, received')
    BY <1>s, <2>1, <2>2, <2>3, TagsStay DEF OnCourse
  <2>6. pc' = "await" /\ inLeak' => Missing(Close, buf')
    <3> SUFFICES ASSUME pc' = "await", inLeak' PROVE Missing(Close, buf')
      OBVIOUS
    <3>1. content = <<>>
      BY <2>1
    <3>2. buf' = buf
      BY <1>s, <2>1, <3>1, ConcatEmptySeq
    <3> QED BY <2>1, <2>2, <3>2 DEF OnCourse
  <2> QED BY <2>3, <2>4, <2>5, <2>6 DEF OnCourse
<1>2. CASE PassOn
  <2> DEFINE n == SafeLength(buf)
  <2>1. /\ pc = "loop" /\ pc' = "await" /\ ~inLeak /\ Missing(Open, buf)
        /\ spoken' = spoken \o SubSeq(buf, 1, n) /\ buf' = After(buf, n)
        /\ UNCHANGED <<inLeak, received, gaveUp>>
    BY <1>2 DEF PassOn, Speak
  <2> SUFFICES ASSUME ~gaveUp PROVE OnCourse(Len(received) - Len(buf))'
    BY <2>1 DEF ExactInv
  <2>2. p \in Nat /\ Held(buf, received, p) /\ Exact(spoken, received, p) /\ p + Len(buf) = Len(received)
    BY <1>c, <2>1
  <2>3. n \in Nat /\ n <= Len(buf) /\ (n = 0 \/ n + Len(Open) = Len(buf) + 1)
    BY <1>s DEF SafeLength
  <2> HIDE DEF p, n
  <2>4. ASSUME NEW t, Continues(t, received)
        PROVE  NoneOpens(t, p, p + n)
    <3> SUFFICES ASSUME NEW j \in p .. (p + n) - 1 PROVE j \notin Positions(Open, t)
      BY DEF NoneOpens
    <3>0. t \in Seq(Symbols)
      BY <2>4 DEF Continues
    <3>1. j - p \in Nat /\ p + (j - p) = j /\ (j - p) + Len(Open) <= Len(buf)
      BY <1>s, <2>2, <2>3
    <3>2. j - p \in Positions(Open, buf) <=> j \in Positions(Open, t)
      BY <1>s, <2>2, <2>4, <3>0, <3>1, TagsOfTheHeld
    <3> QED BY <2>1, <3>2 DEF Missing
  <2>a. Ahead(buf, p, n, p + n)
    BY <2>3 DEF Ahead
  <2>5. Exact(spoken', received, p + n)
    BY <1>s, <2>1, <2>2, <2>4, <2>a, StayExact, Zenon
  <2>6. Held(buf', received, p + n) /\ Len(received) - Len(buf') = p + n
    BY <2>1, <2>2, <2>a, StayHeld, Zenon
  <2> QED BY <2>1, <2>5, <2>6 DEF OnCourse
<1>3. CASE EnterLeak
  <2>1. PICK i \in 0 .. Len(buf) :
          /\ FoundAt(Open, buf, i) /\ spoken' = spoken \o SubSeq(buf, 1, i) /\ buf' = After(buf, i)
    BY <1>3 DEF EnterLeak, Speak
  <2>2. pc = "loop" /\ pc' = "loop" /\ inLeak' = TRUE /\ UNCHANGED <<received, gaveUp>>
    BY <1>3 DEF EnterLeak
  <2> SUFFICES ASSUME ~gaveUp PROVE OnCourse(Len(received) - Len(buf))'
    BY <2>2 DEF ExactInv
  <2>3. p \in Nat /\ Held(buf, received, p) /\ Exact(spoken, received, p) /\ p + Len(buf) = Len(received)
    BY <1>c, <2>2
  <2> HIDE DEF p
  <2>4. /\ i \in Positions(Open, buf) /\ i + Len(Open) <= Len(buf) /\ i \in Nat /\ i <= Len(buf)
        /\ \A j \in Positions(Open, buf) : i <= j
    BY <2>1 DEF FoundAt, Positions
  <2>5. ASSUME NEW t, Continues(t, received)
        PROVE  NoneOpens(t, p, p + i)
    <3> SUFFICES ASSUME NEW j \in p .. (p + i) - 1 PROVE j \notin Positions(Open, t)
      BY DEF NoneOpens
    <3>0. t \in Seq(Symbols)
      BY <2>5 DEF Continues
    <3>1. j - p \in Nat /\ p + (j - p) = j /\ (j - p) + Len(Open) <= Len(buf) /\ ~(i <= j - p)
      BY <1>s, <2>3, <2>4
    <3>2. j - p \in Positions(Open, buf) <=> j \in Positions(Open, t)
      BY <1>s, <2>3, <2>5, <3>0, <3>1, TagsOfTheHeld
    <3> QED BY <2>4, <3>1, <3>2
  <2>a. Ahead(buf, p, i, p + i)
    BY <2>4 DEF Ahead
  <2>6. Exact(spoken', received, p + i)
    BY <1>s, <2>1, <2>3, <2>5, <2>a, StayExact, Zenon
  <2>7. Held(buf', received, p + i) /\ Len(received) - Len(buf') = p + i
    BY <2>1, <2>3, <2>a, StayHeld, Zenon
  <2>8. p + i \in Positions(Open, received)
    <3>1. Continues(received, received)
      BY <1>s DEF Continues
    <3> QED BY <1>s, <2>3, <2>4, <3>1, TagsOfTheHeld
  <2> QED BY <2>2, <2>6, <2>7, <2>8 DEF OnCourse
<1>4. CASE LeaveLeak
  <2>1. PICK i \in 0 .. Len(buf) : FoundAt(Close, buf, i) /\ buf' = After(buf, i + Len(Close))
    BY <1>4 DEF LeaveLeak
  <2>2. pc = "loop" /\ pc' = "loop" /\ inLeak /\ inLeak' = FALSE /\ UNCHANGED <<received, spoken, gaveUp>>
    BY <1>4 DEF LeaveLeak
  <2> SUFFICES ASSUME ~gaveUp PROVE OnCourse(Len(received) - Len(buf))'
    BY <2>2 DEF ExactInv
  <2>3. /\ p \in Nat /\ Held(buf, received, p) /\ Exact(spoken, received, p) /\ p + Len(buf) = Len(received)
        /\ p \in Positions(Open, received)
    BY <1>c, <2>2 DEF OnCourse
  <2> DEFINE n == i + Len(Close)
  <2>4. /\ i \in Positions(Close, buf) /\ n \in 0 .. Len(buf) /\ i \in Nat /\ n = i + Len(Close)
        /\ \A j \in Positions(Close, buf) : i <= j
    BY <1>s, <2>1 DEF FoundAt, Positions
  <2> HIDE DEF p, n
  <2>5. Exact(spoken', received, p + n)
    <3> SUFFICES ASSUME NEW t, Continues(t, received)
                 PROVE  StrippedFrom(t)[p] = StrippedFrom(t)[p + n]
      BY <2>2, <2>3 DEF Exact
    <3>0. t \in Seq(Symbols)
      BY DEF Continues
    <3>1. p \in Positions(Open, t)
      BY <1>s, <2>3, <3>0, TagsStay
    <3>2. p + i \in Closing(t, p)
      <4>1. p + i \in Positions(Close, t)
        BY <1>s, <2>3, <2>4, <3>0, TagsOfTheHeld
      <4> QED BY <2>3, <2>4, <4>1 DEF Closing
    <3>3. ASSUME NEW d \in Closing(t, p) PROVE p + i <= d
      <4> SUFFICES ASSUME ~(p + i <= d) PROVE FALSE
        OBVIOUS
      <4>1. d \in Positions(Close, t) /\ d \in Nat /\ d >= p
        BY DEF Closing, Positions
      <4>2. d - p \in Nat /\ p + (d - p) = d /\ (d - p) + Len(Close) <= Len(buf) /\ ~(i <= d - p)
        BY <1>s, <2>3, <2>4, <4>1
      <4>3. d - p \in Positions(Close, buf)
        BY <1>s, <2>3, <3>0, <4>1, <4>2, TagsOfTheHeld
      <4> QED BY <2>4, <4>2, <4>3
    <3>4. StrippedFrom(t)[p] = StrippedFrom(t)[(p + i) + Len(Close)]
      BY <3>0, <3>1, <3>2, <3>3, PassingOver
    <3>5. (p + i) + Len(Close) = p + n
      BY <1>s, <2>3, <2>4
    <3> QED BY <3>4, <3>5
  <2>6. Held(buf', received, p + n) /\ Len(received) - Len(buf') = p + n
    <3>1. buf' = After(buf, n)
      BY <2>1 DEF n
    <3>2. Ahead(buf, p, n, p + n)
      BY <2>4 DEF Ahead
    <3> QED BY <2>3, <3>1, <3>2, StayHeld, Zenon
  <2> QED BY <2>2, <2>5, <2>6 DEF OnCourse
<1>5. CASE AwaitClose
  <2>1. /\ pc = "loop" /\ pc' = "await" /\ Missing(Close, buf)
        /\ UNCHANGED <<buf, inLeak, received, spoken, gaveUp>>
    BY <1>5 DEF AwaitClose
  <2> QED BY <1>c, <2>1 DEF ExactInv, OnCourse, Held, Exact
<1>6. CASE GiveUp
  BY <1>6 DEF GiveUp, ExactInv
<1>7. CASE End
  <2>1. /\ pc = "await" /\ pc' = "done" /\ buf' = <<>> /\ UNCHANGED <<inLeak, received, gaveUp>>
    BY <1>7 DEF End
  <2> SUFFICES ASSUME ~gaveUp
               PROVE  Stripped(received) = spoken' \o (IF inLeak THEN <<>> ELSE <<>>)
    BY <2>1 DEF ExactInv, NothingLostNorLeaked
  <2>2. Stripped(received) = spoken \o (IF inLeak THEN <<>> ELSE buf)
    BY <1>t, <1>c, <2>1, BetweenChunks
  <2>3. spoken' = spoken \o (IF inLeak THEN <<>> ELSE buf)
    <3>1. CASE buf # <<>> /\ ~inLeak
      BY <1>7, <3>1 DEF End, Speak
    <3>2. CASE buf = <<>> \/ inLeak
      <4>1. spoken' = spoken
        BY <1>7, <3>2 DEF End
      <4>2. spoken \o <<>> = spoken
        BY <1>s, ConcatEmptySeq
      <4> QED BY <3>2, <4>1, <4>2
    <3> QED BY <3>1, <3>2
  <2>4. spoken' \in Seq(Symbols)
    BY <1>t DEF TypeOK
  <2>5. spoken' \o <<>> = spoken'
    BY <2>4, ConcatEmptySeq
  <2> QED BY <2>2, <2>3, <2>5
<1>8. CASE UNCHANGED vars
  BY <1>8 DEF vars, ExactInv, NothingLostNorLeaked, OnCourse, Held, Exact
<1> QED
  BY <1>1, <1>2, <1>3, <1>4, <1>5, <1>6, <1>7, <1>8 DEF Next

(* Before the first chunk the text may become any text.                       *)
LEMMA ExactAtFirst ==
  ASSUME Init
  PROVE  ExactInv
<1>1. /\ received = <<>> /\ buf = <<>> /\ spoken = <<>> /\ pc = "await" /\ inLeak = FALSE
      /\ <<>> \in Seq(Symbols) /\ Len(<<>>) = 0 /\ 0 \in Nat
  BY NoText DEF Init
<1>2. Len(received) - Len(buf) = 0
  BY <1>1
<1>3. Held(buf, received, 0)
  BY <1>1 DEF Held
<1>4. Exact(spoken, received, 0)
  <2> SUFFICES ASSUME NEW t, Continues(t, received)
               PROVE  Stripped(t) = spoken \o StrippedFrom(t)[0]
    BY Zenon DEF Exact
  <2>1. t \in Seq(Symbols)
    BY DEF Continues
  <2>2. 0 \in 0 .. Len(t)
    BY <2>1
  <2>3. StrippedFrom(t)[0] \in Seq(Symbols)
    BY <2>1, <2>2, StrippedFromIsText
  <2>4. <<>> \o StrippedFrom(t)[0] = StrippedFrom(t)[0]
    BY <2>3, ConcatEmptySeq
  <2> QED BY <1>1, <2>4 DEF Stripped
<1>5. OnCourse(0)
  BY <1>1, <1>3, <1>4 DEF OnCourse
<1> QED BY <1>1, <1>2, <1>5 DEF ExactInv

(* However a reply is cut into chunks, what is passed on and held back is the *)
(* reply without its blocks, for every pair of tags, every limit and every    *)
(* alphabet (_strip_leaked_tool_call_syntax, voice-agent/agent.py).           *)
THEOREM FilterIsExact == Spec => []NothingLostNorLeaked
<1>1. Init => ExactInv
  BY ExactAtFirst
<1>2. IInv /\ IInv' /\ ExactInv /\ [Next]_vars => ExactInv'
  BY ExactStep
<1>3. IInv /\ ExactInv => NothingLostNorLeaked
  <2> SUFFICES ASSUME IInv, ExactInv, pc # "loop", ~gaveUp
               PROVE  Stripped(received) = spoken \o (IF inLeak THEN <<>> ELSE buf)
    BY DEF NothingLostNorLeaked
  <2>1. CASE pc = "done"
    BY <2>1 DEF ExactInv, NothingLostNorLeaked
  <2>2. CASE pc # "done"
    <3>1. pc = "await" /\ TypeOK /\ DelayIsBounded
      BY <2>2 DEF IInv, TypeOK
    <3>2. OnCourse(Len(received) - Len(buf))
      BY <2>2 DEF ExactInv
    <3>3. Len(received) - Len(buf) \in Nat
      BY <3>1, <3>2 DEF OnCourse, Held, TypeOK
    <3> QED BY <3>1, <3>2, <3>3, BetweenChunks
  <2> QED BY <2>1, <2>2
<1> QED BY <1>1, <1>2, <1>3, Inductive, PTL DEF Spec
=============================================================================
