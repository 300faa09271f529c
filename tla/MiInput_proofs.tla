--------------------------- MODULE MiInput_proofs ---------------------------
(***************************************************************************)
(* The terminals for every number of them, every chunk size and every      *)
(* bound: no read blocks, and the reads implement the queue of lines.      *)
(***************************************************************************)
EXTENDS MiInput, SequenceTheorems, TLAPS

LEMMA TextSubSeq ==
  ASSUME NEW s \in Text, NEW m \in Nat \ {0}, NEW n \in 0 .. Len(s)
  PROVE  SubSeq(s, m, n) \in Text
<1>1. \A i \in m .. n : s[i] \in Words \cup {NL}
  BY DEF Text
<1> QED
  BY <1>1, SubSeqProperties DEF Text

(* Before its first line end a text has words only.                        *)
LEMMA LineIsWords ==
  ASSUME NEW s \in Text, NEW i \in 1 .. Len(s), \A j \in 1 .. i - 1 : s[j] # NL
  PROVE  SubSeq(s, 1, i - 1) \in Seq(Words)
<1>1. \A j \in 1 .. i - 1 : s[j] \in Words
  BY DEF Text
<1> QED
  BY <1>1, SubSeqProperties

(* A line taken from a text t is a line taken from t and what follows.     *)
LEMMA CutConcat ==
  ASSUME NEW s \in Text, NEW r \in Text, NEW i \in 1 .. Len(s)
  PROVE  /\ i \in 1 .. Len(s \o r)
         /\ \A j \in 1 .. i : (s \o r)[j] = s[j]
         /\ SubSeq(s \o r, 1, i - 1) = SubSeq(s, 1, i - 1)
         /\ SubSeq(s \o r, i + 1, Len(s \o r)) = SubSeq(s, i + 1, Len(s)) \o r
<1> DEFINE c == s \o r
           t == SubSeq(s, i + 1, Len(s))
<1>1. /\ c \in Text /\ Len(c) = Len(s) + Len(r)
      /\ \A j \in 1 .. Len(s) + Len(r) : c[j] = IF j <= Len(s) THEN s[j] ELSE r[j - Len(s)]
      /\ Len(s) \in Nat /\ Len(r) \in Nat
  BY ConcatProperties, LenProperties DEF Text
<1>2. t \in Text /\ Len(t) = Len(s) - i /\ \A j \in 1 .. Len(s) - i : t[j] = s[i + j]
  <2>1. \A j \in i + 1 .. Len(s) : s[j] \in Words \cup {NL}
    BY DEF Text
  <2> QED
    BY <2>1, <1>1, SubSeqProperties DEF Text
<1>3. SubSeq(c, 1, i - 1) = SubSeq(s, 1, i - 1)
  <2>1. CASE i = 1
    BY <2>1, SubSeqEmpty
  <2>2. CASE i # 1
    BY <2>2, <1>1, SubSeqOfConcat1 DEF Text
  <2> QED
    BY <2>1, <2>2
<1> HIDE DEF c, t
<1>4. SubSeq(c, i + 1, Len(c)) = t \o r
  <2> DEFINE u == SubSeq(c, i + 1, Len(c))
             v == t \o r
  <2>1. u \in Text /\ Len(u) = Len(c) - i /\ \A j \in 1 .. Len(c) - i : u[j] = c[i + j]
    <3>1. \A j \in i + 1 .. Len(c) : c[j] \in Words \cup {NL}
      BY <1>1 DEF Text
    <3> QED
      BY <3>1, <1>1, SubSeqProperties DEF Text
  <2>2. /\ v \in Text /\ Len(v) = Len(t) + Len(r)
        /\ \A j \in 1 .. Len(t) + Len(r) : v[j] = IF j <= Len(t) THEN t[j] ELSE r[j - Len(t)]
    BY <1>2, ConcatProperties DEF Text
  <2>3. Len(u) = Len(v)
    BY <1>1, <1>2, <2>1, <2>2
  <2>4. ASSUME NEW j \in 1 .. Len(u)
        PROVE  u[j] = v[j]
    <3>1. u[j] = IF i + j <= Len(s) THEN s[i + j] ELSE r[i + j - Len(s)]
      BY <1>1, <2>1
    <3>2. v[j] = IF j <= Len(t) THEN t[j] ELSE r[j - Len(t)]
      BY <1>1, <1>2, <2>1, <2>2
    <3>3. j <= Len(t) <=> i + j <= Len(s)
      BY <1>1, <1>2
    <3>4. j - Len(t) = i + j - Len(s)
      BY <1>1, <1>2
    <3>5. j <= Len(t) => t[j] = s[i + j]
      BY <1>1, <1>2
    <3> QED
      BY <3>1, <3>2, <3>3, <3>4, <3>5
  <2> QED
    <3>1. u \in Seq(Words \cup {NL}) /\ v \in Seq(Words \cup {NL})
      BY <2>1, <2>2 DEF Text
    <3> HIDE DEF u, v
    <3>2. u = v
      BY <3>1, <2>3, <2>4, SeqEqual
    <3> QED
      BY <3>2 DEF u, v
<1>5. i \in 1 .. Len(c) /\ \A j \in 1 .. i : c[j] = s[j]
  BY <1>1
<1> QED
  BY <1>3, <1>4, <1>5 DEF c, t

(* What a chunk takes away and what it leaves.                             *)
LEMMA ChunkSplits ==
  ASSUME NEW b \in Text, NEW p \in Text, NEW n \in 0 .. Len(p)
  PROVE  (b \o SubSeq(p, 1, n)) \o SubSeq(p, n + 1, Len(p)) = b \o p
<1> DEFINE h == SubSeq(p, 1, n)
           r == SubSeq(p, n + 1, Len(p))
<1>1. Len(p) \in Nat
  BY LenProperties DEF Text
<1>2. h \in Text
  BY <1>1, TextSubSeq
<1>3. r \in Text
  <2>1. n + 1 \in Nat \ {0} /\ Len(p) \in 0 .. Len(p)
    BY <1>1
  <2> QED
    BY <2>1, TextSubSeq
<1>4. h \o r = p
  <2>1. h \o r = SubSeq(p, 1, Len(p))
    <3>1. 1 \in 1 .. Len(p) + 1 /\ n \in 1 - 1 .. Len(p) /\ Len(p) \in n .. Len(p)
      BY <1>1
    <3> QED
      BY <3>1, ConcatAdjacentSubSeq DEF Text
  <2>2. SubSeq(p, 1, Len(p)) = p
    BY SubSeqFull DEF Text
  <2> QED
    BY <2>1, <2>2
<1> HIDE DEF h, r
<1>5. (b \o h) \o r = b \o (h \o r)
  BY <1>2, <1>3, ConcatAssociative DEF Text
<1>6. (b \o h) \o r = b \o p
  BY <1>4, <1>5, Zenon
<1> QED
  BY <1>6, Zenon DEF h, r

-----------------------------------------------------------------------------
(* Type correctness.                                                       *)

LEMMA PopLineType ==
  ASSUME MiTypeOK, NEW t \in Terminals, NEW s \in Text, PopLine(t, s)
  PROVE  line' \in [from : Terminals, words : Seq(Words)] /\ buff' \in [Terminals -> Text]
<1>1. PICK i \in 1 .. Len(s) :
        /\ s[i] = NL
        /\ \A j \in 1 .. i - 1 : s[j] # NL
        /\ line' = [from |-> t, words |-> SubSeq(s, 1, i - 1)]
        /\ buff' = [buff EXCEPT ![t] = SubSeq(s, i + 1, Len(s))]
  BY DEF PopLine
<1>2. SubSeq(s, 1, i - 1) \in Seq(Words)
  BY <1>1, LineIsWords
<1>3. SubSeq(s, i + 1, Len(s)) \in Text
  <2>1. Len(s) \in Nat
    BY LenProperties DEF Text
  <2>2. i + 1 \in Nat \ {0} /\ Len(s) \in 0 .. Len(s)
    BY <2>1
  <2> QED
    BY <2>2, TextSubSeq
<1> QED
  BY <1>1, <1>2, <1>3 DEF MiTypeOK

(* A chunk, joined to the buffer, and the rest of the text under way.      *)
LEMMA ChunkType ==
  ASSUME MiTypeOK, NEW t \in Terminals, NEW n \in 0 .. Chunk, n <= Len(pending[t])
  PROVE  /\ n \in 0 .. Len(pending[t])
         /\ buff[t] \o SubSeq(pending[t], 1, n) \in Text
         /\ SubSeq(pending[t], n + 1, Len(pending[t])) \in Text
<1>1. pending[t] \in Text /\ buff[t] \in Text
  BY DEF MiTypeOK
<1>2. Len(pending[t]) \in Nat
  BY <1>1, LenProperties DEF Text
<1>3. n \in 0 .. Len(pending[t])
  BY <1>2, InputAssumption
<1>4. SubSeq(pending[t], 1, n) \in Text
  BY <1>1, <1>3, TextSubSeq
<1>5. buff[t] \o SubSeq(pending[t], 1, n) \in Text
  BY <1>1, <1>4, ConcatProperties DEF Text
<1>6. SubSeq(pending[t], n + 1, Len(pending[t])) \in Text
  <2>1. n + 1 \in Nat \ {0} /\ Len(pending[t]) \in 0 .. Len(pending[t])
    BY <1>2, <1>3
  <2> QED
    BY <1>1, <2>1, TextSubSeq
<1> QED
  BY <1>3, <1>5, <1>6

LEMMA ToReadType == MiTypeOK => ToRead \subseteq Terminals
  BY DEF MiTypeOK, ToRead, FirstBuffered

LEMMA MiStepType ==
  ASSUME MiTypeOK, [Next]_vars
  PROVE  MiTypeOK'
<1>1. ASSUME NEW t \in Terminals, Write(t)
      PROVE  MiTypeOK'
  <2>1. PICK c \in Words \cup {NL} : pending' = [pending EXCEPT ![t] = Append(@, c)]
    BY <1>1 DEF Write
  <2>2. Append(pending[t], c) \in Text
    BY AppendProperties DEF MiTypeOK, Text
  <2> QED
    BY <1>1, <2>1, <2>2 DEF MiTypeOK, Write
<1>2. ASSUME NEW t \in Terminals, End(t)
      PROVE  MiTypeOK'
  BY <1>2 DEF MiTypeOK, End
<1>3. CASE Select
  BY <1>3, ToReadType DEF MiTypeOK, Select
<1>4. ASSUME NEW t \in Terminals, ReadBuffered(t)
      PROVE  MiTypeOK'
  <2>1. buff[t] \in Text
    BY DEF MiTypeOK
  <2>2. line' \in [from : Terminals, words : Seq(Words)] /\ buff' \in [Terminals -> Text]
    BY <1>4, <2>1, PopLineType DEF ReadBuffered
  <2> QED
    BY <1>4, <2>2 DEF MiTypeOK, ReadBuffered, Turn
<1>5. ASSUME NEW t \in Terminals, ReadChunk(t)
      PROVE  MiTypeOK'
  <2>1. PICK n \in 0 .. Chunk :
          /\ n <= Len(pending[t])
          /\ TakeChunk(t, n, buff[t] \o SubSeq(pending[t], 1, n))
    BY <1>5 DEF ReadChunk
  <2> DEFINE s == buff[t] \o SubSeq(pending[t], 1, n)
  <2>2. s \in Text /\ SubSeq(pending[t], n + 1, Len(pending[t])) \in Text
    BY <2>1, ChunkType
  <2> HIDE DEF s
  <2>3. pending' \in [Terminals -> Text]
    BY <2>1, <2>2 DEF TakeChunk, MiTypeOK
  <2>4. line' \in [from : Terminals, words : Seq(Words)] \cup {None} /\ buff' \in [Terminals -> Text]
    <3>1. CASE HasLine(s)
      <4>1. PopLine(t, s)
        BY <2>1, <3>1 DEF TakeChunk, s
      <4> QED
        BY <2>2, <4>1, PopLineType
    <3>2. CASE ~HasLine(s)
      BY <2>1, <2>2, <3>2 DEF TakeChunk, s, MiTypeOK
    <3> QED
      BY <3>1, <3>2
  <2> QED
    BY <1>5, <2>3, <2>4 DEF MiTypeOK, ReadChunk, Turn
<1>6. CASE Process
  BY <1>6 DEF MiTypeOK, Process
<1>7. CASE UNCHANGED vars
  BY <1>7 DEF MiTypeOK, vars
<1> QED
  BY <1>1, <1>2, <1>3, <1>4, <1>5, <1>6, <1>7 DEF Next, FrontEnd, Loop

LEMMA MiInitType == Init => MiTypeOK
<1>1. <<>> \in Text
  BY EmptySeq DEF Text
<1> QED
  BY <1>1 DEF Init, MiTypeOK

(* What is read stays text, and what is processed is a line of words that  *)
(* a terminal sent: no chunk ever reaches beyond what was written.         *)
THEOREM MiTypeCorrect == Spec => []MiTypeOK
<1>1. MiTypeOK /\ [Next]_vars => MiTypeOK'
  BY MiStepType
<1> QED
  BY MiInitType, <1>1, PTL DEF Spec

-----------------------------------------------------------------------------
(* select reports only what can be read, reads of other terminals and what *)
(* the front-ends do in between take nothing away, and a terminal is read  *)
(* once in a pass.                                                         *)
LEMMA MiStepBlocks ==
  ASSUME MiTypeOK, NeverBlocks, [Next]_vars
  PROVE  NeverBlocks'
<1>1. ASSUME NEW t \in Terminals, Write(t)
      PROVE  NeverBlocks'
  <2>1. PICK c \in Words \cup {NL} : pending' = [pending EXCEPT ![t] = Append(@, c)]
    BY <1>1 DEF Write
  <2>2. pending'[t] # <<>>
    <3>1. pending[t] \in Seq(Words \cup {NL})
      BY DEF MiTypeOK, Text
    <3>2. PICK T : T = Words \cup {NL}
      OBVIOUS
    <3>3. pending[t] \in Seq(T) /\ c \in T
      BY <3>1, <3>2
    <3>4. Append(pending[t], c) # <<>>
      BY <3>3, AppendProperties
    <3>5. t \in DOMAIN pending
      BY DEF MiTypeOK
    <3> QED
      BY <2>1, <3>4, <3>5, Zenon
  <2>3. \A o \in Terminals \ {t} : pending'[o] = pending[o]
    BY <2>1 DEF MiTypeOK
  <2> QED
    BY <1>1, <2>2, <2>3 DEF Write, NeverBlocks, Readable, MiTypeOK
<1>2. ASSUME NEW t \in Terminals, End(t)
      PROVE  NeverBlocks'
  <2>1. \A o \in Terminals : ended[o] => ended'[o]
    BY <1>2 DEF MiTypeOK, End
  <2> QED
    BY <1>2, <2>1 DEF End, NeverBlocks, Readable, MiTypeOK
<1>3. CASE Select
  <2>1. \A t \in ToRead : HasLine(buff[t]) \/ Readable(t)
    BY DEF ToRead, FirstBuffered
  <2> QED
    BY <1>3, <2>1 DEF Select, NeverBlocks, Readable
<1>4. ASSUME NEW t \in Terminals, ReadBuffered(t) \/ ReadChunk(t)
      PROVE  NeverBlocks'
  <2>1. toRead' = toRead \ {t} /\ UNCHANGED ended
    BY <1>4 DEF ReadBuffered, ReadChunk, Turn
  <2>2. \A o \in Terminals \ {t} : buff'[o] = buff[o] /\ pending'[o] = pending[o]
    BY <1>4 DEF ReadBuffered, ReadChunk, TakeChunk, PopLine, MiTypeOK
  <2> QED
    BY <2>1, <2>2 DEF NeverBlocks, Readable, MiTypeOK
<1>5. CASE Process \/ UNCHANGED vars
  BY <1>5 DEF Process, vars, NeverBlocks, Readable
<1> QED
  BY <1>1, <1>2, <1>3, <1>4, <1>5 DEF Next, FrontEnd, Loop

(* The debugger's only thread never waits in os.read.                      *)
THEOREM ReadsNeverBlock == Spec => []NeverBlocks
<1>1. Init => NeverBlocks
  BY DEF Init, NeverBlocks
<1>2. MiTypeOK /\ NeverBlocks /\ [Next]_vars => NeverBlocks'
  BY MiStepBlocks
<1> QED
  BY MiTypeCorrect, <1>1, <1>2, PTL DEF Spec

-----------------------------------------------------------------------------
(* The refinement.  A line popped from a text s of terminal t, with the    *)
(* rest r behind it, is a line delivered from the two together.            *)
LEMMA PopDelivers ==
  ASSUME MiTypeOK, line = None,
         NEW t \in Terminals, NEW s \in Text, NEW r \in Text,
         PopLine(t, s), Unprocessed[t] = s \o r,
         pending' \in [Terminals -> Text], pending'[t] = r,
         \A o \in Terminals \ {t} : pending'[o] = pending[o],
         UNCHANGED ended
  PROVE  Lines!Deliver(t)
<1>1. PICK i \in 1 .. Len(s) :
        /\ s[i] = NL
        /\ \A j \in 1 .. i - 1 : s[j] # NL
        /\ line' = [from |-> t, words |-> SubSeq(s, 1, i - 1)]
        /\ buff' = [buff EXCEPT ![t] = SubSeq(s, i + 1, Len(s))]
  BY DEF PopLine
<1> DEFINE c == s \o r
<1>2. /\ i \in 1 .. Len(c)
      /\ \A j \in 1 .. i : c[j] = s[j]
      /\ SubSeq(c, 1, i - 1) = SubSeq(s, 1, i - 1)
      /\ SubSeq(c, i + 1, Len(c)) = SubSeq(s, i + 1, Len(s)) \o r
  BY CutConcat
<1>3. Unprocessed[t] = c
  OBVIOUS
<1>4. Len(s) \in Nat /\ Len(c) \in Nat
  BY LenProperties, ConcatProperties DEF Text
<1> HIDE DEF c
<1>5. Lines!FirstBreak(c, i)
  <2>1. i \in Lines!Breaks(c)
    <3>1. i \in 1 .. Len(c) /\ c[i] = NL
      <4>1. i \in 1 .. i
        BY <1>4
      <4> QED
        BY <1>1, <1>2, <4>1
    <3> QED
      BY <3>1 DEF Lines!Breaks
  <2>2. ASSUME NEW j \in Lines!Breaks(c)
        PROVE  i <= j
    <3>1. j \in 1 .. Len(c) /\ c[j] = NL
      BY DEF Lines!Breaks
    <3>2. CASE j < i
      <4>1. j \in 1 .. i - 1 /\ j \in 1 .. i
        BY <1>4, <3>1, <3>2
      <4> QED
        BY <1>1, <1>2, <3>1, <4>1
    <3> QED
      BY <1>4, <3>1, <3>2
  <2> QED
    BY <2>1, <2>2 DEF Lines!FirstBreak
<1>6. line' = Lines!Line(t, SubSeq(c, 1, i - 1))
  BY <1>1, <1>2 DEF Lines!Line
<1>7. Unprocessed' = [Unprocessed EXCEPT ![t] = SubSeq(c, i + 1, Len(c))]
  <2>1. buff'[t] = SubSeq(s, i + 1, Len(s))
    BY <1>1 DEF MiTypeOK
  <2>2. \A o \in Terminals \ {t} : buff'[o] = buff[o]
    BY <1>1 DEF MiTypeOK
  <2> QED
    BY <1>2, <2>1, <2>2 DEF Unprocessed
<1> QED
  BY <1>2, <1>3, <1>5, <1>6, <1>7 DEF Lines!Deliver

LEMMA AppendConcat ==
  ASSUME NEW S, NEW b \in Seq(S), NEW p \in Seq(S), NEW c \in S
  PROVE  b \o Append(p, c) = Append(b \o p, c)
OBVIOUS

LEMMA StepDelivers ==
  ASSUME MiTypeOK, [Next]_vars
  PROVE  [Lines!Next]_(Lines!vars)
<1> USE DEF Lines!Next
<1>0. buff \in [Terminals -> Text] /\ pending \in [Terminals -> Text]
  BY DEF MiTypeOK
<1>1. ASSUME NEW t \in Terminals, Write(t)
      PROVE  Lines!Write(t)
  <2>1. PICK c \in Words \cup {NL} : pending' = [pending EXCEPT ![t] = Append(@, c)]
    BY <1>1 DEF Write
  <2>2. buff[t] \o Append(pending[t], c) = Append(buff[t] \o pending[t], c)
    BY <1>0, AppendConcat DEF Text
  <2>3. Unprocessed' = [Unprocessed EXCEPT ![t] = Append(@, c)]
    <3>1. buff' = buff /\ pending'[t] = Append(pending[t], c)
      BY <1>0, <1>1, <2>1 DEF Write
    <3>2. \A o \in Terminals \ {t} : pending'[o] = pending[o]
      BY <1>0, <2>1
    <3> QED
      BY <2>2, <3>1, <3>2 DEF Unprocessed
  <2> QED
    BY <1>1, <2>3 DEF Write, Lines!Write
<1>2. ASSUME NEW t \in Terminals, End(t)
      PROVE  Lines!End(t)
  BY <1>2 DEF End, Lines!End, Unprocessed
<1>3. CASE Select \/ UNCHANGED vars
  BY <1>3 DEF Select, vars, Lines!vars, Unprocessed
<1>4. ASSUME NEW t \in Terminals, ReadBuffered(t)
      PROVE  Lines!Deliver(t)
  <2>1. buff[t] \in Text /\ pending[t] \in Text /\ Unprocessed[t] = buff[t] \o pending[t]
    BY <1>0 DEF Unprocessed
  <2>2. line = None /\ PopLine(t, buff[t]) /\ UNCHANGED <<pending, ended>>
    BY <1>4 DEF ReadBuffered, Turn
  <2> QED
    BY <1>0, <2>1, <2>2, PopDelivers
<1>5. ASSUME NEW t \in Terminals, ReadChunk(t)
      PROVE  Lines!Deliver(t) \/ UNCHANGED Lines!vars
  <2>1. PICK n \in 0 .. Chunk :
          /\ n <= Len(pending[t])
          /\ TakeChunk(t, n, buff[t] \o SubSeq(pending[t], 1, n))
    BY <1>5 DEF ReadChunk
  <2> DEFINE s == buff[t] \o SubSeq(pending[t], 1, n)
             r == SubSeq(pending[t], n + 1, Len(pending[t]))
  <2>2. n \in 0 .. Len(pending[t]) /\ s \in Text /\ r \in Text
    BY <2>1, ChunkType
  <2>3. Unprocessed[t] = s \o r
    <3>1. buff[t] \in Text /\ pending[t] \in Text
      BY <1>0
    <3> QED
      BY <2>2, <3>1, ChunkSplits DEF Unprocessed
  <2>4. TakeChunk(t, n, s)
    BY <2>1
  <2>5. pending' = [pending EXCEPT ![t] = r]
    BY <2>1 DEF TakeChunk
  <2> HIDE DEF s, r
  <2>6. /\ pending' \in [Terminals -> Text] /\ pending'[t] = r
        /\ \A o \in Terminals \ {t} : pending'[o] = pending[o]
    BY <1>0, <2>2, <2>5
  <2>7. line = None /\ UNCHANGED ended
    BY <1>5 DEF ReadChunk, Turn
  <2>8. CASE HasLine(s)
    <3>1. PopLine(t, s)
      BY <2>4, <2>8 DEF TakeChunk
    <3> QED
      BY <2>2, <2>3, <2>6, <2>7, <3>1, PopDelivers
  <2>9. CASE ~HasLine(s)
    <3>1. buff' = [buff EXCEPT ![t] = s] /\ UNCHANGED line
      BY <2>4, <2>9 DEF TakeChunk
    <3>2. buff'[t] = s /\ \A o \in Terminals \ {t} : buff'[o] = buff[o]
      BY <1>0, <3>1
    <3>3. Unprocessed' = Unprocessed
      BY <2>3, <2>6, <3>2 DEF Unprocessed
    <3> QED
      BY <2>7, <3>1, <3>3 DEF Lines!vars
  <2> QED
    BY <2>8, <2>9
<1>6. CASE Process
  BY <1>6 DEF Process, Lines!Finish, Unprocessed
<1> QED
  BY <1>1, <1>2, <1>3, <1>4, <1>5, <1>6 DEF Next, FrontEnd, Loop

(* Whatever pieces the text is read in, the lines processed are those of   *)
(* the queue: each once, whole and in order.                               *)
THEOREM ReadsAreQueue == Spec => ImplementsLineQueue
<1>1. Init => Lines!Init
  <2>1. ASSUME Init
        PROVE  Unprocessed = [t \in Terminals |-> <<>>]
    <3>1. <<>> \in Seq(Words)
      BY EmptySeq
    <3>2. <<>> \o <<>> = <<>>
      BY <3>1, ConcatEmptySeq
    <3> QED
      BY <2>1, <3>2 DEF Init, Unprocessed
  <2> QED
    BY <2>1 DEF Init, Lines!Init
<1>2. MiTypeOK /\ [Next]_vars => [Lines!Next]_(Lines!vars)
  BY StepDelivers
<1> QED
  BY MiTypeCorrect, <1>1, <1>2, PTL DEF Spec, ImplementsLineQueue, Lines!Spec

=============================================================================
