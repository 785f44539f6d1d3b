----------------------------- MODULE ReloadProofs -----------------------------
(***************************************************************************)
(* What a live reload keeps, for any number of lines, handles and reloads: *)
(* no line is lost, repeated or reordered, no call is cut off, no lease    *)
(* lapses, and every handle reaches the new image with its status and its  *)
(* workdir.                                                                *)
(*                                                                         *)
(* The wire's part of the invariant says that a frozen wire stays quiet,   *)
(* the handles' part what a held lifecycle gate protects between the read  *)
(* of a handle and the end of the exec.                                    *)
(***************************************************************************)
EXTENDS Reload, TLAPS

USE WireAssumption, ReloadAssumption

(* A line is held while it is parsed, and only then.                       *)
ParsingInv ==
  /\ parsing <=> receiver = "parsing"
  /\ taken # 0 <=> receiver = "parsing"
  /\ receiver = "reading" => reading

(* A frozen wire is quiet and stays so: a paused one starts nothing.       *)
FreezeInv ==
  /\ freezer # "off" => paused
  /\ freezer = "frozen" => Quiet

-----------------------------------------------------------------------------
(* Sequences of chunks *)

(* The k-th chunk that the client writes, and what lies in that order.     *)
At(k) == <<(k + 1) \div 2, IF k % 2 = 1 THEN "head" ELSE "end">>
InOrder(s, gone) == \A i \in 1..Len(s) : s[i] = At(gone + i)

LEMMA JoinsUp ==
  ASSUME NEW s \in Seq(Chunk), NEW t \in Seq(Chunk), NEW g \in Nat,
         InOrder(s, g), InOrder(t, g + Len(s))
  PROVE  s \o t \in Seq(Chunk) /\ Len(s \o t) = Len(s) + Len(t) /\ InOrder(s \o t, g)
<1>1. s \o t \in Seq(Chunk) /\ Len(s \o t) = Len(s) + Len(t)
  OBVIOUS
<1>2. ASSUME NEW i \in 1..Len(s) + Len(t)
      PROVE  (s \o t)[i] = At(g + i)
  <2>1. CASE i <= Len(s)
    <3>1. (s \o t)[i] = s[i]
      BY <2>1
    <3> QED BY <2>1, <3>1 DEF InOrder
  <2>2. CASE i > Len(s)
    <3>1. (s \o t)[i] = t[i - Len(s)]
      BY <2>2
    <3>2. i - Len(s) \in 1..Len(t) /\ g + Len(s) + (i - Len(s)) = g + i
      BY <2>2
    <3> QED BY <3>1, <3>2 DEF InOrder
  <2> QED BY <2>1, <2>2
<1> QED BY <1>1, <1>2 DEF InOrder

LEMMA SplitsOff ==
  ASSUME NEW s \in Seq(Chunk), NEW g \in Nat, InOrder(s, g), NEW n \in 0..Len(s)
  PROVE  /\ SubSeq(s, 1, n) \in Seq(Chunk) /\ Len(SubSeq(s, 1, n)) = n
         /\ InOrder(SubSeq(s, 1, n), g)
         /\ SubSeq(s, n + 1, Len(s)) \in Seq(Chunk)
         /\ Len(SubSeq(s, n + 1, Len(s))) = Len(s) - n
         /\ InOrder(SubSeq(s, n + 1, Len(s)), g + n)
<1>1. SubSeq(s, 1, n) \in Seq(Chunk) /\ Len(SubSeq(s, 1, n)) = n
  OBVIOUS
<1>2. SubSeq(s, n + 1, Len(s)) \in Seq(Chunk) /\ Len(SubSeq(s, n + 1, Len(s))) = Len(s) - n
  OBVIOUS
<1>3. ASSUME NEW i \in 1..n PROVE SubSeq(s, 1, n)[i] = At(g + i)
  BY DEF InOrder
<1>4. ASSUME NEW i \in 1..Len(s) - n PROVE SubSeq(s, n + 1, Len(s))[i] = At(g + n + i)
  <2>1. SubSeq(s, n + 1, Len(s))[i] = s[n + i]
    OBVIOUS
  <2>2. n + i \in 1..Len(s) /\ g + (n + i) = g + n + i
    OBVIOUS
  <2> QED BY <2>1, <2>2 DEF InOrder
<1> QED BY <1>1, <1>2, <1>3, <1>4 DEF InOrder

LEMMA LinePlaces ==
  ASSUME NEW n \in Line
  PROVE  /\ n \in Nat /\ n - 1 \in Nat
         /\ At(2 * (n - 1) + 1) = <<n, "head">> /\ At(2 * (n - 1) + 2) = <<n, "end">>
         /\ <<n, "head">> \in Chunk /\ <<n, "end">> \in Chunk
<1>1. n \in Nat /\ n > 0 /\ n - 1 \in Nat
  BY DEF Line
<1>2. (2 * (n - 1) + 1 + 1) \div 2 = n /\ (2 * (n - 1) + 2 + 1) \div 2 = n
  BY <1>1
<1>3. (2 * (n - 1) + 1) % 2 = 1 /\ (2 * (n - 1) + 2) % 2 = 0
  BY <1>1
<1> QED BY <1>1, <1>2, <1>3 DEF At, Chunk

(* A line in front of chunks that go on after it, and one behind those     *)
(* that it goes on from.                                                   *)
LEMMA LineBefore ==
  ASSUME NEW n \in Line, NEW t \in Seq(Chunk), InOrder(t, 2 * n)
  PROVE  /\ Chunks(n) \o t \in Seq(Chunk) /\ Len(Chunks(n) \o t) = Len(t) + 2
         /\ InOrder(Chunks(n) \o t, 2 * (n - 1))
<1> DEFINE s == << <<n, "head">>, <<n, "end">> >> \o t
<1>1. s \in Seq(Chunk) /\ Len(s) = Len(t) + 2
  BY LinePlaces
<1>2. s[1] = <<n, "head">> /\ s[2] = <<n, "end">>
  OBVIOUS
<1>3. ASSUME NEW i \in 1..Len(t) + 2 PROVE s[i] = At(2 * (n - 1) + i)
  <2>1. CASE i = 1
    BY <1>2, <2>1, LinePlaces
  <2>2. CASE i = 2
    BY <1>2, <2>2, LinePlaces
  <2>3. CASE i > 2
    <3>1. s[i] = t[i - 2] /\ i - 2 \in 1..Len(t)
      BY <2>3
    <3>2. 2 * n + (i - 2) = 2 * (n - 1) + i
      <4>1. n \in Nat
        BY LinePlaces
      <4>2. i \in Nat
        OBVIOUS
      <4> QED BY <4>1, <4>2
    <3> QED BY <3>1, <3>2 DEF InOrder
  <2> QED BY <2>1, <2>2, <2>3
<1> QED BY <1>1, <1>3 DEF InOrder, Chunks

LEMMA LineBehind ==
  ASSUME NEW n \in Line, NEW t \in Seq(Chunk), NEW g \in Nat,
         InOrder(t, g), g + Len(t) = 2 * (n - 1)
  PROVE  /\ t \o Chunks(n) \in Seq(Chunk) /\ Len(t \o Chunks(n)) = Len(t) + 2
         /\ InOrder(t \o Chunks(n), g)
<1> DEFINE s == t \o << <<n, "head">>, <<n, "end">> >>
<1>1. s \in Seq(Chunk) /\ Len(s) = Len(t) + 2
  BY LinePlaces
<1>2. s[Len(t) + 1] = <<n, "head">> /\ s[Len(t) + 2] = <<n, "end">>
  OBVIOUS
<1>3. ASSUME NEW i \in 1..Len(t) + 2 PROVE s[i] = At(g + i)
  <2>1. CASE i = Len(t) + 1
    <3>1. g + i = 2 * (n - 1) + 1
      BY <2>1
    <3> QED BY <1>2, <2>1, <3>1, LinePlaces
  <2>2. CASE i = Len(t) + 2
    <3>1. g + i = 2 * (n - 1) + 2
      BY <2>2
    <3> QED BY <1>2, <2>2, <3>1, LinePlaces
  <2>3. CASE i \in 1..Len(t)
    <3>1. s[i] = t[i]
      BY <2>3
    <3> QED BY <2>3, <3>1 DEF InOrder
  <2> QED BY <2>1, <2>2, <2>3
<1> QED BY <1>1, <1>3 DEF InOrder, Chunks

-----------------------------------------------------------------------------
(* The order of the lines, place by place: the chunks before the buffer are*)
(* those of the lines that left it and of the one being parsed, which is   *)
(* the next; the buffer and the pipe go on from there.                     *)
Gone == 2 * (Len(consumed) + IF taken = 0 THEN 0 ELSE 1)
PlacesInv ==
  /\ \A i \in 1..Len(consumed) : consumed[i] = i
  /\ taken # 0 => taken = Len(consumed) + 1
  /\ Gone + Len(input) + Len(pipe) = 2 * sent
  /\ InOrder(input, Gone)
  /\ InOrder(pipe, Gone + Len(input))

WireInv == WireTypeOK /\ ParsingInv /\ FreezeInv /\ PlacesInv /\ NoCallIsLost

LEMMA GoneNat == WireTypeOK => Gone \in Nat /\ Len(consumed) \in Nat
  BY DEF WireTypeOK, Gone

LEMMA PlacesKeepOrder == WireTypeOK /\ PlacesInv => LinesKeepTheirOrder
<1> SUFFICES ASSUME WireTypeOK, PlacesInv PROVE LinesKeepTheirOrder
  OBVIOUS
<1> DEFINE gone == 2 * Len(consumed)
           held == (IF taken = 0 THEN <<>> ELSE Chunks(taken)) \o input
<1>1. input \in Seq(Chunk) /\ pipe \in Seq(Chunk) /\ gone \in Nat
  BY DEF WireTypeOK
<1>2. /\ held \in Seq(Chunk) /\ InOrder(held, gone)
      /\ gone + Len(held) = Gone + Len(input)
  <2>1. CASE taken = 0
    <3>1. held = input /\ Gone = gone
      BY <1>1, <2>1 DEF Gone
    <3> QED BY <1>1, <3>1 DEF PlacesInv
  <2>2. CASE taken # 0
    <3>1. taken \in Line /\ taken - 1 = Len(consumed)
      BY <2>2 DEF WireTypeOK, PlacesInv, Line
    <3>2. held = Chunks(taken) \o input /\ gone = 2 * (taken - 1) /\ Gone = 2 * taken
      BY <2>2, <3>1 DEF Gone, WireTypeOK
    <3>3. held \in Seq(Chunk) /\ Len(held) = Len(input) + 2 /\ InOrder(held, gone)
      BY <1>1, <3>1, <3>2, LineBefore DEF PlacesInv
    <3>4. gone + 2 = Gone
      BY <3>1, <3>2 DEF Line
    <3> HIDE DEF held
    <3> QED BY <1>1, <3>3, <3>4
  <2> QED BY <2>1, <2>2
<1> HIDE DEF held
<1>3. /\ Len(held \o pipe) = Len(held) + Len(pipe)
      /\ InOrder(held \o pipe, gone)
  BY <1>1, <1>2, JoinsUp DEF PlacesInv
<1>4. Len(held \o pipe) = 2 * sent - gone
  <2>1. Len(held) \in Nat /\ Len(input) \in Nat /\ Len(pipe) \in Nat
    BY <1>1, <1>2
  <2>2. Gone + Len(input) + Len(pipe) = 2 * sent /\ sent \in Nat
    BY DEF PlacesInv, WireTypeOK
  <2> QED BY <1>1, <1>2, <1>3, <2>1, <2>2
<1>5. \A i \in 1..Len(held \o pipe) :
        (held \o pipe)[i] =
          <<(gone + i + 1) \div 2, IF (gone + i) % 2 = 1 THEN "head" ELSE "end">>
  BY <1>3 DEF InOrder, At
<1> QED BY <1>4, <1>5 DEF LinesKeepTheirOrder, PlacesInv, held

-----------------------------------------------------------------------------
(* The steps of the wire *)

LEMMA WireStart == WireInit => WireInv
<1> SUFFICES ASSUME WireInit PROVE WireInv
  OBVIOUS
<1> USE DEF WireInit, Line
<1>1. WireTypeOK
  <2>1. consumed \in Seq(1..Lines)
    OBVIOUS
  <2>2. sent \in 0..Lines /\ consumed \in Seq(Line)
    BY <2>1
  <2>3. pipe \in Seq(Chunk) /\ input \in Seq(Chunk)
    OBVIOUS
  <2>4. call \in [Line -> {"unread", "invalid", "running", "sending", "written",
                           "done", "lost"}]
    OBVIOUS
  <2>5. /\ taken = 0 /\ receiver = "away" /\ freezer = "off"
        /\ stirred = FALSE /\ roused = FALSE
        /\ paused = FALSE /\ reading = FALSE /\ parsing = FALSE
    OBVIOUS
  <2> HIDE DEF WireInit, Line
  <2>6. 0 \in 0..Lines
    OBVIOUS
  <2>7. sent \in 0..Lines /\ taken \in 0..Lines
    BY <2>2, <2>5, <2>6
  <2>8. /\ receiver \in {"away", "enabled", "parked", "parsing", "toRead", "reading"}
        /\ freezer \in {"off", "looping", "enabled", "unquiet", "frozen"}
    BY <2>5
  <2>9. /\ stirred \in BOOLEAN /\ roused \in BOOLEAN
        /\ paused \in BOOLEAN /\ reading \in BOOLEAN /\ parsing \in BOOLEAN
    BY <2>5
  <2> QED BY <2>2, <2>3, <2>4, <2>7, <2>8, <2>9 DEF WireTypeOK
<1>2. ParsingInv /\ FreezeInv
  BY DEF ParsingInv, FreezeInv
<1>3. PlacesInv
  <2>1. Len(consumed) = sent /\ \A i \in 1..sent : consumed[i] = i
    OBVIOUS
  <2> QED BY <2>1 DEF PlacesInv, Gone, InOrder
<1>4. NoCallIsLost
  BY DEF NoCallIsLost
<1> QED BY <1>1, <1>2, <1>3, <1>4 DEF WireInv

LEMMA WireTypeStep ==
  ASSUME WireTypeOK, ParsingInv, WireNext
  PROVE  WireTypeOK'
<1> USE DEF WireTypeOK, Notify, Line, stdin, receives, freezes, flags
<1>1. CASE ClientWrites
  <2>1. sent + 1 \in Line
    BY <1>1 DEF ClientWrites
  <2>2. pipe' \in Seq(Chunk)
    BY <1>1, <2>1, LinePlaces DEF ClientWrites, Chunks
  <2> QED BY <1>1, <2>1, <2>2 DEF ClientWrites
<1>2. CASE Register \/ Unpark \/ StartRead \/ FreezeEnable \/ FreezeCheck \/ FreezeWoken
  BY <1>2 DEF Register, Unpark, StartRead, FreezeEnable, FreezeCheck, FreezeWoken
<1>3. CASE Look
  <2>1. Complete => input[1][1] \in Line /\ SubSeq(input, 3, Len(input)) \in Seq(Chunk)
    BY DEF Complete, Chunk
  <2>2. input' \in Seq(Chunk) /\ taken' \in 0..Lines
    <3>1. CASE UNCHANGED <<input, taken>>
      BY <3>1
    <3>2. CASE Complete /\ taken' = input[1][1] /\ input' = SubSeq(input, 3, Len(input))
      BY <2>1, <3>2
    <3> QED BY <1>3, <3>1, <3>2 DEF Look
  <2> QED BY <1>3, <2>2 DEF Look
<1>4. CASE Parse
  <2>1. taken \in Line
    BY <1>4 DEF Parse, ParsingInv
  <2>2. Chunks(taken) \o input \in Seq(Chunk)
    BY <2>1, LinePlaces DEF Chunks
  <2>3. Append(consumed, taken) \in Seq(Line)
    BY <2>1
  <2>4. input' \in Seq(Chunk) /\ consumed' \in Seq(Line)
    BY <1>4, <2>2, <2>3 DEF Parse
  <2>5. call' \in [Line -> {"unread", "invalid", "running", "sending", "written",
                            "done", "lost"}]
    BY <1>4, <2>1 DEF Parse
  <2>6. /\ sent' = sent /\ pipe' = pipe /\ taken' = 0 /\ receiver' = "away"
        /\ freezer' = freezer /\ paused' = paused /\ reading' = reading
        /\ parsing' = FALSE /\ stirred' = TRUE /\ roused' = TRUE
    BY <1>4 DEF Parse
  <2>7. 0 \in 0..Lines
    OBVIOUS
  <2> HIDE DEF Line
  <2> QED BY <2>4, <2>5, <2>6, <2>7
<1>5. CASE ReadSome
  <2>1. input' \in Seq(Chunk) /\ pipe' \in Seq(Chunk)
    BY <1>5 DEF ReadSome
  <2> QED BY <1>5, <2>1 DEF ReadSome, EndRead
<1>6. CASE ReadWoken
  BY <1>6 DEF ReadWoken, EndRead
<1>7. ASSUME NEW n \in Line, TakeAnswer(n) \/ WriteAnswer(n) \/ Settle(n) PROVE WireTypeOK'
  BY <1>7 DEF TakeAnswer, WriteAnswer, Settle
<1> QED BY <1>1, <1>2, <1>3, <1>4, <1>5, <1>6, <1>7 DEF WireNext

LEMMA WireOrderStep ==
  ASSUME WireTypeOK, ParsingInv, PlacesInv, WireNext
  PROVE  PlacesInv'
<1> USE DEF Notify, stdin, receives, freezes, flags
<1>0. /\ input \in Seq(Chunk) /\ pipe \in Seq(Chunk) /\ consumed \in Seq(Line)
      /\ sent \in Nat /\ Gone \in Nat /\ Len(consumed) \in Nat
      /\ Len(input) \in Nat /\ Len(pipe) \in Nat
  BY GoneNat DEF WireTypeOK
<1>s. CASE UNCHANGED stdin
  BY <1>s DEF PlacesInv, Gone, InOrder
<1>1. CASE ClientWrites
  <2>1. sent + 1 \in Line /\ (sent + 1) - 1 = sent
    BY <1>0, <1>1 DEF ClientWrites, Line
  <2>2. Gone + Len(input) + Len(pipe) = 2 * ((sent + 1) - 1)
    BY <2>1 DEF PlacesInv
  <2>3. /\ Len(pipe') = Len(pipe) + 2
        /\ InOrder(pipe', Gone + Len(input))
    <3>1. pipe' = pipe \o Chunks(sent + 1) /\ Gone + Len(input) \in Nat
      BY <1>0, <1>1 DEF ClientWrites
    <3>2. InOrder(pipe, Gone + Len(input))
      BY DEF PlacesInv
    <3> QED BY <1>0, <2>1, <2>2, <3>1, <3>2, LineBehind
  <2>4. sent' = sent + 1 /\ UNCHANGED <<input, taken, consumed, Gone>>
    BY <1>1 DEF ClientWrites, Gone
  <2>5. Gone + Len(input) + Len(pipe') = 2 * (sent + 1)
    BY <1>0, <2>2, <2>3
  <2> QED BY <2>3, <2>4, <2>5 DEF PlacesInv
<1>2. CASE \/ Register \/ Unpark \/ StartRead \/ FreezeEnable \/ FreezeCheck \/ FreezeWoken
           \/ ReadWoken
  BY <1>2, <1>s DEF Register, Unpark, StartRead, FreezeEnable, FreezeCheck, FreezeWoken,
     ReadWoken, EndRead
<1>3. ASSUME NEW n \in Line, TakeAnswer(n) \/ WriteAnswer(n) \/ Settle(n)
      PROVE  UNCHANGED stdin
  BY <1>3 DEF TakeAnswer, WriteAnswer, Settle
<1>4. CASE Look
  <2>1. CASE UNCHANGED <<input, taken>>
    BY <1>4, <2>1, <1>s DEF Look
  <2>2. CASE Complete /\ taken' = input[1][1] /\ input' = SubSeq(input, 3, Len(input))
    <3>1. taken = 0 /\ Gone = 2 * Len(consumed)
      BY <1>0, <1>4 DEF Look, ParsingInv, Gone
    <3>2. 1 \in 1..Len(input) /\ 2 \in 0..Len(input) /\ input[1] \in Chunk
      BY <1>0, <2>2 DEF Complete
    <3>3. input[1] = At(2 * Len(consumed) + 1)
      BY <3>1, <3>2 DEF PlacesInv, InOrder
    <3>4. input[1][1] = Len(consumed) + 1
      BY <1>0, <3>3 DEF At
    <3>5. taken' = Len(consumed) + 1 /\ UNCHANGED <<sent, pipe, consumed>>
      BY <1>4, <2>2, <3>4 DEF Look
    <3>6. Gone' = Gone + 2
      BY <1>0, <3>1, <3>5 DEF Gone
    <3>7. Len(input') = Len(input) - 2 /\ InOrder(input', Gone + 2)
      <4>1. InOrder(input, Gone) /\ 2 + 1 = 3
        BY DEF PlacesInv
      <4>2. /\ Len(SubSeq(input, 2 + 1, Len(input))) = Len(input) - 2
            /\ InOrder(SubSeq(input, 2 + 1, Len(input)), Gone + 2)
        BY <1>0, <3>2, <4>1, SplitsOff
      <4> QED BY <2>2, <4>1, <4>2
    <3>8. Gone' + Len(input') = Gone + Len(input)
      BY <1>0, <3>6, <3>7
    <3> QED BY <3>5, <3>6, <3>7, <3>8 DEF PlacesInv
  <2> QED BY <1>4, <2>1, <2>2 DEF Look
<1>5. CASE Parse
  <2>1. taken \in Line /\ taken # 0 /\ taken = Len(consumed) + 1 /\ taken' = 0
    BY <1>5 DEF Parse, ParsingInv, PlacesInv, WireTypeOK, Line
  <2>2. Gone = 2 * (taken - 1) + 2 /\ 2 * (taken - 1) = 2 * Len(consumed)
    BY <1>0, <2>1 DEF Gone
  <2>3. CASE paused /\ taken \notin Invalid
    <3>1. input' = Chunks(taken) \o input /\ UNCHANGED <<sent, pipe, consumed>>
      BY <1>5, <2>3 DEF Parse
    <3>2. Gone' = 2 * (taken - 1)
      BY <1>0, <2>1, <2>2, <3>1 DEF Gone
    <3>3. Len(input') = 2 + Len(input) /\ InOrder(input', 2 * (taken - 1))
      <4>1. 2 * taken = Gone /\ InOrder(input, Gone)
        BY <1>0, <2>1, <2>2 DEF PlacesInv
      <4>2. InOrder(input, 2 * taken)
        BY <4>1
      <4>3. Len(Chunks(taken) \o input) = Len(input) + 2
        BY <1>0, <2>1, <4>2, LineBefore
      <4>4. InOrder(Chunks(taken) \o input, 2 * (taken - 1))
        BY <1>0, <2>1, <4>2, LineBefore
      <4> QED BY <1>0, <3>1, <4>3, <4>4
    <3>4. Gone' + Len(input') = Gone + Len(input)
      BY <1>0, <2>1, <2>2, <3>2, <3>3
    <3> QED BY <2>1, <3>1, <3>2, <3>3, <3>4 DEF PlacesInv
  <2>4. CASE ~(paused /\ taken \notin Invalid)
    <3>1. consumed' = Append(consumed, taken) /\ UNCHANGED <<sent, input, pipe>>
      BY <1>5, <2>4 DEF Parse
    <3>2. Len(consumed') = Len(consumed) + 1 /\ \A i \in 1..Len(consumed') : consumed'[i] = i
      BY <1>0, <2>1, <3>1 DEF PlacesInv
    <3>3. Gone' = Gone
      BY <1>0, <2>1, <2>2, <3>2 DEF Gone
    <3> QED BY <2>1, <3>1, <3>2, <3>3 DEF PlacesInv
  <2> QED BY <2>3, <2>4
<1>6. CASE ReadSome
  <2>1. PICK n \in 1..Len(pipe) : /\ input' = input \o SubSeq(pipe, 1, n)
                                  /\ pipe' = SubSeq(pipe, n + 1, Len(pipe))
    BY <1>6 DEF ReadSome
  <2>2. UNCHANGED <<sent, taken, consumed, Gone>>
    BY <1>6 DEF ReadSome, EndRead, Gone
  <2>3. n \in 0..Len(pipe) /\ Gone + Len(input) \in Nat
    BY <1>0
  <2>4. /\ SubSeq(pipe, 1, n) \in Seq(Chunk) /\ Len(SubSeq(pipe, 1, n)) = n
        /\ InOrder(SubSeq(pipe, 1, n), Gone + Len(input))
        /\ Len(pipe') = Len(pipe) - n /\ InOrder(pipe', Gone + Len(input) + n)
    BY <1>0, <2>1, <2>3, SplitsOff DEF PlacesInv
  <2>5. Len(input') = Len(input) + n /\ InOrder(input', Gone)
    BY <1>0, <2>1, <2>4, JoinsUp DEF PlacesInv
  <2>6. Gone + Len(input') = Gone + Len(input) + n /\ n \in Nat
    BY <1>0, <2>3, <2>5
  <2>7. Gone + Len(input') + Len(pipe') = Gone + Len(input) + Len(pipe)
    BY <1>0, <2>4, <2>6
  <2>8. InOrder(pipe', Gone + Len(input'))
    BY <2>4, <2>6
  <2> QED BY <2>2, <2>5, <2>7, <2>8 DEF PlacesInv
<1> QED BY <1>1, <1>2, <1>3, <1>s, <1>4, <1>5, <1>6 DEF WireNext

LEMMA WireStep ==
  ASSUME WireInv, WireNext
  PROVE  WireInv'
<1> USE DEF WireInv
<1>1. WireTypeOK' /\ PlacesInv'
  BY WireTypeStep, WireOrderStep
<1>2. ParsingInv'
  <2> USE DEF ParsingInv, WireTypeOK, stdin, receives, freezes, flags, Notify
  <2>1. CASE Look
    <3>1. Complete => input[1][1] \in Line
      BY DEF Complete, Chunk
    <3> QED BY <2>1, <3>1 DEF Look, Line
  <2>2. CASE ReadSome \/ ReadWoken
    BY <2>2 DEF ReadSome, ReadWoken, EndRead
  <2>3. ASSUME NEW n \in Line, TakeAnswer(n) \/ WriteAnswer(n) \/ Settle(n) PROVE ParsingInv'
    BY <2>3 DEF TakeAnswer, WriteAnswer, Settle
  <2>4. CASE \/ ClientWrites \/ Register \/ Unpark \/ Parse \/ StartRead
             \/ FreezeEnable \/ FreezeCheck \/ FreezeWoken
    BY <2>4 DEF ClientWrites, Register, Unpark, Parse, StartRead, FreezeEnable,
       FreezeCheck, FreezeWoken
  <2> QED BY <2>1, <2>2, <2>3, <2>4 DEF WireNext
<1>3. FreezeInv'
  <2> USE DEF FreezeInv, ParsingInv, WireTypeOK, stdin, receives, freezes, flags, Notify,
             Quiet, Incoming
  <2>1. CASE Look
    BY <2>1 DEF Look
  <2>2. CASE ReadSome \/ ReadWoken
    BY <2>2 DEF ReadSome, ReadWoken, EndRead
  <2>3. ASSUME NEW n \in Line, TakeAnswer(n) \/ WriteAnswer(n) \/ Settle(n) PROVE FreezeInv'
    BY <2>3 DEF TakeAnswer, WriteAnswer, Settle
  <2>4. CASE ClientWrites \/ Register \/ Unpark \/ StartRead
    BY <2>4 DEF ClientWrites, Register, Unpark, StartRead
  <2>5. CASE Parse
    BY <2>5 DEF Parse
  <2>6. CASE FreezeEnable \/ FreezeCheck \/ FreezeWoken
    BY <2>6 DEF FreezeEnable, FreezeCheck, FreezeWoken
  <2> QED BY <2>1, <2>2, <2>3, <2>4, <2>5, <2>6 DEF WireNext
<1>4. NoCallIsLost'
  <2> USE DEF NoCallIsLost, WireTypeOK, stdin, receives, freezes, flags, Notify
  <2>1. ASSUME NEW n \in Line, TakeAnswer(n) \/ WriteAnswer(n) \/ Settle(n)
        PROVE  NoCallIsLost'
    BY <2>1 DEF TakeAnswer, WriteAnswer, Settle
  <2>2. CASE Parse
    BY <2>2 DEF Parse
  <2>3. CASE \/ ClientWrites \/ Register \/ Look \/ Unpark \/ StartRead \/ ReadSome \/ ReadWoken
             \/ FreezeEnable \/ FreezeCheck \/ FreezeWoken
    BY <2>3 DEF ClientWrites, Register, Look, Unpark, StartRead, ReadSome, ReadWoken, EndRead,
       FreezeEnable, FreezeCheck, FreezeWoken
  <2> QED BY <2>1, <2>2, <2>3 DEF WireNext
<1> QED BY <1>1, <1>2, <1>3, <1>4

(* The wire is frozen, thawed and replaced: on a quiet wire no call is     *)
(* running and no line is held.                                            *)
LEMMA WireReload ==
  ASSUME WireInv, Freeze \/ Thaw \/ (freezer = "frozen" /\ Replace(input))
  PROVE  WireInv'
<1> USE DEF WireInv, stdin, receives, freezes, flags, Notify
<1>1. CASE Freeze
  BY <1>1 DEF Freeze, WireTypeOK, ParsingInv, FreezeInv, PlacesInv, InOrder, Gone, NoCallIsLost
<1>2. CASE Thaw
  BY <1>2 DEF Thaw, WireTypeOK, ParsingInv, FreezeInv, PlacesInv, InOrder, Gone, NoCallIsLost
<1>3. CASE freezer = "frozen" /\ Replace(input)
  <2>1. /\ taken = 0 /\ taken' = 0 /\ UNCHANGED <<sent, pipe, input, consumed>>
        /\ \A n \in Line : call[n] \notin {"running", "sending", "written"}
    BY <1>3 DEF Replace, FreezeInv, ParsingInv, Quiet, Incoming
  <2>2. call' = call
    BY <1>3, <2>1 DEF Replace, WireTypeOK
  <2>3. /\ receiver' = "away" /\ stirred' = FALSE /\ freezer' = "off" /\ roused' = FALSE
        /\ paused' = FALSE /\ reading' = FALSE /\ parsing' = FALSE
    BY <1>3 DEF Replace
  <2>4. WireTypeOK'
    BY <2>1, <2>2, <2>3 DEF WireTypeOK
  <2>5. ParsingInv' /\ FreezeInv' /\ NoCallIsLost'
    BY <2>1, <2>2, <2>3 DEF ParsingInv, FreezeInv, NoCallIsLost
  <2>6. PlacesInv'
    BY <2>1 DEF PlacesInv, InOrder, Gone
  <2> QED BY <2>4, <2>5, <2>6
<1> QED BY <1>1, <1>2, <1>3

LEMMA WireRests == WireInv /\ UNCHANGED wireVars => WireInv'
  BY DEF WireInv, wireVars, stdin, receives, freezes, flags, WireTypeOK, ParsingInv, FreezeInv,
     PlacesInv, InOrder, Gone, NoCallIsLost, Quiet, Incoming

-----------------------------------------------------------------------------
(* The handles *)

Saving   == watcher \in {"next", "gated", "read"}
Image(h) == saved[h] # Unsaved     \* the new image will hear of it

(* The watcher's phases are the server's and the wire's: handles are saved *)
(* on a frozen wire, and gates are held only then.                         *)
PhaseInv ==
  /\ server = "up" <=> watcher # "restoring"
  /\ freezer = "off" <=> watcher \in {"idle", "restoring"}
  /\ Saving => freezer = "frozen"
  /\ ~Saving => gates = {}
  /\ watcher \in {"gated", "read"} => current \in gates \cap todo
  /\ diagnosing # NoHandle => /\ server = "up"
                              /\ handle[diagnosing].desk
                              /\ handle[diagnosing].status = "none"

(* What a held gate leaves possible: nobody removes the workdir, and only  *)
(* a handle that had no status can get one.                                *)
GateInv ==
  /\ \A h \in gates :
       /\ handle[h].owns = original[h].owns
       /\ original[h].status # "none" => handle[h].status = original[h].status
  /\ watcher = "read" /\ original[current].status # "none" =>
       readStatus = original[current].status

(* What ServerRestore says of a handle, from its writing until the new     *)
(* image is through with it.                                               *)
SavedInv ==
  Saving \/ server = "restoring" =>
    \A h \in Handles : Image(h) =>
      /\ Saving => h \in gates \ todo
      /\ saved[h].session => ~saved[h].cleanup
      /\ saved[h].session \/ saved[h].cleanup = original[h].owns
      /\ original[h].status # "none" => saved[h].status = original[h].status

(* A server that is up locks what it owns by its claim, and a copy goes    *)
(* with each handle it wrote; in the new image the copy is the lock, until *)
(* it is adopted as the claim.                                             *)
LeaseInv ==
  /\ server = "up" => \A h \in Handles :
       /\ "claim" \in handle[h].lease <=> handle[h].owns
       /\ "copy" \in handle[h].lease <=> Saving /\ Image(h) /\ handle[h].owns
  /\ server = "restoring" => \A h \in Handles :
       IF h \in registered
       THEN /\ saved[h].session /\ handle[h].desk
            /\ handle[h].owns = original[h].owns
            /\ handle[h].lease = IF handle[h].owns THEN {"claim"} ELSE {}
       ELSE "copy" \in handle[h].lease <=> Image(h) /\ original[h].owns

HandleInv == PhaseInv /\ GateInv /\ SavedInv /\ LeaseInv

HandleTypeOK ==
  /\ server \in {"up", "restoring", "gone"} /\ reloads \in 0..MaxReloads
  /\ registered \subseteq Handles /\ alive \subseteq Handles /\ gates \subseteq Handles
  /\ handle \in [Handles -> Handle] /\ original \in [Handles -> Handle]
  /\ saved \in [Handles -> Saved] /\ todo \subseteq Handles
  /\ diagnosing \in Handles \cup {NoHandle} /\ current \in Handles \cup {NoHandle}
  /\ watcher \in {"idle", "freezing", "next", "gated", "read", "restoring"}
  /\ readStatus \in Status

IInv == WireInv /\ HandleTypeOK /\ HandleInv

-----------------------------------------------------------------------------
(* The steps of the handles *)

(* An action of the handles, or one of the watcher.                        *)
HandleMoves ==
  \/ \E h \in Handles : SandboxDies(h) \/ Diagnose(h) \/ Expire(h) \/ Stop(h)
  \/ RecordDeath
WatcherMoves ==
  \/ BinaryChanges \/ StartSaving \/ ReadStatus \/ WriteHandle \/ ReloadFails \/ Exec
  \/ \E h \in Handles : TakeGate(h) \/ ReattachSession(h) \/ ReattachFails(h)
  \/ RestoreEnds

LEMMA HandlesStart == Init => HandleTypeOK /\ HandleInv
<1> SUFFICES ASSUME Init PROVE HandleTypeOK /\ HandleInv
  OBVIOUS
<1>1. \A h \in Handles : /\ handle[h] \in Handle
                         /\ handle[h].owns => handle[h].lease = {"claim"}
                         /\ ~handle[h].owns => handle[h].lease = {}
  <2> TAKE h \in Handles
  <2>1. handle[h] = NewHandle \/ handle[h] \in Settled
    BY DEF Init
  <2>2. CASE handle[h] = NewHandle
    <3>1. NewHandle.owns = FALSE /\ NewHandle.lease = {} /\ NewHandle \in Handle
      BY DEF NewHandle, Handle, Status
    <3> QED BY <2>2, <3>1
  <2>3. CASE handle[h] \in Settled
    BY <2>3 DEF Settled
  <2> QED BY <2>1, <2>2, <2>3
<1>2. HandleTypeOK
  <2>1. handle \in [Handles -> Handle] /\ original \in [Handles -> Handle]
    BY <1>1 DEF Init
  <2> QED BY <2>1 DEF Init, HandleTypeOK, Saved, Unsaved, Status
<1>3. PhaseInv /\ GateInv /\ SavedInv
  BY DEF Init, WireInit, PhaseInv, GateInv, SavedInv, Saving
<1>4. LeaseInv
  BY <1>1 DEF Init, LeaseInv, Saving
<1> QED BY <1>2, <1>3, <1>4 DEF HandleInv

(* What removal may do to a handle, pointwise.                             *)
LEMMA RemovalEffect ==
  ASSUME HandleTypeOK, NEW h \in Handles, NEW status \in Status, Removal(h, status)
  PROVE  /\ handle' \in [Handles -> Handle]
         /\ \A k \in Handles \ {h} : handle'[k] = handle[k]
         /\ handle'[h].owns => handle[h].owns
         /\ "claim" \in handle'[h].lease <=> "claim" \in handle[h].lease /\
              (handle[h].owns => handle'[h].owns)
         /\ "copy" \in handle'[h].lease <=> "copy" \in handle[h].lease
<1>1. PICK removed \in IF Owned(h) THEN BOOLEAN ELSE {FALSE} :
        handle' = [handle EXCEPT ![h].status = status, ![h].desk = FALSE,
                    ![h].owns = Owned(h) /\ ~removed,
                    ![h].lease = IF removed THEN @ \ {"claim"} ELSE @]
  BY DEF Removal
<1>2. handle[h] \in Handle /\ handle \in [Handles -> Handle]
  BY DEF HandleTypeOK
<1>3. handle'[h] = [desk |-> FALSE, status |-> status, owns |-> Owned(h) /\ ~removed,
                    lease |-> IF removed THEN handle[h].lease \ {"claim"} ELSE handle[h].lease,
                    named |-> handle[h].named]
  BY <1>1, <1>2 DEF Handle
<1>4. \A k \in Handles \ {h} : handle'[k] = handle[k]
  BY <1>1, <1>2
<1>5. handle'[h] \in Handle
  BY <1>2, <1>3 DEF Handle, Owned
<1>6. handle' \in [Handles -> Handle]
  BY <1>1, <1>2, <1>4, <1>5
<1>7. handle[h].owns \in BOOLEAN /\ removed \in BOOLEAN /\ (removed => handle[h].owns)
  BY <1>2 DEF Handle, Owned
<1>8. handle'[h].owns <=> handle[h].owns /\ ~removed
  <2>1. handle'[h].owns = (handle[h].owns /\ ~removed)
    BY <1>3 DEF Owned
  <2> QED BY <1>7, <2>1, Zenon
<1>9. handle'[h].lease = IF removed THEN handle[h].lease \ {"claim"} ELSE handle[h].lease
  BY <1>3
<1>10. CASE removed
  BY <1>4, <1>6, <1>7, <1>8, <1>9, <1>10
<1>11. CASE ~removed
  BY <1>4, <1>6, <1>7, <1>8, <1>9, <1>11
<1> QED BY <1>7, <1>10, <1>11

LEMMA HandleTypeStep ==
  ASSUME HandleTypeOK, PhaseInv, HandleMoves \/ WatcherMoves
  PROVE  HandleTypeOK'
<1> USE DEF HandleTypeOK, handleVars, saveVars
<1>0. \A k \in Handles : handle[k] \in Handle
  OBVIOUS
<1>1. ASSUME NEW h \in Handles, SandboxDies(h) \/ Diagnose(h) PROVE HandleTypeOK'
  BY <1>1 DEF SandboxDies, Diagnose
<1>2. ASSUME NEW h \in Handles, Expire(h) \/ Stop(h) PROVE HandleTypeOK'
  <2>1. \E status \in Status : Removal(h, status)
    <3>1. handle[h].status \in Status
      BY <1>0 DEF Handle
    <3> QED BY <1>2, <3>1 DEF Expire, Stop, Status
  <2>2. handle' \in [Handles -> Handle]
    BY <2>1, RemovalEffect
  <2> QED BY <1>2, <2>2 DEF Expire, Stop
<1>3. CASE RecordDeath
  <2>1. diagnosing \in Handles
    BY <1>3 DEF RecordDeath
  <2>2. handle'[diagnosing] \in Handle /\ \A k \in Handles \ {diagnosing} : handle'[k] = handle[k]
    BY <1>0, <1>3, <2>1 DEF RecordDeath, Handle, Status
  <2>3. handle' \in [Handles -> Handle]
    BY <1>0, <1>3, <2>1, <2>2 DEF RecordDeath
  <2> QED BY <1>3, <2>3 DEF RecordDeath
<1>4. CASE BinaryChanges
  BY <1>4 DEF BinaryChanges
<1>5. CASE StartSaving
  BY <1>5 DEF StartSaving, Saved, Unsaved, Status
<1>6. CASE ReadStatus
  <2>1. handle[current].status \in Status
    BY <1>0, <1>6 DEF ReadStatus, PhaseInv, Handle
  <2> QED BY <1>6, <2>1 DEF ReadStatus
<1>7. CASE WriteHandle
  <2>1. current \in Handles /\ handle[current] \in Handle
    BY <1>0, <1>7 DEF WriteHandle, PhaseInv
  <2>2. saved' \in [Handles -> Saved]
    BY <1>7, <2>1 DEF WriteHandle, Saved, Status, Handle
  <2>3. handle'[current] \in Handle /\ \A k \in Handles \ {current} : handle'[k] = handle[k]
    BY <1>7, <2>1 DEF WriteHandle, Handle
  <2>4. handle' \in [Handles -> Handle]
    BY <1>0, <1>7, <2>1, <2>3 DEF WriteHandle
  <2> QED BY <1>7, <2>2, <2>4 DEF WriteHandle
<1>8. CASE ReloadFails
  <2>1. \A k \in Handles : Uncopied(k) \in Handle
    BY <1>0 DEF Uncopied, Handle
  <2>2. handle' \in [Handles -> Handle]
    BY <1>8, <2>1 DEF ReloadFails
  <2> QED BY <1>8, <2>2 DEF ReloadFails, Saved, Unsaved, Status
<1>9. CASE Exec
  <2>1. \A k \in Handles : [NewHandle EXCEPT !.lease = handle[k].lease \cap {"copy"}] \in Handle
    BY <1>0 DEF NewHandle, Handle, Status
  <2>2. handle' \in [Handles -> Handle]
    BY <1>9, <2>1 DEF Exec
  <2> QED BY <1>9, <2>2 DEF Exec
<1>10. ASSUME NEW h \in Handles, TakeGate(h) PROVE HandleTypeOK'
  BY <1>0, <1>10 DEF TakeGate
<1>11. ASSUME NEW h \in Handles, ReattachSession(h) PROVE HandleTypeOK'
  <2>1. handle' \in [Handles -> Handle]
    BY <1>0, <1>11 DEF ReattachSession, Adopted, Handle, Status
  <2> QED BY <1>11, <2>1 DEF ReattachSession
<1>12. ASSUME NEW h \in Handles, ReattachFails(h) PROVE HandleTypeOK'
  <2>1. NewHandle \in Handle
    BY DEF NewHandle, Handle, Status
  <2> QED BY <1>12, <2>1 DEF ReattachFails
<1>13. CASE RestoreEnds
  <2>1. \A k \in Handles : saved[k] \in Saved
    OBVIOUS
  <2>2. \A k \in Handles :
          /\ [handle[k] EXCEPT !.status = saved[k].status] \in Handle
          /\ [Cleaned(k) EXCEPT !.status = saved[k].status] \in Handle
          /\ [NewHandle EXCEPT !.status = saved[k].status,
                               !.named = saved[k].status # "none"] \in Handle
    BY <1>0, <2>1 DEF Saved, Handle, Cleaned, Adopted, NewHandle
  <2>3. handle' \in [Handles -> Handle]
    BY <1>13, <2>2 DEF RestoreEnds
  <2> QED BY <1>13, <2>3 DEF RestoreEnds
<1> QED BY <1>1, <1>2, <1>3, <1>4, <1>5, <1>6, <1>7, <1>8, <1>9, <1>10, <1>11, <1>12, <1>13
        DEF HandleMoves, WatcherMoves

(* The wire's own steps leave the handles alone, and a frozen wire frozen. *)
LEMMA WireKeepsHandles ==
  ASSUME HandleInv, Wire \/ UNCHANGED vars
  PROVE  HandleInv'
<1>1. /\ freezer' = "off" <=> freezer = "off"
      /\ freezer = "frozen" => freezer' = "frozen"
  <2> USE DEF stdin, receives, freezes, flags
  <2>1. CASE UNCHANGED vars
    BY <2>1 DEF vars, wireVars
  <2>2. ASSUME Wire, NEW n \in Line, TakeAnswer(n) \/ WriteAnswer(n) \/ Settle(n)
        PROVE  freezer' = freezer
    BY <2>2 DEF TakeAnswer, WriteAnswer, Settle
  <2>3. CASE Wire
    BY <2>2, <2>3 DEF Wire, WireNext, ClientWrites, Register, Look, Unpark, Parse, StartRead,
       ReadSome, ReadWoken, EndRead, FreezeEnable, FreezeCheck, FreezeWoken
  <2> QED BY <2>1, <2>3
<1>2. UNCHANGED reloadVars
  BY DEF Wire, vars
<1> QED BY <1>1, <1>2 DEF HandleInv, PhaseInv, GateInv, SavedInv, LeaseInv, Saving, Image,
           reloadVars, handleVars, saveVars

(* A handle that changes under the reload keeps what its gate protects.    *)
LEMMA HandleInvStep ==
  ASSUME HandleTypeOK, HandleInv, HandleMoves
  PROVE  HandleInv'
<1> USE DEF HandleInv, handleVars, saveVars, wireVars, freezes
<1>0. \A k \in Handles : handle[k] \in Handle
  BY DEF HandleTypeOK
<1>a. server' = server /\ UNCHANGED <<freezer, saveVars>>
  BY DEF HandleMoves, SandboxDies, Diagnose, Expire, Stop, RecordDeath
<1>b. SavedInv'
  BY <1>a DEF SavedInv, Saving, Image
<1>1. ASSUME NEW h \in Handles, SandboxDies(h) \/ Diagnose(h) PROVE HandleInv'
  <2>1. handle' = handle
    BY <1>1 DEF SandboxDies, Diagnose
  <2>2. server = "restoring" => registered' = registered
    BY <1>1 DEF SandboxDies, Diagnose
  <2>3. PhaseInv'
    BY <1>1, <1>a, <2>1 DEF SandboxDies, Diagnose, Stirring, PhaseInv, Saving
  <2>4. GateInv' /\ LeaseInv'
    BY <1>a, <2>1, <2>2 DEF GateInv, LeaseInv, Saving, Image
  <2> QED BY <1>b, <2>3, <2>4
<1>2. ASSUME NEW h \in Handles, Expire(h) \/ Stop(h) PROVE HandleInv'
  <2>1. server = "up" /\ h \notin gates /\ h # diagnosing /\ diagnosing' = diagnosing
    BY <1>2 DEF Expire, Stop, Stirring
  <2>2. \E status \in Status : Removal(h, status)
    <3>1. handle[h].status \in Status
      BY <1>0 DEF Handle
    <3> QED BY <1>2, <3>1 DEF Expire, Stop, Status
  <2>3. /\ handle' \in [Handles -> Handle]
        /\ \A k \in Handles \ {h} : handle'[k] = handle[k]
        /\ handle'[h].owns => handle[h].owns
        /\ "claim" \in handle'[h].lease <=> "claim" \in handle[h].lease /\
             (handle[h].owns => handle'[h].owns)
        /\ "copy" \in handle'[h].lease <=> "copy" \in handle[h].lease
    BY <2>2, RemovalEffect
  <2>4. PhaseInv'
    BY <1>a, <2>1, <2>3 DEF PhaseInv, Saving, HandleTypeOK
  <2>5. GateInv'
    BY <1>a, <2>1, <2>3 DEF GateInv, HandleTypeOK
  <2>6. LeaseInv'
    <3>1. ~(Saving /\ Image(h))
      BY <2>1 DEF SavedInv
    <3>2. "copy" \notin handle'[h].lease
      BY <2>1, <2>3, <3>1 DEF LeaseInv
    <3>3. "claim" \in handle'[h].lease <=> handle'[h].owns
      BY <2>1, <2>3 DEF LeaseInv
    <3> QED BY <1>a, <2>1, <2>3, <3>1, <3>2, <3>3 DEF LeaseInv, Saving, Image
  <2> QED BY <1>b, <2>4, <2>5, <2>6
<1>3. CASE RecordDeath
  <2>1. server = "up" /\ diagnosing \in Handles /\ diagnosing' = NoHandle
    BY <1>3 DEF RecordDeath, Stirring, HandleTypeOK
  <2>2. /\ \A k \in Handles \ {diagnosing} : handle'[k] = handle[k]
        /\ handle'[diagnosing].owns = handle[diagnosing].owns
        /\ handle'[diagnosing].lease = handle[diagnosing].lease
    BY <1>0, <1>3, <2>1 DEF RecordDeath, Handle, HandleTypeOK
  <2>3. \A k \in Handles : /\ handle'[k].owns = handle[k].owns
                           /\ handle'[k].lease = handle[k].lease
                           /\ handle[k].status # "none" => handle'[k].status = handle[k].status
    BY <2>1, <2>2, <1>3 DEF PhaseInv, RecordDeath
  <2>4. PhaseInv'
    BY <1>a, <2>1 DEF PhaseInv, Saving
  <2>5. GateInv'
    BY <1>a, <2>3 DEF GateInv, HandleTypeOK
  <2>6. LeaseInv'
    BY <1>a, <2>1, <2>3 DEF LeaseInv, Saving, Image
  <2> QED BY <1>b, <2>4, <2>5, <2>6
<1> QED BY <1>1, <1>2, <1>3 DEF HandleMoves

(* The steps of reexecute() and reattach().                                *)
LEMMA WatcherInvStep ==
  ASSUME WireInv, HandleTypeOK, HandleInv, WatcherMoves
  PROVE  HandleInv'
<1> USE DEF HandleInv, handleVars, saveVars, wireVars
<1>0. \A k \in Handles : handle[k] \in Handle /\ saved[k] \in Saved
  BY DEF HandleTypeOK
<1>1. CASE BinaryChanges
  <2>1. /\ server = "up" /\ watcher = "idle" /\ watcher' = "freezing" /\ freezer' = "looping"
        /\ UNCHANGED <<server, registered, handle, diagnosing, current, readStatus, gates,
                       saved, original>>
    BY <1>1 DEF BinaryChanges, Freeze
  <2> QED BY <2>1 DEF PhaseInv, GateInv, SavedInv, LeaseInv, Saving, Image
<1>2. CASE StartSaving
  <2>1. /\ watcher = "freezing" /\ watcher' = "next" /\ server = "up" /\ freezer = "frozen"
        /\ freezer' = freezer /\ saved' = [h \in Handles |-> Unsaved]
        /\ UNCHANGED <<server, registered, handle, diagnosing, gates, original>>
    BY <1>2 DEF StartSaving, PhaseInv, freezes
  <2> QED BY <2>1 DEF PhaseInv, GateInv, SavedInv, LeaseInv, Saving, Image, Unsaved
<1>3. ASSUME NEW h \in Handles, TakeGate(h) PROVE HandleInv'
  <2>1. /\ watcher = "next" /\ watcher' = "gated" /\ server = "up" /\ freezer' = freezer
        /\ current' = h /\ h \in todo /\ gates' = gates \cup {h}
        /\ UNCHANGED <<server, registered, handle, diagnosing, todo, readStatus, saved>>
    BY <1>3 DEF TakeGate, PhaseInv, freezes
  <2>2. /\ original'[h] = handle[h]
        /\ \A k \in Handles \ {h} : original'[k] = original[k]
    BY <1>3 DEF TakeGate, HandleTypeOK
  <2>3. PhaseInv'
    BY <2>1 DEF PhaseInv, Saving
  <2>4. GateInv'
    BY <2>1, <2>2 DEF GateInv, HandleTypeOK
  <2>5. SavedInv'
    BY <2>1, <2>2 DEF SavedInv, Saving, Image
  <2>6. LeaseInv'
    BY <2>1, <2>2 DEF LeaseInv, Saving, Image
  <2> QED BY <2>3, <2>4, <2>5, <2>6
<1>4. CASE ReadStatus
  <2>1. /\ watcher = "gated" /\ watcher' = "read" /\ server = "up" /\ freezer' = freezer
        /\ readStatus' = handle[current].status
        /\ UNCHANGED <<server, registered, handle, diagnosing, todo, current, gates, saved,
                       original>>
    BY <1>4 DEF ReadStatus, PhaseInv, freezes
  <2> QED BY <2>1 DEF PhaseInv, GateInv, SavedInv, LeaseInv, Saving, Image
<1>5. CASE WriteHandle
  <2>1. /\ watcher = "read" /\ watcher' = "next" /\ server = "up" /\ freezer' = freezer
        /\ todo' = todo \ {current} /\ current \in gates /\ current \in Handles
        /\ UNCHANGED <<server, registered, diagnosing, current, gates, original>>
    BY <1>5 DEF WriteHandle, PhaseInv, freezes, HandleTypeOK
  <2>2. /\ \A k \in Handles \ {current} : handle'[k] = handle[k] /\ saved'[k] = saved[k]
        /\ handle'[current].owns = handle[current].owns
        /\ handle'[current].desk = handle[current].desk
        /\ handle'[current].status = handle[current].status
        /\ handle'[current].lease = IF "claim" \in handle[current].lease
                                    THEN handle[current].lease \cup {"copy"}
                                    ELSE handle[current].lease
    BY <1>0, <1>5, <2>1 DEF WriteHandle, HandleTypeOK, Handle
  <2>3. saved'[current] =
          [session |-> handle[current].desk,
           cleanup |-> ~handle[current].desk /\ handle[current].owns,
           status  |-> IF ~handle[current].desk /\ handle[current].status = "none"
                       THEN "start_failed" ELSE readStatus]
    BY <1>5, <2>1 DEF WriteHandle, HandleTypeOK
  <2>4. /\ handle[current].desk \in BOOLEAN /\ handle[current].owns \in BOOLEAN
        /\ handle[current].owns = original[current].owns
        /\ original[current].status # "none" =>
             handle[current].status # "none" /\ readStatus = original[current].status
    BY <1>0, <2>1 DEF GateInv, Handle
  <2>5. PhaseInv'
    BY <2>1, <2>2 DEF PhaseInv, Saving, HandleTypeOK
  <2>6. GateInv'
    BY <2>1, <2>2 DEF GateInv, HandleTypeOK
  <2>7. SavedInv'
    <3>1. /\ saved'[current].session => ~saved'[current].cleanup
          /\ saved'[current].session \/ saved'[current].cleanup = original[current].owns
          /\ original[current].status # "none" =>
               saved'[current].status = original[current].status
      <4>1. /\ saved'[current].session = handle[current].desk
            /\ saved'[current].cleanup = (~handle[current].desk /\ handle[current].owns)
            /\ saved'[current].status =
                 IF ~handle[current].desk /\ handle[current].status = "none"
                 THEN "start_failed" ELSE readStatus
        BY <2>3
      <4>2. CASE handle[current].desk
        BY <2>4, <4>1, <4>2
      <4>3. CASE ~handle[current].desk
        BY <2>4, <4>1, <4>3
      <4> QED BY <4>2, <4>3
    <3> QED BY <2>1, <2>2, <3>1 DEF SavedInv, Saving, Image
  <2>8. LeaseInv'
    <3>1. handle[current].owns => saved'[current] # Unsaved
      <4>1. /\ saved'[current].session = handle[current].desk
            /\ saved'[current].cleanup = (~handle[current].desk /\ handle[current].owns)
        BY <2>3
      <4>2. Unsaved.session = FALSE /\ Unsaved.cleanup = FALSE
        BY DEF Unsaved
      <4>3. CASE handle[current].desk
        BY <2>4, <4>1, <4>2, <4>3
      <4>4. CASE ~handle[current].desk
        BY <2>4, <4>1, <4>2, <4>4
      <4> QED BY <4>3, <4>4
    <3>2. "copy" \in handle[current].lease => "claim" \in handle[current].lease
      BY <2>1 DEF LeaseInv
    <3> QED BY <2>1, <2>2, <3>1, <3>2 DEF LeaseInv, Saving, Image
  <2> QED BY <2>5, <2>6, <2>7, <2>8
<1>6. CASE ReloadFails
  <2>1. /\ Saving /\ server = "up" /\ watcher' = "idle" /\ freezer' = "off" /\ gates' = {}
        /\ UNCHANGED <<server, registered, diagnosing, original>>
    BY <1>6 DEF ReloadFails, Saving, PhaseInv, Thaw
  <2>2. \A k \in Handles : /\ handle'[k].owns = handle[k].owns
                           /\ handle'[k].desk = handle[k].desk
                           /\ handle'[k].status = handle[k].status
                           /\ handle'[k].lease = handle[k].lease \ {"copy"}
    BY <1>0, <1>6 DEF ReloadFails, Uncopied, Handle
  <2>3. PhaseInv' /\ GateInv' /\ SavedInv'
    BY <2>1, <2>2 DEF PhaseInv, GateInv, SavedInv, Saving, HandleTypeOK
  <2>4. LeaseInv'
    BY <2>1, <2>2 DEF LeaseInv, Saving
  <2> QED BY <2>3, <2>4
<1>7. CASE Exec
  <2>1. /\ Saving /\ server = "up" /\ server' = "restoring" /\ watcher' = "restoring"
        /\ freezer' = "off" /\ gates' = {} /\ diagnosing' = NoHandle /\ registered' = {}
        /\ UNCHANGED <<saved, original>>
    BY <1>7 DEF Exec, Replace, Saving, PhaseInv
  <2>2. \A k \in Handles : handle'[k].lease = handle[k].lease \cap {"copy"}
    BY <1>0, <1>7 DEF Exec, NewHandle
  <2>3. PhaseInv' /\ GateInv'
    BY <2>1 DEF PhaseInv, GateInv, Saving
  <2>4. SavedInv'
    BY <2>1 DEF SavedInv, Saving, Image
  <2>5. LeaseInv'
    <3>1. \A k \in Handles : "copy" \in handle'[k].lease <=> Image(k) /\ original[k].owns
      <4>1. \A k \in Handles : Image(k) => handle[k].owns = original[k].owns
        BY <2>1 DEF SavedInv, GateInv
      <4> QED BY <2>1, <2>2, <4>1 DEF LeaseInv
    <3> QED BY <2>1, <3>1 DEF LeaseInv, Image
  <2> QED BY <2>3, <2>4, <2>5
<1>8. ASSUME NEW h \in Handles, ReattachSession(h) PROVE HandleInv'
  <2>1. /\ server = "restoring" /\ saved[h].session /\ h \notin registered
        /\ registered' = registered \cup {h} /\ freezer' = freezer
        /\ UNCHANGED <<server, diagnosing, saveVars>>
    BY <1>8 DEF ReattachSession, freezes
  <2>2. /\ \A k \in Handles \ {h} : handle'[k] = handle[k]
        /\ handle'[h].desk /\ handle'[h].owns = (Adopted(h) # {})
        /\ handle'[h].lease = Adopted(h)
    BY <1>8 DEF ReattachSession, HandleTypeOK
  <2>3. Adopted(h) = IF original[h].owns THEN {"claim"} ELSE {}
    <3>1. Image(h)
      BY <2>1 DEF Image, Unsaved
    <3> QED BY <2>1, <3>1 DEF LeaseInv, Adopted
  <2>4. PhaseInv' /\ GateInv' /\ SavedInv'
    BY <2>1 DEF PhaseInv, GateInv, SavedInv, Saving, Image
  <2>5. LeaseInv'
    <3>1. original[h].owns \in BOOLEAN
      BY DEF HandleTypeOK, Handle
    <3>2. /\ handle'[h].owns = original[h].owns
          /\ handle'[h].lease = IF handle'[h].owns THEN {"claim"} ELSE {}
      BY <2>2, <2>3, <3>1
    <3> QED BY <2>1, <2>2, <3>2 DEF LeaseInv, Image
  <2> QED BY <2>4, <2>5
<1>9. ASSUME NEW h \in Handles, ReattachFails(h) PROVE HandleInv'
  <2>1. /\ server = "restoring" /\ server' = "gone" /\ freezer' = freezer
        /\ UNCHANGED <<diagnosing, saveVars>>
    BY <1>9 DEF ReattachFails, freezes
  <2> QED BY <2>1 DEF PhaseInv, GateInv, SavedInv, LeaseInv, Saving
<1>10. CASE RestoreEnds
  <2>1. /\ server = "restoring" /\ server' = "up" /\ watcher' = "idle" /\ freezer' = freezer
        /\ UNCHANGED <<diagnosing, gates, original, saved>>
        /\ \A k \in Handles : saved[k].session => k \in registered
    BY <1>10 DEF RestoreEnds, freezes
  <2>2. PhaseInv' /\ GateInv' /\ SavedInv'
    BY <2>1 DEF PhaseInv, GateInv, SavedInv, Saving
  <2>3. ASSUME NEW k \in Handles
        PROVE  /\ "claim" \in handle'[k].lease <=> handle'[k].owns
               /\ "copy" \notin handle'[k].lease
    <3>1. CASE saved[k].session
      <4>1. handle'[k].lease = handle[k].lease /\ handle'[k].owns = handle[k].owns
        BY <1>0, <1>10, <3>1 DEF RestoreEnds, Handle
      <4> QED BY <2>1, <3>1, <4>1 DEF LeaseInv
    <3>2. CASE ~saved[k].session /\ saved[k].cleanup
      <4>1. handle'[k].lease = Adopted(k) /\ handle'[k].owns = TRUE
        BY <1>0, <1>10, <3>2 DEF RestoreEnds, Cleaned, NewHandle
      <4>2. Image(k) /\ k \notin registered
        BY <2>1, <3>2 DEF Image, Unsaved, LeaseInv
      <4>3. "copy" \in handle[k].lease
        BY <2>1, <3>2, <4>2 DEF LeaseInv, SavedInv
      <4> QED BY <4>1, <4>3 DEF Adopted
    <3>3. CASE ~saved[k].session /\ ~saved[k].cleanup
      <4>1. handle'[k].lease = {} /\ handle'[k].owns = FALSE
        BY <1>10, <3>3 DEF RestoreEnds, NewHandle
      <4> QED BY <4>1
    <3> QED BY <3>1, <3>2, <3>3
  <2>4. LeaseInv'
    BY <2>1, <2>3 DEF LeaseInv, Saving
  <2> QED BY <2>2, <2>4
<1> QED BY <1>1, <1>2, <1>3, <1>4, <1>5, <1>6, <1>7, <1>8, <1>9, <1>10 DEF WatcherMoves

-----------------------------------------------------------------------------
(* Theorems *)

LEMMA NextSplits == Next <=> Wire \/ HandleMoves \/ WatcherMoves
  BY DEF Next, HandleMoves, WatcherMoves

LEMMA IInvStart == Init => IInv
  BY WireStart, HandlesStart DEF Init, IInv

LEMMA IInvStep ==
  ASSUME IInv, [Next]_vars
  PROVE  IInv'
<1> USE DEF IInv
<1>1. CASE Wire
  <2>1. WireInv'
    BY <1>1, WireStep DEF Wire
  <2>2. HandleTypeOK'
    BY <1>1 DEF Wire, HandleTypeOK, reloadVars, handleVars, saveVars
  <2> QED BY <1>1, <2>1, <2>2, WireKeepsHandles
<1>2. CASE HandleMoves
  <2>1. UNCHANGED wireVars
    BY <1>2 DEF HandleMoves, SandboxDies, Diagnose, Expire, Stop, RecordDeath, saveVars
  <2>2. WireInv'
    BY <2>1, WireRests
  <2> QED BY <1>2, <2>2, HandleTypeStep, HandleInvStep DEF HandleInv
<1>3. CASE WatcherMoves
  <2>1. CASE UNCHANGED wireVars
    BY <1>3, <2>1, WireRests, HandleTypeStep, WatcherInvStep DEF HandleInv
  <2>2. CASE BinaryChanges \/ ReloadFails \/ Exec
    <3>1. Exec => freezer = "frozen"
      BY DEF Exec, HandleInv, PhaseInv, Saving
    <3>2. Freeze \/ Thaw \/ (freezer = "frozen" /\ Replace(input))
      BY <2>2, <3>1 DEF BinaryChanges, ReloadFails, Exec
    <3> QED BY <1>3, <3>2, WireReload, HandleTypeStep, WatcherInvStep DEF HandleInv
  <2> QED BY <1>3, <2>1, <2>2 DEF WatcherMoves, StartSaving, ReadStatus, WriteHandle, TakeGate,
             ReattachSession, ReattachFails, RestoreEnds
<1>4. CASE UNCHANGED vars
  <2>1. UNCHANGED <<wireVars, reloadVars>>
    BY <1>4 DEF vars
  <2>2. HandleTypeOK'
    BY <2>1 DEF HandleTypeOK, reloadVars, handleVars, saveVars
  <2> QED BY <1>4, <2>1, <2>2, WireRests, WireKeepsHandles
<1> QED BY <1>1, <1>2, <1>3, <1>4, NextSplits

LEMMA Invariance == Spec => []IInv
  BY IInvStart, IInvStep, PTL DEF Spec

(* The state keeps its types: a saved or restored handle is a handle.      *)
THEOREM TypeCorrect == Spec => []TypeOK
<1>1. IInv => TypeOK
  BY DEF IInv, WireInv, HandleTypeOK, TypeOK
<1> QED BY <1>1, Invariance, PTL

(* However often the wire is paused and the image replaced, and wherever a *)
(* read ends or a line is put back: the lines taken, held, buffered and    *)
(* still in the pipe are what the client wrote, in order and each once.    *)
THEOREM LinesInOrder == Spec => []LinesKeepTheirOrder
<1>1. IInv => LinesKeepTheirOrder
  BY PlacesKeepOrder DEF IInv, WireInv
<1> QED BY <1>1, Invariance, PTL

(* An image is replaced only when no call runs or is half answered: freeze *)
(* waits until the wire is quiet, and a paused wire starts nothing.        *)
THEOREM CallsAreAnswered == Spec => []NoCallIsLost
<1>1. IInv => NoCallIsLost
  BY DEF IInv, WireInv
<1> QED BY <1>1, Invariance, PTL

(* The lease of a workdir that a server owns stays locked through the copy *)
(* of its descriptor, the exec and the adoption in the new image.          *)
THEOREM LeasesStayLocked == Spec => []LeaseNeverLapses
<1>1. IInv => LeaseNeverLapses
  <2> SUFFICES ASSUME IInv, NEW h \in Handles,
                      \/ server = "up" /\ h \in registered /\ Owned(h)
                      \/ server = "restoring" /\ saved[h] # Unsaved /\ original[h].owns
               PROVE  handle[h].lease # {}
    BY DEF LeaseNeverLapses
  <2>1. CASE server = "up" /\ Owned(h)
    BY <2>1 DEF IInv, HandleInv, LeaseInv, Owned
  <2>2. CASE server = "restoring" /\ saved[h] # Unsaved /\ original[h].owns
    BY <2>2 DEF IInv, HandleInv, LeaseInv, Image
  <2> QED BY <2>1, <2>2
<1> QED BY <1>1, Invariance, PTL

(* A handle that reexecute() wrote keeps its terminal status and its       *)
(* workdir, and its desktop if it had one: the gates it holds keep them as *)
(* they were read, and reattach() and the cleanup list bring each back.    *)
THEOREM HandlesAreKept == Spec => ReloadKeepsHandles
<1> DEFINE Kept ==
      server = "restoring" /\ server' = "up" =>
        \A h \in Handles : saved[h] # Unsaved =>
          /\ original[h].status # "none" => handle'[h].status = original[h].status
          /\ handle'[h].owns = original[h].owns
          /\ saved[h].session => handle'[h].desk
<1>1. IInv /\ [Next]_vars => [Kept]_vars
  <2> SUFFICES ASSUME IInv, Next, server = "restoring", server' = "up",
                      NEW h \in Handles, saved[h] # Unsaved
               PROVE  /\ original[h].status # "none" => handle'[h].status = original[h].status
                      /\ handle'[h].owns = original[h].owns
                      /\ saved[h].session => handle'[h].desk
    BY DEF vars, reloadVars
  <2>1. RestoreEnds
    BY DEF Next, Wire, SandboxDies, Diagnose, Expire, Stop, RecordDeath, BinaryChanges,
       StartSaving, ReadStatus, WriteHandle, ReloadFails, Exec, TakeGate, ReattachSession,
       ReattachFails, Stirring, reloadVars
  <2>2. /\ saved[h].session => ~saved[h].cleanup
        /\ saved[h].session \/ saved[h].cleanup = original[h].owns
        /\ original[h].status # "none" => saved[h].status = original[h].status
    BY DEF IInv, HandleInv, SavedInv, Image
  <2>3. handle[h] \in Handle /\ saved[h] \in Saved /\ original[h] \in Handle
    BY DEF IInv, HandleTypeOK
  <2>4. CASE saved[h].session
    <3>1. /\ handle'[h].status = saved[h].status /\ handle'[h].owns = handle[h].owns
          /\ handle'[h].desk = handle[h].desk
      BY <2>1, <2>3, <2>4 DEF RestoreEnds, Handle
    <3>2. handle[h].desk /\ handle[h].owns = original[h].owns
      BY <2>1, <2>4 DEF RestoreEnds, IInv, HandleInv, LeaseInv
    <3> QED BY <2>2, <3>1, <3>2
  <2>5. CASE ~saved[h].session /\ saved[h].cleanup
    <3>1. handle'[h].status = saved[h].status /\ handle'[h].owns = TRUE
      BY <2>1, <2>3, <2>5 DEF RestoreEnds, Cleaned, NewHandle
    <3> QED BY <2>2, <2>3, <2>5, <3>1 DEF Handle, Saved
  <2>6. CASE ~saved[h].session /\ ~saved[h].cleanup
    <3>1. handle'[h].status = saved[h].status /\ handle'[h].owns = FALSE
      BY <2>1, <2>6 DEF RestoreEnds, NewHandle
    <3> QED BY <2>2, <2>3, <2>6, <3>1 DEF Handle, Saved
  <2> QED BY <2>4, <2>5, <2>6
<1> QED BY <1>1, Invariance, PTL DEF Spec, ReloadKeepsHandles
=============================================================================
