---------------------------- MODULE FileIOProofs ----------------------------
(***************************************************************************)
(* libc's calls on files are FileSpec's, for any processes and files, and  *)
(* whichever calls fail.  The invariant is the type invariant: what a seek *)
(* has to remember between its two calls is all in the words of one image, *)
(* which no other process writes.                                          *)
(***************************************************************************)
EXTENDS FileIO, SequenceTheorems, TLAPS

-----------------------------------------------------------------------------
(* Bytes of a file. *)

LEMMA AsFunction ==
  ASSUME NEW s \in Seq(Nat), NEW f, NEW n \in Nat, Len(s) = n,
         DOMAIN f = 1 .. n, f = [k \in DOMAIN f |-> f[k]],
         \A k \in 1 .. n : s[k] = f[k]
  PROVE  s = f
<1>1. DOMAIN s = 1 .. n /\ s = [k \in DOMAIN s |-> s[k]]
  BY LenProperties
<1>2. QED
  BY <1>1

LEMMA GotIs ==
  ASSUME NEW h \in File, NEW n \in Nat,
         contents[h] \in Seq(Nat), position[h] \in Nat, ~AtEnd(h)
  PROVE  LET left == Len(contents[h]) - position[h]
             m    == IF left < n THEN left ELSE n
         IN  /\ Got(h, n) \in Seq(Nat) /\ Len(Got(h, n)) = m
             /\ Got(h, n) = [k \in 1 .. m |-> contents[h][position[h] + k]]
<1> DEFINE c    == contents[h]
           pos  == position[h]
           left == Len(c) - pos
           m    == IF left < n THEN left ELSE n
           f    == [k \in 1 .. m |-> c[pos + k]]
<1>1. /\ Len(c) \in Nat /\ pos \in Nat /\ pos < Len(c)
      /\ m \in Nat /\ pos + m <= Len(c)
  BY LenProperties DEF AtEnd
<1>2. Got(h, n) = SubSeq(c, pos + 1, pos + m)
  <2>1. (IF pos + n < Len(c) THEN pos + n ELSE Len(c)) = pos + m
    BY <1>1
  <2>2. QED
    BY <2>1 DEF Got
<1>3. \A k \in pos + 1 .. pos + m : c[k] \in Nat
  BY <1>1, ElementOfSeq
<1> HIDE DEF m, c, pos
<1>4. /\ Got(h, n) \in Seq(Nat) /\ Len(Got(h, n)) = m
      /\ \A k \in 1 .. m : Got(h, n)[k] = c[pos + k]
  <2>1. pos \in Nat
    BY DEF pos
  <2>2. /\ SubSeq(c, pos + 1, pos + m) \in Seq(Nat)
        /\ Len(SubSeq(c, pos + 1, pos + m))
             = IF pos + 1 <= pos + m THEN (pos + m) - (pos + 1) + 1 ELSE 0
        /\ \A k \in 1 .. (pos + m) - (pos + 1) + 1 :
              SubSeq(c, pos + 1, pos + m)[k] = c[pos + 1 + k - 1]
    BY <1>1, <1>3, <2>1, SubSeqProperties
  <2>3. QED
    BY <1>1, <1>2, <2>1, <2>2
<1>5. Got(h, n) = f
  BY <1>1, <1>4, AsFunction
<1>6. QED
  BY <1>4, <1>5 DEF m, c, pos

LEMMA ZerosAre ==
  ASSUME NEW n \in Int
  PROVE  /\ Zeros(n) \in Seq(Nat) /\ Len(Zeros(n)) = IF n < 0 THEN 0 ELSE n
         /\ \A k \in 1 .. n : Zeros(n)[k] = 0
<1>1. CASE n < 0
  <2>1. Zeros(n) = << >>
    BY <1>1 DEF Zeros
  <2>2. QED
    BY <1>1, <2>1
<1>2. CASE n >= 0
  BY <1>2 DEF Zeros
<1>3. QED
  BY <1>1, <1>2

(* What a write leaves, byte by byte. *)
Overlaid(c, from, bytes) ==
  LET to   == from + Len(bytes)
      size == IF to > Len(c) THEN to ELSE Len(c)
  IN  [k \in 1 .. size |-> IF k \in from + 1 .. to THEN bytes[k - from]
                           ELSE IF k \in DOMAIN c THEN c[k] ELSE 0]

LEMMA WrittenIs ==
  ASSUME NEW c \in Seq(Nat), NEW from \in Nat, NEW bytes \in Seq(Nat)
  PROVE  LET old == c \o Zeros(from - Len(c))
             new == SubSeq(old, 1, from) \o bytes
                      \o SubSeq(old, from + Len(bytes) + 1, Len(old))
         IN  new \in Seq(Nat) /\ new = Overlaid(c, from, bytes)
<1> DEFINE zeros == Zeros(from - Len(c))
           old   == c \o zeros
           left  == SubSeq(old, 1, from)
           to    == from + Len(bytes)
           right == SubSeq(old, to + 1, Len(old))
           new   == left \o bytes \o right
           size  == IF to > Len(c) THEN to ELSE Len(c)
           Byte(k) == IF k \in from + 1 .. to THEN bytes[k - from]
                      ELSE IF k \in DOMAIN c THEN c[k] ELSE 0
<1>1. /\ zeros \in Seq(Nat) /\ Len(zeros) = IF from < Len(c) THEN 0 ELSE from - Len(c)
      /\ \A k \in 1 .. from - Len(c) : zeros[k] = 0
  BY ZerosAre
<1> HIDE DEF zeros
<1>2. /\ old \in Seq(Nat) /\ Len(old) = IF from < Len(c) THEN Len(c) ELSE from
      /\ \A k \in 1 .. Len(c) : old[k] = c[k]
      /\ \A k \in Len(c) + 1 .. from : old[k] = 0
  <2>1. /\ old \in Seq(Nat) /\ Len(old) = Len(c) + Len(zeros)
        /\ \A k \in 1 .. Len(c) + Len(zeros) :
              old[k] = IF k <= Len(c) THEN c[k] ELSE zeros[k - Len(c)]
    BY <1>1, ConcatProperties
  <2>2. Len(c) \in Nat
    BY LenProperties
  <2>3. QED
    BY <1>1, <2>1, <2>2
<1> HIDE DEF old
<1>3. Len(c) \in Nat /\ Len(bytes) \in Nat /\ to \in Nat /\ from <= to
  BY LenProperties
<1>4. /\ left \in Seq(Nat) /\ Len(left) = from
      /\ \A k \in 1 .. from : left[k] = old[k]
  <2>1. \A k \in 1 .. from : old[k] \in Nat
    BY <1>2, <1>3, ElementOfSeq
  <2>2. /\ left \in Seq(Nat) /\ Len(left) = IF 1 <= from THEN from - 1 + 1 ELSE 0
        /\ \A k \in 1 .. from - 1 + 1 : left[k] = old[1 + k - 1]
    BY <2>1, SubSeqProperties
  <2>3. QED
    BY <2>2
<1>5. /\ right \in Seq(Nat) /\ Len(right) = IF to < Len(old) THEN Len(old) - to ELSE 0
      /\ \A k \in 1 .. Len(old) - to : right[k] = old[to + k]
  <2>1. \A k \in to + 1 .. Len(old) : old[k] \in Nat
    BY <1>2, <1>3, ElementOfSeq
  <2>2. /\ right \in Seq(Nat)
        /\ Len(right) = IF to + 1 <= Len(old) THEN Len(old) - (to + 1) + 1 ELSE 0
        /\ \A k \in 1 .. Len(old) - (to + 1) + 1 : right[k] = old[to + 1 + k - 1]
    BY <1>2, <1>3, <2>1, SubSeqProperties
  <2>3. QED
    BY <1>2, <1>3, <2>2
<1> HIDE DEF left, right, to
<1>6. /\ new \in Seq(Nat) /\ Len(new) = from + Len(bytes) + Len(right)
      /\ \A k \in 1 .. from + Len(bytes) + Len(right) :
            new[k] = IF k <= from THEN left[k]
                     ELSE IF k <= from + Len(bytes) THEN bytes[k - from]
                     ELSE right[k - (from + Len(bytes))]
  <2> DEFINE front == left \o bytes
  <2>1. /\ front \in Seq(Nat) /\ Len(front) = from + Len(bytes)
        /\ \A k \in 1 .. from + Len(bytes) :
              front[k] = IF k <= from THEN left[k] ELSE bytes[k - from]
    BY <1>4, ConcatProperties
  <2>2. new = front \o right
    OBVIOUS
  <2> HIDE DEF new, front
  <2>3. /\ new \in Seq(Nat) /\ Len(new) = Len(front) + Len(right)
        /\ \A k \in 1 .. Len(front) + Len(right) :
              new[k] = IF k <= Len(front) THEN front[k] ELSE right[k - Len(front)]
    BY <1>5, <2>1, <2>2, ConcatProperties
  <2>4. Len(right) \in Nat
    BY <1>5, LenProperties
  <2>5. ASSUME NEW k \in 1 .. from + Len(bytes) + Len(right)
        PROVE  new[k] = IF k <= from THEN left[k]
                        ELSE IF k <= from + Len(bytes) THEN bytes[k - from]
                        ELSE right[k - (from + Len(bytes))]
    <3>1. k \in 1 .. Len(front) + Len(right)
      BY <2>1
    <3>2. new[k] = IF k <= from + Len(bytes) THEN front[k]
                   ELSE right[k - (from + Len(bytes))]
      BY <2>1, <2>3, <3>1
    <3>3. k <= from + Len(bytes) =>
            front[k] = IF k <= from THEN left[k] ELSE bytes[k - from]
      BY <1>3, <2>1, <2>4
    <3>4. k <= from => k <= from + Len(bytes)
      BY <1>3, <2>4
    <3>5. QED
      BY <3>2, <3>3, <3>4
  <2>6. QED
    BY <2>1, <2>3, <2>5
<1> HIDE DEF new
<1>7. Len(new) = size /\ size \in Nat
  <2>1. to = from + Len(bytes)
    BY DEF to
  <2>2. Len(right) \in Nat /\ Len(new) = to + Len(right)
    BY <1>3, <1>5, <1>6, <2>1, LenProperties
  <2>3. CASE from < Len(c)
    BY <1>2, <1>3, <1>5, <2>2, <2>3
  <2>4. CASE from >= Len(c)
    BY <1>2, <1>3, <1>5, <2>2, <2>4
  <2>5. QED
    BY <1>3, <2>3, <2>4
<1>8. ASSUME NEW k \in 1 .. size PROVE new[k] = Byte(k)
  <2>1. CASE k <= from
    <3>1. k \in 1 .. from /\ k \in Nat /\ k <= from + Len(bytes) + Len(right)
      BY <1>3, <1>5, <1>7, <2>1, LenProperties
    <3>2. new[k] = left[k]
      BY <1>6, <3>1
    <3>3. left[k] = old[k]
      BY <1>4, <3>1
    <3>4. k \in DOMAIN c <=> k \in 1 .. Len(c)
      BY LenProperties
    <3>5. old[k] = IF k \in DOMAIN c THEN c[k] ELSE 0
      BY <1>2, <1>3, <3>1, <3>4
    <3>6. k \notin from + 1 .. to
      BY <1>3, <3>1
    <3>7. QED
      BY <3>2, <3>3, <3>5, <3>6
  <2>2. CASE k \in from + 1 .. to
    BY <1>3, <1>6, <1>7, <2>2 DEF to
  <2>3. CASE k > to
    <3>1. k <= Len(c) /\ Len(old) = Len(c) /\ k - to \in 1 .. Len(old) - to
      BY <1>2, <1>3, <1>7, <2>3 DEF to
    <3>2. right[k - to] = c[k]
      BY <1>2, <1>3, <1>5, <3>1
    <3>3. new[k] = right[k - to]
      BY <1>3, <1>6, <1>7, <2>3 DEF to
    <3>4. k \in DOMAIN c /\ k \notin from + 1 .. to
      BY <1>3, <2>3, <3>1, LenProperties
    <3>5. QED
      BY <3>2, <3>3, <3>4
  <2>4. QED
    BY <1>3, <1>7, <2>1, <2>2, <2>3
<1> DEFINE f == [k \in 1 .. size |-> Byte(k)]
<1>9. new = f
  BY <1>6, <1>7, <1>8, AsFunction
<1>10. f = Overlaid(c, from, bytes)
  BY DEF Overlaid, to
<1>11. new \in Seq(Nat) /\ new = Overlaid(c, from, bytes)
  BY <1>6, <1>9, <1>10
<1>12. QED
  BY <1>11 DEF new, old, left, right, zeros, to

-----------------------------------------------------------------------------
(* Type correctness. *)

LEMMA HandleIsFile ==
  ASSUME TypeOK, NEW p \in Proc, NEW d \in Used
  PROVE  StdHandle(p, d) \in File
BY CallAssumption DEF TypeOK, StdHandle, Standard

LEMMA WordsSet ==
  ASSUME NEW w \in Words, NEW h \in File
  PROVE  /\ [w EXCEPT !.handle = h] \in Words
         /\ \A n \in Nat : [w EXCEPT !.handle = h, !.bufptr = Address, !.buflen = n] \in Words
BY DEF Words

LEMMA Answered ==
  ASSUME TypeOK, NEW p \in Proc, NEW call, NEW value \in Nat \cup {-1}, NEW bytes \in Seq(Nat),
         call \in {"read_byte", "read_block", "write_byte", "write_block", "lseek"},
         Answers(p, call, value, bytes)
  PROVE  answer' \in [Proc -> Answer]
BY DEF TypeOK, Answers, Answer

LEMMA NtReadType ==
  ASSUME TypeOK, NEW p \in Proc, NEW h \in File, NEW n \in Nat, NtRead(p, h, n)
  PROVE  position' \in [File -> Nat] /\ Got(h, n) \in Seq(Nat) /\ Len(Got(h, n)) \in Nat
<1>1. Got(h, n) \in Seq(Nat)
  BY GotIs DEF TypeOK, NtRead
<1>2. Len(Got(h, n)) \in Nat
  BY <1>1, LenProperties
<1>3. QED
  BY <1>1, <1>2 DEF TypeOK, NtRead

LEMMA NtWriteType ==
  ASSUME TypeOK, NEW p \in Proc, NEW h \in File, NEW bytes \in Seq(Nat), NtWrite(p, h, bytes)
  PROVE  contents' \in [File -> Seq(Nat)] /\ position' \in [File -> Nat]
<1>1. Len(bytes) \in Nat
  BY LenProperties
<1>2. contents[h] \in Seq(Nat) /\ position[h] \in Nat
  BY DEF TypeOK
<1>3. contents' \in [File -> Seq(Nat)]
  BY <1>2, WrittenIs DEF TypeOK, NtWrite
<1>4. position' \in [File -> Nat]
  <2>1. position' = [position EXCEPT ![h] = position[h] + Len(bytes)]
    BY DEF NtWrite
  <2>2. position \in [File -> Nat] /\ position[h] + Len(bytes) \in Nat
    BY <1>1, <1>2 DEF TypeOK
  <2>3. QED
    BY <2>1, <2>2
<1>5. QED
  BY <1>3, <1>4

(* A transfer writes the words of a process that is in no seek. *)
LEMMA OthersSeek ==
  ASSUME TypeOK, NEW p \in Proc, at[p] = "out", at' = at,
         \A q \in Proc \ {p} : words'[q] = words[q]
  PROVE  \A q \in Proc : at'[q] = "set" => words'[q].handle \in File
BY DEF TypeOK

LEMMA TransferType ==
  ASSUME TypeOK, NEW p \in Proc, NEW d \in Used,
         \/ ReadByte(p, d)
         \/ \E n \in Count : ReadBlock(p, d, n)
         \/ \E bytes \in Data : WriteBlock(p, d, bytes)
         \/ \E bytes \in Data : Len(bytes) = 1 /\ WriteByte(p, d, bytes[1])
  PROVE  TypeOK'
<1> DEFINE h == StdHandle(p, d)
<1>1. h \in File
  BY HandleIsFile
<1> HIDE DEF h
<1>2. words[p] \in Words
  BY DEF TypeOK
<1>3. << >> \in Seq(Nat) /\ 0 \in Nat
  BY EmptySeq
<1>4. CASE ReadByte(p, d)
  <2>1. words' \in [Proc -> Words]
    BY <1>1, <1>2, <1>4, WordsSet DEF ReadByte, TypeOK, h
  <2>2. position' \in [File -> Nat] /\ answer' \in [Proc -> Answer]
    <3>1. CASE NtRead(p, h, 1) /\ Answers(p, "read_byte", Got(h, 1)[1], Got(h, 1))
      <4>1. Got(h, 1)[1] \in Nat
        <5>1. /\ contents[h] \in Seq(Nat) /\ position[h] \in Nat
              /\ Len(contents[h]) \in Nat /\ position[h] < Len(contents[h])
          BY <1>1, <3>1, LenProperties DEF TypeOK, NtRead, AtEnd
        <5>2. ~AtEnd(h)
          BY <3>1 DEF NtRead
        <5>3. /\ Got(h, 1) \in Seq(Nat)
              /\ Len(Got(h, 1)) = IF Len(contents[h]) - position[h] < 1
                                  THEN Len(contents[h]) - position[h] ELSE 1
          <6>1. 1 \in Nat
            OBVIOUS
          <6>2. QED
            BY <1>1, <5>1, <5>2, <6>1, GotIs
        <5>4. Len(Got(h, 1)) = 1
          BY <5>1, <5>3
        <5>5. QED
          BY <5>3, <5>4, ElementOfSeq
      <4>2. QED
        BY <1>1, <3>1, <4>1, NtReadType, Answered
    <3>2. CASE NtReadFails(p, h) /\ Answers(p, "read_byte", -1, << >>)
      BY <1>3, <3>2, Answered DEF NtReadFails, TypeOK
    <3>3. QED
      BY <1>4, <3>1, <3>2 DEF ReadByte, h
  <2>3. /\ contents' = contents /\ open' = open /\ slots' = slots /\ at' = at
        /\ at[p] = "out" /\ calls' = calls + 1
        /\ \A q \in Proc \ {p} : words'[q] = words[q]
    BY <1>4 DEF ReadByte, Call, TypeOK
  <2>4. \A q \in Proc : at'[q] = "set" => words'[q].handle \in File
    BY <2>3, OthersSeek
  <2>5. QED
    BY <2>1, <2>2, <2>3, <2>4 DEF TypeOK
<1>5. ASSUME NEW n \in Count, ReadBlock(p, d, n) PROVE TypeOK'
  <2>1. n \in Nat
    BY CallAssumption
  <2>2. words' \in [Proc -> Words]
    BY <1>1, <1>2, <1>5, <2>1, WordsSet DEF ReadBlock, TypeOK, h
  <2>3. position' \in [File -> Nat] /\ answer' \in [Proc -> Answer]
    <3>1. CASE NtRead(p, h, n) /\ Answers(p, "read_block", Len(Got(h, n)), Got(h, n))
      BY <1>1, <2>1, <3>1, NtReadType, Answered
    <3>2. CASE NtReadFails(p, h) /\ Answers(p, "read_block", 0, << >>)
      BY <1>3, <3>2, Answered DEF NtReadFails, TypeOK
    <3>3. QED
      BY <1>5, <3>1, <3>2 DEF ReadBlock, h
  <2>4. /\ contents' = contents /\ open' = open /\ slots' = slots /\ at' = at
        /\ at[p] = "out" /\ calls' = calls + 1
        /\ \A q \in Proc \ {p} : words'[q] = words[q]
    BY <1>5 DEF ReadBlock, Call, TypeOK
  <2>5. \A q \in Proc : at'[q] = "set" => words'[q].handle \in File
    BY <2>4, OthersSeek
  <2>6. QED
    BY <2>2, <2>3, <2>4, <2>5 DEF TypeOK
<1>6. ASSUME NEW bytes \in Data, WriteBlock(p, d, bytes) PROVE TypeOK'
  <2>1. bytes \in Seq(Nat) /\ Len(bytes) \in Nat
    BY CallAssumption, LenProperties
  <2>2. words' \in [Proc -> Words]
    BY <1>1, <1>2, <1>6, <2>1, WordsSet DEF WriteBlock, TypeOK, h
  <2>3. /\ contents' \in [File -> Seq(Nat)] /\ position' \in [File -> Nat]
        /\ answer' \in [Proc -> Answer]
    <3>1. CASE NtWrite(p, h, bytes) /\ Answers(p, "write_block", Len(bytes), << >>)
      BY <1>1, <1>3, <2>1, <3>1, NtWriteType, Answered
    <3>2. CASE NtWriteFails(p, h) /\ Answers(p, "write_block", -1, << >>)
      BY <1>3, <3>2, Answered DEF NtWriteFails, TypeOK
    <3>3. QED
      BY <1>6, <3>1, <3>2 DEF WriteBlock, h
  <2>4. /\ open' = open /\ slots' = slots /\ at' = at
        /\ at[p] = "out" /\ calls' = calls + 1
        /\ \A q \in Proc \ {p} : words'[q] = words[q]
    BY <1>6 DEF WriteBlock, Call, TypeOK
  <2>5. \A q \in Proc : at'[q] = "set" => words'[q].handle \in File
    BY <2>4, OthersSeek
  <2>6. QED
    BY <2>2, <2>3, <2>4, <2>5 DEF TypeOK
<1>7. ASSUME NEW bytes \in Data, Len(bytes) = 1, WriteByte(p, d, bytes[1]) PROVE TypeOK'
  <2>1. <<bytes[1]>> \in Seq(Nat)
    BY <1>7, CallAssumption, ElementOfSeq
  <2>2. words' \in [Proc -> Words]
    BY <1>1, <1>2, <1>7, WordsSet DEF WriteByte, TypeOK, h
  <2>3. /\ contents' \in [File -> Seq(Nat)] /\ position' \in [File -> Nat]
        /\ answer' \in [Proc -> Answer]
    <3>1. CASE NtWrite(p, h, <<bytes[1]>>) /\ Answers(p, "write_byte", 0, << >>)
      BY <1>1, <1>3, <2>1, <3>1, NtWriteType, Answered
    <3>2. CASE NtWriteFails(p, h) /\ Answers(p, "write_byte", -1, << >>)
      BY <1>3, <3>2, Answered DEF NtWriteFails, TypeOK
    <3>3. QED
      BY <1>7, <3>1, <3>2 DEF WriteByte, h
  <2>4. /\ open' = open /\ slots' = slots /\ at' = at
        /\ at[p] = "out" /\ calls' = calls + 1
        /\ \A q \in Proc \ {p} : words'[q] = words[q]
    BY <1>7 DEF WriteByte, Call, TypeOK
  <2>5. \A q \in Proc : at'[q] = "set" => words'[q].handle \in File
    BY <2>4, OthersSeek
  <2>6. QED
    BY <2>2, <2>3, <2>4, <2>5 DEF TypeOK
<1>8. QED
  BY <1>4, <1>5, <1>6, <1>7

LEMMA LseekType ==
  ASSUME TypeOK, NEW p \in Proc, NEW d \in Used, NEW offset \in Offset,
         NEW whence \in 0 .. 2, NEW base \in Int, NEW eof \in 0 .. Word - 1,
         Lseek(p, d, offset, whence, base, eof)
  PROVE  TypeOK'
<1>1. StdHandle(p, d) \in File
  BY HandleIsFile
<1>2. (base + offset) % Word \in 0 .. Word - 1
  BY CallAssumption, WordAssumption
<1>3. [handle |-> StdHandle(p, d), bufptr |-> offset, buflen |-> whence,
       filepos |-> (base + offset) % Word, stdinfo_eof |-> eof] \in Words
  BY <1>1, <1>2 DEF Words
<1>4. QED
  BY <1>1, <1>3 DEF TypeOK, Lseek, Call, files

LEMMA QueriedIs ==
  ASSUME NEW p \in Proc, NEW h \in File, NEW now \in Nat, NEW before \in 0 .. Word - 1
  PROVE  Queried(p, h, now, before) \subseteq 0 .. Word - 1
BY WordAssumption DEF Queried

LEMMA SeekType ==
  ASSUME TypeOK, NEW p \in Proc, NEW d \in Used, NEW offset \in Offset,
         SeekSet(p, d, offset) \/ SeekCur(p, d, offset) \/ SeekEnd(p, d, offset)
  PROVE  TypeOK'
<1> DEFINE h == StdHandle(p, d)
<1>1. /\ h \in File /\ position[h] \in Nat /\ Len(contents[h]) \in Nat
      /\ words[p].filepos \in 0 .. Word - 1 /\ words[p].stdinfo_eof \in 0 .. Word - 1
  BY HandleIsFile, LenProperties DEF TypeOK, Words
<1>2. 0 .. Word - 1 \subseteq Int /\ 0 \in 0 .. 2 /\ 1 \in 0 .. 2 /\ 2 \in 0 .. 2
  OBVIOUS
<1>3. CASE SeekSet(p, d, offset)
  <2>1. Lseek(p, d, offset, 0, 0, words[p].stdinfo_eof) /\ 0 \in Int
    BY <1>3 DEF SeekSet
  <2>2. QED
    BY <1>1, <1>2, <2>1, LseekType
<1>4. CASE SeekCur(p, d, offset)
  <2>1. PICK base \in Queried(p, h, position[h], words[p].filepos) :
          Lseek(p, d, offset, 1, base, words[p].stdinfo_eof)
    BY <1>4 DEF SeekCur
  <2>2. base \in 0 .. Word - 1
    BY <1>1, QueriedIs
  <2>3. QED
    BY <1>1, <1>2, <2>1, <2>2, LseekType
<1>5. CASE SeekEnd(p, d, offset)
  <2>1. PICK eof \in Queried(p, h, Len(contents[h]), words[p].stdinfo_eof) :
          Lseek(p, d, offset, 2, eof, eof)
    BY <1>5 DEF SeekEnd
  <2>2. eof \in 0 .. Word - 1
    BY <1>1, QueriedIs
  <2>3. QED
    BY <1>2, <2>1, <2>2, LseekType
<1>6. QED
  BY <1>3, <1>4, <1>5

LEMMA SetPositionType ==
  ASSUME TypeOK, NEW p \in Proc, SetPosition(p)
  PROVE  TypeOK'
<1> DEFINE to == words[p].filepos
<1>1. words[p].handle \in File /\ to \in Nat
  BY WordAssumption DEF TypeOK, SetPosition, Words
<1>2. answer' \in [Proc -> Answer]
  BY <1>1, EmptySeq, Answered DEF SetPosition
<1>3. position' \in [File -> Nat]
  BY <1>1 DEF TypeOK, SetPosition
<1>4. QED
  BY <1>2, <1>3 DEF TypeOK, SetPosition

LEMMA CloseType ==
  ASSUME TypeOK, NEW p \in Proc, NEW d \in Used,
         Close(p, d) \/ \E k \in Used \cap Standard : Dup2(p, d, k)
  PROVE  TypeOK'
<1>1. StdHandle(p, d) \in File
  BY HandleIsFile
<1>2. CASE Close(p, d)
  <2>1. open' \in [Proc -> SUBSET File]
    BY <1>2 DEF TypeOK, Close
  <2>2. QED
    BY <1>2, <2>1 DEF TypeOK, Close, Call
<1>3. ASSUME NEW k \in Used \cap Standard, Dup2(p, d, k) PROVE TypeOK'
  <2>1. slots' \in [Proc -> [Standard -> File]]
    BY <1>1, <1>3 DEF TypeOK, Dup2
  <2>2. QED
    BY <1>3, <2>1 DEF TypeOK, Dup2, Call, files
<1>4. QED
  BY <1>2, <1>3

(* The variables keep their types: every position is one a word holds or a *)
(* transfer has come to, and a process in a seek has a file in its words.  *)
THEOREM TypeCorrect == Spec => []TypeOK
<1>1. Init => TypeOK
  <2>1. NoWords \in Words
    BY WordAssumption DEF NoWords, Words, Address
  <2>2. QED
    BY <2>1, FileAssumption DEF Init, TypeOK, Answer, Standard
<1>2. TypeOK /\ [Next]_vars => TypeOK'
  <2> SUFFICES ASSUME TypeOK, [Next]_vars PROVE TypeOK'
    OBVIOUS
  <2>1. CASE UNCHANGED vars
    BY <2>1 DEF TypeOK, vars, files
  <2>2. ASSUME NEW p \in Proc, SetPosition(p) PROVE TypeOK'
    BY <2>2, SetPositionType
  <2>3. ASSUME NEW p \in Proc, NEW d \in Used, Calls(p, d) PROVE TypeOK'
    BY <2>3, TransferType, SeekType, CloseType DEF Calls
  <2>4. QED
    BY <2>1, <2>2, <2>3 DEF Next
<1>3. QED
  BY <1>1, <1>2, PTL DEF Spec

-----------------------------------------------------------------------------
(* The refinement. *)

LEMMA Seeks ==
  ASSUME TypeOK, NEW p \in Proc
  PROVE  (at[p] = "out" <=> Posix!Free(p)) /\ Seeking = [q \in Proc |-> Seeking[q]]
<1>1. at[p] = "out" => Posix!Free(p)
  BY DEF Seeking, Posix!Free, Posix!Nowhere
<1>2. ASSUME at[p] # "out" PROVE ~Posix!Free(p)
  <2>1. words[p].handle # 0
    BY <1>2, FileAssumption DEF TypeOK
  <2>2. Seeking[p].file # 0
    BY <1>2, <2>1 DEF Seeking
  <2>3. QED
    BY <2>2 DEF Posix!Free, Posix!Nowhere
<1>3. QED
  BY <1>1, <1>2 DEF Seeking

(* The words of a process in no seek say nothing of one. *)
LEMMA SeekingKept ==
  ASSUME TypeOK, NEW p \in Proc, at[p] = "out", at' = at,
         \A q \in Proc \ {p} : words'[q] = words[q]
  PROVE  Seeking' = Seeking
BY DEF Seeking, TypeOK

LEMMA AnswersIs ==
  ASSUME NEW p, NEW call, NEW value, NEW bytes, Answers(p, call, value, bytes)
  PROVE  Posix!Answers(p, call, value, bytes)
BY DEF Answers, Posix!Answers

LEMMA ReadStep ==
  ASSUME TypeOK, NEW p \in Proc, NEW h \in File, NEW n \in Count, at[p] = "out",
         NtRead(p, h, n), UNCHANGED <<contents, open>>, Seeking' = Seeking,
         \/ Posix!Answers(p, "read_block", Len(Got(h, n)), Got(h, n))
         \/ n = 1 /\ Posix!Answers(p, "read_byte", Got(h, n)[1], Got(h, n))
  PROVE  Posix!Read(p, h, n)
<1>1. /\ contents[h] \in Seq(Nat) /\ position[h] \in Nat /\ n \in Nat
      /\ Len(contents[h]) \in Nat /\ position[h] < Len(contents[h]) /\ ~AtEnd(h)
  BY CallAssumption, LenProperties DEF TypeOK, NtRead, AtEnd
<1> DEFINE left == Len(contents[h]) - position[h]
           m    == IF left < n THEN left ELSE n
<1>2. /\ Got(h, n) = [k \in 1 .. m |-> contents[h][position[h] + k]]
      /\ Len(Got(h, n)) = m
  BY <1>1, GotIs
<1>3. m = IF left < 0 THEN 0 ELSE IF left < n THEN left ELSE n
  BY <1>1
<1>4. Posix!Coming(h, n) = Got(h, n)
  BY <1>2, <1>3 DEF Posix!Coming
<1>5. n = 1 => Got(h, n) # << >>
  <2>1. n = 1 => Len(Got(h, n)) = 1
    BY <1>1, <1>2
  <2>2. QED
    BY <2>1, EmptySeq
<1>6. position' = [position EXCEPT ![h] = @ + Len(Got(h, n))] /\ h \in open[p]
  BY DEF NtRead
<1>7. Posix!Free(p)
  BY Seeks
<1>8. QED
  BY <1>4, <1>5, <1>6, <1>7 DEF Posix!Read

LEMMA ReadFailsStep ==
  ASSUME TypeOK, NEW p \in Proc, NEW h \in File, NEW n \in Count, at[p] = "out",
         NtReadFails(p, h), UNCHANGED <<contents, open>>, Seeking' = Seeking,
         \/ Posix!Answers(p, "read_block", 0, << >>)
         \/ n = 1 /\ Posix!Answers(p, "read_byte", -1, << >>)
  PROVE  Posix!Fail(p, h) \/ Posix!Read(p, h, n)
<1>1. Posix!Free(p) /\ UNCHANGED position
  BY Seeks DEF NtReadFails
<1>2. CASE MayFail(p, h)
  BY <1>1, <1>2 DEF Posix!Fail, Posix!MayFail, MayFail
<1>3. CASE ~MayFail(p, h)
  <2>1. h \in open[p] /\ AtEnd(h)
    BY <1>3 DEF NtReadFails, MayFail
  <2>2. /\ n \in Nat /\ position[h] \in Nat /\ Len(contents[h]) \in Nat
        /\ position[h] >= Len(contents[h])
    BY <2>1, CallAssumption, LenProperties DEF TypeOK, AtEnd
  <2>3. Posix!Coming(h, n) = << >>
    <3> DEFINE left == Len(contents[h]) - position[h]
               m    == IF left < 0 THEN 0 ELSE IF left < n THEN left ELSE n
    <3>1. m = 0
      BY <2>2
    <3>2. [k \in 1 .. m |-> contents[h][position[h] + k]] = << >>
      BY <3>1
    <3>3. QED
      BY <3>2 DEF Posix!Coming
  <2>4. position' = [position EXCEPT ![h] = @ + Len(<< >>)] /\ Len(<< >>) = 0
    <3>1. Len(<< >>) = 0
      BY EmptySeq
    <3>2. QED
      BY <1>1, <2>2, <3>1 DEF TypeOK
  <2>5. QED
    BY <1>1, <2>1, <2>3, <2>4 DEF Posix!Read
<1>4. QED
  BY <1>2, <1>3

LEMMA WriteStep ==
  ASSUME TypeOK, NEW p \in Proc, NEW h \in File, NEW bytes \in Data, at[p] = "out",
         NtWrite(p, h, bytes), open' = open, Seeking' = Seeking,
         \/ Posix!Answers(p, "write_block", Len(bytes), << >>)
         \/ Len(bytes) = 1 /\ Posix!Answers(p, "write_byte", 0, << >>)
  PROVE  Posix!Write(p, h, bytes)
<1>1. contents[h] \in Seq(Nat) /\ position[h] \in Nat /\ bytes \in Seq(Nat)
  BY CallAssumption DEF TypeOK
<1> DEFINE c    == contents[h]
           from == position[h]
           old  == c \o Zeros(from - Len(c))
           new  == SubSeq(old, 1, from) \o bytes
                     \o SubSeq(old, from + Len(bytes) + 1, Len(old))
<1>2. new = Overlaid(c, from, bytes)
  BY <1>1, WrittenIs
<1>3. /\ contents' = [contents EXCEPT ![h] = new] /\ h \in open[p]
      /\ position' = [position EXCEPT ![h] = from + Len(bytes)]
  BY DEF NtWrite
<1> HIDE DEF new
<1>4. contents' = [contents EXCEPT ![h] = Overlaid(c, from, bytes)]
  BY <1>2, <1>3
<1>5. Posix!Free(p)
  BY Seeks
<1>6. QED
  BY <1>3, <1>4, <1>5 DEF Posix!Write, Overlaid

LEMMA WriteFailsStep ==
  ASSUME TypeOK, NEW p \in Proc, NEW h \in File, at[p] = "out",
         NtWriteFails(p, h), open' = open, Seeking' = Seeking,
         \E call \in {"write_block", "write_byte"} : Posix!Answers(p, call, -1, << >>)
  PROVE  Posix!Fail(p, h)
<1>1. Posix!Free(p)
  BY Seeks
<1>2. QED
  BY <1>1 DEF Posix!Fail, Posix!MayFail, NtWriteFails, MayFail

LEMMA LookStep ==
  ASSUME TypeOK, NEW p \in Proc, NEW d \in Used, NEW offset \in Offset,
         NEW whence \in 0 .. 2, NEW base \in Int, NEW eof,
         Lseek(p, d, offset, whence, base, eof),
         LET h == StdHandle(p, d)
         IN  \/ base = Posix!Base(h, whence) /\ (whence = 0 \/ h \in open[p])
             \/ whence # 0 /\ MayFail(p, h)
  PROVE  \E to \in 0 .. Word - 1 :
           Posix!Look(p, StdHandle(p, d), offset, whence, to)
<1> DEFINE h  == StdHandle(p, d)
           to == (base + offset) % Word
<1>1. to \in 0 .. Word - 1
  BY CallAssumption, WordAssumption
<1>2. /\ at[p] = "out" /\ at' = [at EXCEPT ![p] = "set"]
      /\ UNCHANGED <<contents, position, open, answer>>
      /\ words' = [words EXCEPT ![p] =
            [handle |-> h, bufptr |-> offset, buflen |-> whence,
             filepos |-> to, stdinfo_eof |-> eof]]
  BY DEF Lseek, Call, files
<1> HIDE DEF to
<1>3. Seeking' = [Seeking EXCEPT ![p] =
        [file |-> h, offset |-> offset, whence |-> whence, to |-> to]]
  <2> HIDE DEF h
  <2>1. ASSUME NEW q \in Proc \ {p} PROVE at'[q] = at[q] /\ words'[q] = words[q]
    BY <1>2 DEF TypeOK
  <2>2. /\ at'[p] = "set" /\ words'[p].handle = h /\ words'[p].bufptr = offset
        /\ words'[p].buflen = whence /\ words'[p].filepos = to
    BY <1>2 DEF TypeOK
  <2>3. QED
    BY <2>1, <2>2 DEF Seeking
<1>4. Posix!Free(p)
  BY <1>2, Seeks
<1>5. CASE base = Posix!Base(h, whence) /\ (whence = 0 \/ h \in open[p])
  <2>1. Posix!Look(p, h, offset, whence, to)
    BY <1>2, <1>3, <1>4, <1>5 DEF Posix!Look, to
  <2>2. QED
    BY <1>1, <2>1
<1>6. CASE whence # 0 /\ MayFail(p, h)
  <2>1. Posix!Look(p, h, offset, whence, to)
    BY <1>2, <1>3, <1>4, <1>6 DEF Posix!Look, Posix!MayFail, MayFail
  <2>2. QED
    BY <1>1, <2>1
<1>7. QED
  BY <1>5, <1>6

LEMMA SeekStep ==
  ASSUME TypeOK, NEW p \in Proc, NEW d \in Used, NEW offset \in Offset,
         SeekSet(p, d, offset) \/ SeekCur(p, d, offset) \/ SeekEnd(p, d, offset)
  PROVE  \E whence \in 0 .. 2, to \in 0 .. Word - 1 :
           Posix!Look(p, StdHandle(p, d), offset, whence, to)
<1> DEFINE h == StdHandle(p, d)
<1>1. /\ h \in File /\ position[h] \in Nat /\ Len(contents[h]) \in Nat
      /\ words[p].filepos \in 0 .. Word - 1 /\ words[p].stdinfo_eof \in 0 .. Word - 1
  BY HandleIsFile, LenProperties DEF TypeOK, Words
<1>2. /\ 0 .. Word - 1 \subseteq Int /\ 0 \in Int
      /\ 0 \in 0 .. 2 /\ 1 \in 0 .. 2 /\ 2 \in 0 .. 2
  OBVIOUS
<1>3. /\ Posix!Base(h, 0) = 0 /\ Posix!Base(h, 1) = position[h] % Word
      /\ Posix!Base(h, 2) = Len(contents[h]) % Word
  BY DEF Posix!Base
<1>4. CASE SeekSet(p, d, offset)
  <2>1. Lseek(p, d, offset, 0, 0, words[p].stdinfo_eof)
    BY <1>4 DEF SeekSet
  <2>2. QED
    BY <1>2, <1>3, <2>1, LookStep
<1>5. CASE SeekCur(p, d, offset)
  <2>1. PICK base \in Queried(p, h, position[h], words[p].filepos) :
          Lseek(p, d, offset, 1, base, words[p].stdinfo_eof)
    BY <1>5 DEF SeekCur
  <2>2. base \in Int
    BY <1>1, <1>2, QueriedIs
  <2>3. (base = position[h] % Word /\ h \in open[p]) \/ MayFail(p, h)
    BY <2>1 DEF Queried
  <2>4. QED
    BY <1>2, <1>3, <2>1, <2>2, <2>3, LookStep
<1>6. CASE SeekEnd(p, d, offset)
  <2>1. PICK eof \in Queried(p, h, Len(contents[h]), words[p].stdinfo_eof) :
          Lseek(p, d, offset, 2, eof, eof)
    BY <1>6 DEF SeekEnd
  <2>2. eof \in Int
    BY <1>1, <1>2, QueriedIs
  <2>3. (eof = Len(contents[h]) % Word /\ h \in open[p]) \/ MayFail(p, h)
    BY <2>1 DEF Queried
  <2>4. QED
    BY <1>2, <1>3, <2>1, <2>2, <2>3, LookStep
<1>7. QED
  BY <1>4, <1>5, <1>6

LEMMA MoveStep ==
  ASSUME TypeOK, NEW p \in Proc, SetPosition(p)
  PROVE  Posix!Move(p)
<1>1. at[p] = "set" /\ ~Posix!Free(p)
  BY Seeks DEF SetPosition
<1>2. Seeking[p].file = words[p].handle /\ Seeking[p].to = words[p].filepos
  BY <1>1 DEF Seeking
<1>3. Seeking' = [Seeking EXCEPT ![p] = Posix!Nowhere]
  BY DEF SetPosition, Seeking, Posix!Nowhere, TypeOK
<1>4. /\ Posix!Answers(p, "lseek", words[p].filepos, << >>)
      /\ UNCHANGED <<contents, open>>
  BY AnswersIs DEF SetPosition
<1>5. \/ /\ words[p].handle \in open[p]
         /\ position' = [position EXCEPT ![words[p].handle] = words[p].filepos]
      \/ Posix!MayFail(p, words[p].handle) /\ UNCHANGED position
  BY DEF SetPosition, MayFail, Posix!MayFail
<1>6. QED
  BY <1>1, <1>2, <1>3, <1>4, <1>5 DEF Posix!Move

(* Every call of the program is a step of FileSpec, or the first of two. *)
LEMMA CallStep ==
  ASSUME TypeOK, NEW p \in Proc, NEW d \in Used, Calls(p, d)
  PROVE  Posix!Next \/ UNCHANGED Posix!posix
<1> DEFINE h == StdHandle(p, d)
<1>1. h \in File
  BY HandleIsFile
<1>2. CASE ReadByte(p, d)
  <2>1. Seeking' = Seeking
    BY <1>2, SeekingKept DEF ReadByte, Call, TypeOK
  <2>2. at[p] = "out" /\ UNCHANGED <<contents, open>> /\ 1 \in Count
    BY <1>2, CallAssumption DEF ReadByte, Call
  <2>3. CASE NtRead(p, h, 1) /\ Answers(p, "read_byte", Got(h, 1)[1], Got(h, 1))
    <3>1. Posix!Read(p, h, 1)
      BY <1>1, <2>1, <2>2, <2>3, AnswersIs, ReadStep
    <3>2. QED
      BY <1>1, <2>2, <3>1 DEF Posix!Next
  <2>4. CASE NtReadFails(p, h) /\ Answers(p, "read_byte", -1, << >>)
    <3>1. Posix!Fail(p, h) \/ Posix!Read(p, h, 1)
      BY <1>1, <2>1, <2>2, <2>4, AnswersIs, ReadFailsStep
    <3>2. QED
      BY <1>1, <2>2, <3>1 DEF Posix!Next
  <2>5. QED
    BY <1>2, <2>3, <2>4 DEF ReadByte
<1>3. ASSUME NEW n \in Count, ReadBlock(p, d, n) PROVE Posix!Next
  <2>1. Seeking' = Seeking
    BY <1>3, SeekingKept DEF ReadBlock, Call, TypeOK
  <2>2. at[p] = "out" /\ UNCHANGED <<contents, open>>
    BY <1>3 DEF ReadBlock, Call
  <2>3. CASE NtRead(p, h, n) /\ Answers(p, "read_block", Len(Got(h, n)), Got(h, n))
    <3>1. Posix!Read(p, h, n)
      BY <1>1, <2>1, <2>2, <2>3, AnswersIs, ReadStep
    <3>2. QED
      BY <1>1, <3>1 DEF Posix!Next
  <2>4. CASE NtReadFails(p, h) /\ Answers(p, "read_block", 0, << >>)
    <3>1. Posix!Fail(p, h) \/ Posix!Read(p, h, n)
      BY <1>1, <2>1, <2>2, <2>4, AnswersIs, ReadFailsStep
    <3>2. QED
      BY <1>1, <3>1 DEF Posix!Next
  <2>5. QED
    BY <1>3, <2>3, <2>4 DEF ReadBlock
<1>4. ASSUME NEW bytes \in Data, WriteBlock(p, d, bytes) PROVE Posix!Next
  <2>1. Seeking' = Seeking
    BY <1>4, SeekingKept DEF WriteBlock, Call, TypeOK
  <2>2. at[p] = "out" /\ open' = open
    BY <1>4 DEF WriteBlock, Call
  <2>3. CASE NtWrite(p, h, bytes) /\ Answers(p, "write_block", Len(bytes), << >>)
    <3>1. Posix!Write(p, h, bytes)
      BY <1>1, <2>1, <2>2, <2>3, AnswersIs, WriteStep
    <3>2. QED
      BY <1>1, <3>1 DEF Posix!Next
  <2>4. CASE NtWriteFails(p, h) /\ Answers(p, "write_block", -1, << >>)
    <3>1. Posix!Fail(p, h)
      BY <1>1, <2>1, <2>2, <2>4, AnswersIs, WriteFailsStep
    <3>2. QED
      BY <1>1, <3>1 DEF Posix!Next
  <2>5. QED
    BY <1>4, <2>3, <2>4 DEF WriteBlock
<1>5. ASSUME NEW bytes \in Data, Len(bytes) = 1, WriteByte(p, d, bytes[1]) PROVE Posix!Next
  <2>1. Seeking' = Seeking
    BY <1>5, SeekingKept DEF WriteByte, Call, TypeOK
  <2>2. at[p] = "out" /\ open' = open
    BY <1>5 DEF WriteByte, Call
  <2>3. <<bytes[1]>> = bytes
    BY <1>5, CallAssumption, LenProperties
  <2>4. CASE NtWrite(p, h, <<bytes[1]>>) /\ Answers(p, "write_byte", 0, << >>)
    <3>1. NtWrite(p, h, bytes)
      BY <2>3, <2>4
    <3>2. Posix!Write(p, h, bytes)
      BY <1>1, <1>5, <2>1, <2>2, <2>4, <3>1, AnswersIs, WriteStep
    <3>3. QED
      BY <1>1, <3>2 DEF Posix!Next
  <2>5. CASE NtWriteFails(p, h) /\ Answers(p, "write_byte", -1, << >>)
    <3>1. Posix!Fail(p, h)
      BY <1>1, <2>1, <2>2, <2>5, AnswersIs, WriteFailsStep
    <3>2. QED
      BY <1>1, <3>1 DEF Posix!Next
  <2>6. QED
    BY <1>5, <2>4, <2>5 DEF WriteByte
<1>6. ASSUME NEW offset \in Offset,
             SeekSet(p, d, offset) \/ SeekCur(p, d, offset) \/ SeekEnd(p, d, offset)
      PROVE  Posix!Next
  BY <1>1, <1>6, SeekStep DEF Posix!Next
<1>7. CASE Close(p, d)
  <2>1. Seeking' = Seeking
    BY <1>7 DEF Close, Seeking
  <2>2. Posix!Close(p, h)
    BY <1>7, <2>1, Seeks DEF Close, Call, Posix!Close
  <2>3. QED
    BY <1>1, <2>2 DEF Posix!Next
<1>8. ASSUME NEW k \in Used \cap Standard, Dup2(p, d, k) PROVE UNCHANGED Posix!posix
  BY <1>8 DEF Dup2, Seeking, files, Posix!posix
<1>9. QED
  BY <1>2, <1>3, <1>4, <1>5, <1>6, <1>7, <1>8 DEF Calls

(* libc's calls, whatever else has the file and whichever of them fail, are *)
(* FileSpec's: transfers that are one step, seeks that are two.             *)
THEOREM CallsImplementFileSpec == Spec => ImplementsFile
<1>1. Init => Posix!Init
  BY DEF Init, Posix!Init, Posix!Nowhere, Seeking
<1>2. TypeOK /\ [Next]_vars => [Posix!Next]_(Posix!posix)
  <2> SUFFICES ASSUME TypeOK, [Next]_vars PROVE Posix!Next \/ UNCHANGED Posix!posix
    OBVIOUS
  <2>1. CASE UNCHANGED vars
    BY <2>1 DEF vars, files, Seeking, Posix!posix
  <2>2. ASSUME NEW p \in Proc, SetPosition(p) PROVE Posix!Next
    BY <2>2, MoveStep DEF Posix!Next
  <2>3. ASSUME NEW p \in Proc, NEW d \in Used, Calls(p, d)
        PROVE  Posix!Next \/ UNCHANGED Posix!posix
    BY <2>3, CallStep
  <2>4. QED
    BY <2>1, <2>2, <2>3 DEF Next
<1>3. QED
  BY <1>1, <1>2, TypeCorrect, PTL DEF Spec, ImplementsFile, Posix!Spec
=============================================================================
