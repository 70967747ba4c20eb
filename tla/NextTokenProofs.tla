--------------------------- MODULE NextTokenProofs ---------------------------
(***************************************************************************)
(* next_token cuts in place and never into what it has not read, for any   *)
(* command line and in all three of its versions.                          *)
(*                                                                         *)
(* The reason is one inequality: while an argument is being compacted the  *)
(* write cursor is at or behind the read cursor, because every character   *)
(* written answers one read.                                               *)
(*                                                                         *)
(* And the version with escapes splits by CommandLineToArgvW's rule.  The  *)
(* rule speaks of sets of positions; the code of where its cursors are.    *)
(* Counting relates them: the write cursor stands as far behind the        *)
(* beginning of the argument as characters of it survive up to the read    *)
(* cursor, each at its count (Compact), and argv holds each beginning at   *)
(* its count (Recorded).                                                   *)
(*                                                                         *)
(* The versions without escapes cut their arguments out of the line as it  *)
(* is.  Where quotes stand only around whole arguments the two ways agree: *)
(* a scan meets no quote, and a quoted scan ends where the rule does.      *)
(*                                                                         *)
(* At the end the rule is met by __spawn's joining.  Each character of an  *)
(* argument has its place in the line (Layout, Shown); of what spells it   *)
(* only the last survives and only the quotes around the argument delimit, *)
(* because a run of backslashes is doubled exactly where a quote follows   *)
(* it in the line (BeforeDoubled); so the rule reads the argument back.    *)
(***************************************************************************)
EXTENDS CommandLine, FiniteSetTheorems, WellFoundedInduction, TLAPS

(* The write cursor trails, and a quoted scan has no write cursor.         *)
Trails ==
  /\ pc = "scan" /\ version.escapes => edx <= esi
  /\ pc = "qscan" => ~version.escapes

IInv == TypeOK /\ UnreadIntact /\ Trails

-----------------------------------------------------------------------------
(* The terminator is the only NUL ahead. *)

LEMMA NulIsNoChar == NUL \notin Char
BY PlainAssumption DEF Char, NUL

LEMMA TapeIs ==
  ASSUME line \in Seq(Char)
  PROVE  /\ Len(line) \in Nat
         /\ \A k \in 1 .. Len(line) : Tape[k] = line[k] /\ line[k] \in Char
         /\ Tape[Len(line) + 1] = NUL
         /\ Tape \in [1 .. Len(line) + 1 -> Char \cup {NUL}]
<1>1. Len(line) \in Nat /\ \A k \in 1 .. Len(line) : line[k] \in Char
  OBVIOUS
<1>2. /\ \A k \in 1 .. Len(line) : Tape[k] = line[k]
      /\ Tape[Len(line) + 1] = NUL
  BY <1>1 DEF Tape
<1>3. Tape \in [1 .. Len(line) + 1 -> Char \cup {NUL}]
  <2>1. Tape \in Seq(Char \cup {NUL}) /\ Len(Tape) = Len(line) + 1
    BY DEF Tape
  <2>2. QED
    BY <2>1, <1>1
<1>4. QED
  BY <1>1, <1>2, <1>3

LEMMA Ahead ==
  ASSUME TypeOK, UnreadIntact
  PROVE  /\ esi \in Nat /\ Len(line) \in Nat
         /\ \A k \in esi .. Len(line) : mem[k] \in Char
         /\ mem[Len(line) + 1] = NUL
         /\ mem[esi] # NUL => esi + 1 <= Len(line) + 1
<1>1. esi \in 1 .. Len(line) + 1 /\ line \in Seq(Char)
  BY DEF TypeOK
<1>2. Len(line) \in Nat /\ esi \in Nat /\ esi >= 1 /\ esi <= Len(line) + 1
  BY <1>1
<1>3. \A k \in esi .. Len(line) : mem[k] \in Char
  <2>1. SUFFICES ASSUME NEW k \in esi .. Len(line) PROVE mem[k] \in Char
    OBVIOUS
  <2>2. k \in 1 .. Len(line) /\ k \in esi .. Len(line) + 1
    BY <1>2
  <2>3. QED
    BY <1>1, <2>2, TapeIs DEF UnreadIntact
<1>4. mem[Len(line) + 1] = NUL
  <2>1. Len(line) + 1 \in esi .. Len(line) + 1
    BY <1>2
  <2>2. QED
    BY <1>1, <2>1, TapeIs DEF UnreadIntact
<1>5. mem[esi] # NUL => esi + 1 <= Len(line) + 1
  BY <1>2, <1>4
<1>6. QED
  BY <1>2, <1>3, <1>4, <1>5

(* A run of backslashes ends before the terminator does. *)
LEMMA RunEnds ==
  ASSUME TypeOK, UnreadIntact
  PROVE  /\ RunAt(esi) \in Nat
         /\ esi + RunAt(esi) <= Len(line) + 1
         /\ \A j \in esi .. esi + RunAt(esi) - 1 : mem[j] = "slash"
         /\ mem[esi + RunAt(esi)] # "slash"
         /\ mem[esi + RunAt(esi)] = "quote" => esi + RunAt(esi) + 1 <= Len(line) + 1
<1>1. /\ esi \in Nat /\ Len(line) \in Nat /\ mem[Len(line) + 1] = NUL
      /\ esi >= 1 /\ esi <= Len(line) + 1
  BY Ahead DEF TypeOK
<1> DEFINE room == Len(line) + 1 - esi
           E == {n \in 0 .. room : mem[esi + n] # "slash"}
<1>2. room \in Nat /\ esi + room = Len(line) + 1
  BY <1>1
<1>3. E \subseteq Nat /\ E # {}
  <2>1. room \in 0 .. room /\ mem[esi + room] # "slash"
    BY <1>1, <1>2 DEF NUL
  <2>2. QED
    BY <1>2, <2>1
<1>4. \E n \in E : \A j \in E : ~(<<j, n>> \in OpToRel(<, Nat))
  BY <1>3, NatLessThanWellFounded, WFMin
<1>5. \A j, k \in Nat : <<j, k>> \in OpToRel(<, Nat) <=> j < k
  BY DEF OpToRel
<1>6. PICK m \in E : \A j \in E : ~(<<j, m>> \in OpToRel(<, Nat))
  BY <1>4
<1>7. m \in 0 .. room /\ m \in Nat /\ mem[esi + m] # "slash"
  <2>1. m \in 0 .. room /\ mem[esi + m] # "slash"
    OBVIOUS
  <2>2. QED
    BY <1>2, <2>1
<1>8. \A j \in esi .. esi + m - 1 : mem[j] = "slash"
  <2>1. SUFFICES ASSUME NEW j \in esi .. esi + m - 1, mem[j] # "slash"
                 PROVE  FALSE
    OBVIOUS
  <2>2. j - esi \in 0 .. room /\ j - esi < m /\ j - esi \in Nat /\ esi + (j - esi) = j
    BY <1>1, <1>2, <1>7
  <2>3. j - esi \in E
    BY <2>1, <2>2
  <2>4. <<j - esi, m>> \in OpToRel(<, Nat)
    BY <1>5, <1>7, <2>2
  <2>5. QED
    BY <1>6, <2>3, <2>4
<1>9. \E n \in 0 .. Len(line) + 1 - esi :
        (\A j \in esi .. esi + n - 1 : mem[j] = "slash") /\ mem[esi + n] # "slash"
  BY <1>7, <1>8
<1>10. /\ RunAt(esi) \in 0 .. Len(line) + 1 - esi
       /\ \A j \in esi .. esi + RunAt(esi) - 1 : mem[j] = "slash"
       /\ mem[esi + RunAt(esi)] # "slash"
  BY <1>9 DEF RunAt
<1>11. RunAt(esi) \in Nat /\ esi + RunAt(esi) <= Len(line) + 1
  BY <1>1, <1>10
<1>12. esi + RunAt(esi) = Len(line) + 1 => mem[esi + RunAt(esi)] = NUL
  BY <1>1
<1>13. QED
  BY <1>1, <1>10, <1>11, <1>12 DEF NUL

-----------------------------------------------------------------------------
(* Writing behind the read cursor: n characters read, at most n written.   *)

LEMMA EmitBehind ==
  ASSUME TypeOK, UnreadIntact, edx <= esi, UNCHANGED line,
         NEW text \in Seq(Char), Emit(text),
         NEW n \in Nat, Len(text) <= n, esi' = esi + n, esi + n <= Len(line) + 1
  PROVE  /\ mem' \in [1 .. Len(line) + 1 -> Char \cup {NUL}]
         /\ esi' \in 1 .. Len(line) + 1
         /\ edx' \in 1 .. Len(line) + 1 /\ edx' <= esi'
         /\ UnreadIntact'
<1>1. /\ esi \in Nat /\ edx \in Nat /\ Len(line) \in Nat /\ Len(text) \in Nat
      /\ esi >= 1 /\ edx >= 1 /\ esi <= Len(line) + 1
  BY DEF TypeOK
<1>2. mem \in [1 .. Len(line) + 1 -> Char \cup {NUL}] /\ line' = line
  BY DEF TypeOK
<1>3. mem' = [k \in 1 .. Len(line) + 1 |->
                IF k - edx + 1 \in 1 .. Len(text) THEN text[k - edx + 1] ELSE mem[k]]
  BY <1>2 DEF Emit
<1>4. \A j \in 1 .. Len(text) : text[j] \in Char
  OBVIOUS
<1>5. mem' \in [1 .. Len(line) + 1 -> Char \cup {NUL}]
  BY <1>2, <1>3, <1>4
<1>6. edx' = edx + Len(text)
  BY DEF Emit
<1>7. esi' \in 1 .. Len(line) + 1 /\ edx' \in 1 .. Len(line) + 1 /\ edx' <= esi'
  BY <1>1, <1>6
<1>8. ASSUME NEW k \in esi' .. Len(line) + 1 PROVE mem'[k] = Tape'[k]
  <2>1. k \in 1 .. Len(line) + 1 /\ k \in esi .. Len(line) + 1 /\ k \in Nat
    BY <1>1, <1>7
  <2>2. k - edx + 1 \notin 1 .. Len(text)
    BY <1>1, <1>6, <1>7, <2>1
  <2>3. mem'[k] = mem[k]
    BY <1>3, <2>1, <2>2
  <2>4. mem[k] = Tape[k]
    BY <2>1 DEF UnreadIntact
  <2>5. QED
    BY <1>2, <2>3, <2>4 DEF Tape
<1>9. UnreadIntact'
  BY <1>2, <1>8 DEF UnreadIntact
<1>10. QED
  BY <1>5, <1>7, <1>9

(* What a run of backslashes becomes is no longer than the run.            *)
LEMMA SlashesType ==
  ASSUME NEW n \in Nat
  PROVE  /\ Slashes(n) \in Seq(Char) /\ Len(Slashes(n)) = n
         /\ n \div 2 \in Nat /\ n \div 2 <= n
         /\ n % 2 = 1 => n \div 2 + 1 <= n
<1>1. Slashes(n) \in Seq(Char) /\ Len(Slashes(n)) = n
  BY DEF Slashes, Char
<1>2. /\ n \div 2 \in Nat /\ n \div 2 <= n
      /\ n % 2 = 1 => n \div 2 + 1 <= n
  OBVIOUS
<1>3. QED
  BY <1>1, <1>2

(* One character made a terminator, at or before the last one read.        *)
LEMMA CutBehind ==
  ASSUME TypeOK, UnreadIntact, UNCHANGED line,
         NEW k \in 1 .. Len(line) + 1, mem' = [mem EXCEPT ![k] = NUL],
         esi' \in 1 .. Len(line) + 1, esi' >= esi, k < esi' \/ mem[k] = NUL
  PROVE  mem' \in [1 .. Len(line) + 1 -> Char \cup {NUL}] /\ UnreadIntact'
<1>1. esi \in Nat /\ esi' \in Nat /\ Len(line) \in Nat /\ line' = line /\ k \in Nat
  BY DEF TypeOK
<1>2. mem \in [1 .. Len(line) + 1 -> Char \cup {NUL}]
  BY DEF TypeOK
<1>3. mem' \in [1 .. Len(line) + 1 -> Char \cup {NUL}]
  BY <1>2
<1>4. ASSUME NEW j \in esi' .. Len(line) + 1 PROVE mem'[j] = Tape'[j]
  <2>1. j \in 1 .. Len(line) + 1 /\ j \in esi .. Len(line) + 1
    BY <1>1
  <2>2. mem'[j] = mem[j]
    BY <1>1, <1>2, <2>1
  <2>3. mem[j] = Tape[j]
    BY <2>1 DEF UnreadIntact
  <2>4. QED
    BY <1>1, <2>2, <2>3 DEF Tape
<1>5. QED
  BY <1>1, <1>3, <1>4 DEF UnreadIntact

-----------------------------------------------------------------------------
(* The invariant. *)

LEMMA InitIInv == Init => IInv
<1> SUFFICES ASSUME Init PROVE IInv
  OBVIOUS
<1>1. line \in Seq(Char) /\ Len(line) \in Nat
  BY LineAssumption DEF Init
<1>2. mem \in [1 .. Len(line) + 1 -> Char \cup {NUL}] /\ UnreadIntact
  BY <1>1, TapeIs DEF Init, UnreadIntact
<1>3. 1 \in 1 .. Len(line) + 1 /\ << >> \in Seq(1 .. Len(line) + 1)
  BY <1>1
<1>4. TypeOK
  BY <1>1, <1>2, <1>3 DEF Init, TypeOK
<1>5. Trails
  BY DEF Init, Trails
<1>6. QED
  BY <1>2, <1>4, <1>5 DEF IInv

LEMMA NextIInv == IInv /\ [Next]_vars => IInv'
<1> SUFFICES ASSUME IInv, [Next]_vars PROVE IInv'
  OBVIOUS
<1>1. /\ TypeOK /\ UnreadIntact /\ Trails
      /\ esi \in 1 .. Len(line) + 1 /\ edx \in 1 .. Len(line) + 1
      /\ argv \in Seq(1 .. Len(line) + 1)
      /\ mem \in [1 .. Len(line) + 1 -> Char \cup {NUL}]
  BY DEF IInv, TypeOK
<1>2. /\ esi \in Nat /\ edx \in Nat /\ Len(line) \in Nat
      /\ mem[esi] # NUL => esi + 1 <= Len(line) + 1 /\ esi + 1 \in 1 .. Len(line) + 1
  BY <1>1, Ahead
<1>3. \A k \in 1 .. Len(line) + 1 : Append(argv, k) \in Seq(1 .. Len(line) + 1)
  BY <1>1
<1>4. ASSUME UNCHANGED <<line, mem>>, esi' = esi \/ esi' = esi + 1
      PROVE  UnreadIntact'
  <2>1. \A k \in esi' .. Len(line) + 1 : k \in esi .. Len(line) + 1
    BY <1>2, <1>4
  <2>2. QED
    BY <1>1, <1>4, <2>1 DEF UnreadIntact, Tape
<1>5. CASE Skip
  <2>1. mem[esi] # NUL
    BY <1>5 DEF Skip, Separator, NUL
  <2>2. UnreadIntact'
    BY <1>4, <1>5 DEF Skip, SkipTo, given
  <2>3. QED
    BY <1>1, <1>2, <1>5, <2>1, <2>2
       DEF Skip, SkipTo, given, IInv, TypeOK, Trails
<1>6. CASE NoToken
  <2>1. UnreadIntact'
    BY <1>4, <1>6 DEF NoToken, given
  <2>2. QED
    BY <1>1, <1>6, <2>1 DEF NoToken, given, IInv, TypeOK, Trails
<1>7. CASE StartQuoted
  <2>1. mem[esi] # NUL
    BY <1>7 DEF StartQuoted, NUL
  <2>2. UnreadIntact'
    BY <1>4, <1>7 DEF StartQuoted, given
  <2>3. argv' \in Seq(1 .. Len(line) + 1)
    BY <1>2, <1>3, <1>7, <2>1 DEF StartQuoted
  <2>4. QED
    BY <1>1, <1>2, <1>7, <2>1, <2>2, <2>3
       DEF StartQuoted, given, IInv, TypeOK, Trails
<1>8. CASE StartToken
  <2>1. UnreadIntact'
    BY <1>4, <1>8 DEF StartToken, given
  <2>2. argv' \in Seq(1 .. Len(line) + 1)
    BY <1>1, <1>3, <1>8 DEF StartToken
  <2>3. QED
    <3>1. TypeOK'
      BY <1>1, <1>8, <2>2 DEF StartToken, given, TypeOK
    <3>2. Trails'
      BY <1>2, <1>8 DEF StartToken, Trails
    <3>3. QED
      BY <2>1, <3>1, <3>2 DEF IInv
<1>9. CASE Scan
  <2>1. UnreadIntact'
    BY <1>4, <1>9 DEF Scan, given
  <2>2. QED
    BY <1>1, <1>2, <1>9, <2>1 DEF Scan, given, IInv, TypeOK, Trails
<1>10. CASE Cut
  <2>1. mem[esi] # NUL
    BY <1>10 DEF Cut, Ends, Separator, NUL
  <2>2. esi' = esi + 1 /\ esi' \in 1 .. Len(line) + 1
    BY <1>2, <1>10, <2>1 DEF Cut, CutTo
  <2>3. mem' \in [1 .. Len(line) + 1 -> Char \cup {NUL}] /\ UnreadIntact'
    <3>1. mem' = [mem EXCEPT ![esi] = NUL] /\ UNCHANGED line
      BY <1>10 DEF Cut, CutAt, given
    <3>2. esi' >= esi /\ esi < esi'
      BY <1>2, <2>2
    <3>3. QED
      BY <1>1, <2>2, <3>1, <3>2, CutBehind
  <2>4. QED
    BY <1>1, <1>10, <2>2, <2>3 DEF Cut, given, IInv, TypeOK, Trails
<1>11. CASE LastToken
  <2>1. UnreadIntact'
    BY <1>4, <1>11 DEF LastToken, given
  <2>2. QED
    BY <1>1, <1>11, <2>1 DEF LastToken, given, IInv, TypeOK, Trails
<1>12. CASE Keep
  <2>1. edx <= esi /\ mem[esi] \in Char
    BY <1>1, <1>12 DEF Keep, Escaping, Trails
  <2>2. mem[esi] # NUL /\ <<mem[esi]>> \in Seq(Char) /\ Len(<<mem[esi]>>) = 1
    BY <2>1, NulIsNoChar
  <2>3. /\ mem' \in [1 .. Len(line) + 1 -> Char \cup {NUL}]
        /\ esi' \in 1 .. Len(line) + 1
        /\ edx' \in 1 .. Len(line) + 1 /\ edx' <= esi'
        /\ UnreadIntact'
    <3>1. esi' = esi + 1 /\ Emit(<<mem[esi]>>) /\ UNCHANGED line
      BY <1>12 DEF Keep, given
    <3>2. QED
      <4>1. 1 \in Nat /\ Len(<<mem[esi]>>) <= 1 /\ esi + 1 <= Len(line) + 1
        BY <1>2, <2>2
      <4>2. QED
        BY <1>1, <2>1, <2>2, <3>1, <4>1, EmitBehind
  <2>4. QED
    BY <1>1, <1>12, <2>3 DEF Keep, Escaping, given, IInv, TypeOK, Trails
<1>13. CASE Quote
  <2>1. mem[esi] # NUL /\ edx <= esi
    BY <1>1, <1>13 DEF Quote, Escaping, Trails, NUL
  <2>2. UnreadIntact'
    BY <1>4, <1>13 DEF Quote, given
  <2>3. QED
    BY <1>1, <1>2, <1>13, <2>1, <2>2
       DEF Quote, Escaping, given, IInv, TypeOK, Trails
<1>14. CASE Backslashes
  <2> DEFINE n == RunAt(esi)
             h == n \div 2
  <2>1. /\ n \in Nat /\ esi + n <= Len(line) + 1
        /\ mem[esi + n] = "quote" => esi + n + 1 <= Len(line) + 1
    BY <1>1, RunEnds
  <2>2. /\ Slashes(n) \in Seq(Char) /\ Len(Slashes(n)) = n
        /\ h \in Nat /\ h <= n /\ (n % 2 = 1 => h + 1 <= n)
    BY <2>1, SlashesType
  <2>3. Slashes(h) \in Seq(Char) /\ Len(Slashes(h)) = h
    BY <2>2, SlashesType
  <2>4. /\ Append(Slashes(h), "quote") \in Seq(Char)
        /\ Len(Append(Slashes(h), "quote")) = h + 1
    BY <2>3 DEF Char
  <2>5. edx <= esi /\ UNCHANGED line
    BY <1>1, <1>14 DEF Backslashes, Escaping, Trails, given
  <2>6. \/ Emit(Slashes(n)) /\ esi' = esi + n
        \/ Emit(Slashes(h)) /\ esi' = esi + n
        \/ /\ mem[esi + n] = "quote"
           /\ Emit(Append(Slashes(h), "quote")) /\ esi' = esi + n + 1
    BY <1>14 DEF Backslashes, Survive
  <2> HIDE DEF n, h
  <2>7. /\ mem' \in [1 .. Len(line) + 1 -> Char \cup {NUL}]
        /\ esi' \in 1 .. Len(line) + 1
        /\ edx' \in 1 .. Len(line) + 1 /\ edx' <= esi'
        /\ UnreadIntact'
    <3>1. CASE Emit(Slashes(n)) /\ esi' = esi + n
      BY <1>1, <2>1, <2>2, <2>5, <3>1, EmitBehind
    <3>2. CASE Emit(Slashes(h)) /\ esi' = esi + n
      BY <1>1, <2>1, <2>2, <2>3, <2>5, <3>2, EmitBehind
    <3>3. CASE /\ mem[esi + n] = "quote"
               /\ Emit(Append(Slashes(h), "quote")) /\ esi' = esi + n + 1
      <4>1. n + 1 \in Nat /\ h + 1 <= n + 1 /\ esi' = esi + (n + 1)
            /\ esi + (n + 1) <= Len(line) + 1
        BY <1>2, <2>1, <2>2, <3>3
      <4>2. QED
        BY <1>1, <2>4, <2>5, <3>3, <4>1, EmitBehind
    <3>4. QED
      BY <2>6, <3>1, <3>2, <3>3
  <2>8. QED
    BY <1>1, <1>14, <2>7 DEF Backslashes, Escaping, given, IInv, TypeOK, Trails
<1>15. CASE Finish
  <2>1. edx <= esi /\ UNCHANGED line /\ mem' = [mem EXCEPT ![edx] = NUL]
    BY <1>1, <1>15 DEF Finish, Escaping, Trails, given
  <2>2. \/ mem[esi] = NUL /\ esi' = esi
        \/ mem[esi] # NUL /\ esi' = esi + 1
    BY <1>15 DEF Finish, PastCut
  <2>3. esi' \in 1 .. Len(line) + 1 /\ esi' >= esi
    BY <1>1, <1>2, <2>2
  <2>4. edx < esi' \/ mem[edx] = NUL
    BY <1>2, <2>1, <2>2
  <2>5. mem' \in [1 .. Len(line) + 1 -> Char \cup {NUL}] /\ UnreadIntact'
    BY <1>1, <2>1, <2>3, <2>4, CutBehind
  <2>6. QED
    BY <1>1, <1>15, <2>3, <2>5 DEF Finish, Escaping, given, IInv, TypeOK, Trails
<1>16. CASE UNCHANGED vars
  BY <1>1, <1>16 DEF vars, given, IInv, TypeOK, UnreadIntact, Tape, Trails
<1>17. QED
  BY <1>5, <1>6, <1>7, <1>8, <1>9, <1>10, <1>11, <1>12, <1>13, <1>14, <1>15, <1>16
     DEF Next

LEMMA Invariance == Spec => []IInv
<1>1. IInv /\ [Next]_vars => IInv'
  BY NextIInv
<1>2. QED
  BY InitIInv, <1>1, PTL DEF Spec

(* Both cursors stay on the command line, in all three versions: no line   *)
(* of Windows's makes next_token read or write past its terminator.        *)
THEOREM CursorsOnTheLine == Spec => []TypeOK
<1>1. IInv => TypeOK
  BY DEF IInv
<1>2. QED
  BY Invariance, <1>1, PTL

(* What has not been read is what Windows gave, whatever was written.      *)
THEOREM NeverCutsAhead == Spec => []UnreadIntact
<1>1. IInv => UnreadIntact
  BY DEF IInv
<1>2. QED
  BY Invariance, <1>1, PTL

-----------------------------------------------------------------------------
(* Counting along a line. *)

(* How many of S are at or before k. *)
Count(S, k) == Cardinality({j \in S : j <= k})

(* A set of numbers that has one has a least. *)
LEMMA LeastOf ==
  ASSUME NEW S \in SUBSET Nat, S # {}
  PROVE  \E k \in S : \A j \in S : k <= j
<1>1. \E k \in S : \A j \in S : ~(<<j, k>> \in OpToRel(<, Nat))
  BY NatLessThanWellFounded, WFMin
<1>2. \A j, k \in Nat : <<j, k>> \in OpToRel(<, Nat) <=> j < k
  BY DEF OpToRel
<1>3. PICK k \in S : \A j \in S : ~(<<j, k>> \in OpToRel(<, Nat))
  BY <1>1
<1>4. ASSUME NEW j \in S PROVE k <= j
  <2>1. ~(j < k)
    BY <1>2, <1>3
  <2>2. QED
    BY <2>1
<1>5. QED
  BY <1>4

(* A set that holds 0 and, with a number, the next holds them all. *)
LEMMA Climb ==
  ASSUME NEW n \in Nat, NEW S, 0 \in S,
         \A i \in 1 .. n : i - 1 \in S => i \in S
  PROVE  0 .. n \subseteq S
<1> DEFINE Bad == {k \in 0 .. n : k \notin S}
<1>1. SUFFICES ASSUME Bad # {} PROVE FALSE
  OBVIOUS
<1>2. Bad \in SUBSET Nat
  OBVIOUS
<1>3. PICK k \in Bad : \A j \in Bad : k <= j
  <2> HIDE DEF Bad
  <2>1. QED
    BY <1>1, <1>2, LeastOf
<1>4. k \in 1 .. n /\ k - 1 \in 0 .. n /\ ~(k <= k - 1)
  OBVIOUS
<1>5. k - 1 \in S
  BY <1>3, <1>4
<1>6. QED
  BY <1>4, <1>5

LEMMA Positions ==
  ASSUME NEW m \in Nat, NEW S \in SUBSET (1 .. m)
  PROVE  S \subseteq Int /\ IsFiniteSet(S) /\ \A j \in S : j >= 1 /\ j <= m
<1>1. \A j \in S : j \in 1 .. m
  OBVIOUS
<1>2. IsFiniteSet(1 .. m)
  BY FS_Interval
<1>3. IsFiniteSet(S)
  BY <1>2, FS_Subset
<1>4. QED
  BY <1>1, <1>3

LEMMA CountType ==
  ASSUME NEW S, IsFiniteSet(S), NEW k
  PROVE  /\ IsFiniteSet({j \in S : j <= k})
         /\ Count(S, k) \in Nat
<1>1. {j \in S : j <= k} \in SUBSET S
  OBVIOUS
<1>2. IsFiniteSet({j \in S : j <= k})
  BY <1>1, FS_Subset
<1>3. QED
  BY <1>2, FS_CardinalityType DEF Count

LEMMA CountNext ==
  ASSUME NEW S, S \subseteq Int, IsFiniteSet(S), NEW k \in Int
  PROVE  Count(S, k) = IF k \in S THEN Count(S, k - 1) + 1 ELSE Count(S, k - 1)
<1> DEFINE A == {j \in S : j <= k}
           B == {j \in S : j <= k - 1}
<1>1. IsFiniteSet(B)
  BY CountType
<1>2. \A j \in S : j \in Int
  OBVIOUS
<1>3. \A j \in S : j <= k <=> j <= k - 1 \/ j = k
  BY <1>2
<1>4. ~(k <= k - 1)
  OBVIOUS
<1>5. CASE k \in S
  <2>1. A = B \cup {k} /\ k \notin B
    BY <1>3, <1>4, <1>5
  <2> HIDE DEF A, B
  <2>2. Cardinality(A) = Cardinality(B) + 1
    BY <1>1, <2>1, FS_AddElement
  <2>3. QED
    BY <1>5, <2>2 DEF Count, A, B
<1>6. CASE k \notin S
  <2>1. A = B
    BY <1>3, <1>6
  <2>2. QED
    BY <1>6, <2>1 DEF Count
<1>7. QED
  BY <1>5, <1>6

LEMMA CountZero ==
  ASSUME NEW S, NEW k, \A j \in S : ~(j <= k)
  PROVE  Count(S, k) = 0
<1>1. {j \in S : j <= k} = {}
  OBVIOUS
<1>2. QED
  BY <1>1, FS_EmptySet DEF Count

(* Two sets alike up to a position are counted alike up to it. *)
LEMMA CountSame ==
  ASSUME NEW S, NEW T, NEW k, NEW l,
         \A j : (j \in S /\ j <= k) <=> (j \in T /\ j <= l)
  PROVE  Count(S, k) = Count(T, l)
<1>1. {j \in S : j <= k} = {j \in T : j <= l}
  OBVIOUS
<1>2. QED
  BY <1>1 DEF Count

(* Nothing to count between two positions. *)
LEMMA CountFlat ==
  ASSUME NEW S, S \subseteq Int, NEW k \in Int, NEW l \in Int,
         k <= l, \A j \in k + 1 .. l : j \notin S
  PROVE  Count(S, l) = Count(S, k)
<1>1. \A j \in S : j \in Int
  OBVIOUS
<1>2. \A j \in S : j <= l => j <= k
  <2>1. ASSUME NEW j \in S, j <= l, ~(j <= k) PROVE FALSE
    <3>1. j \in k + 1 .. l
      BY <1>1, <2>1
    <3>2. QED
      BY <3>1
  <2>2. QED
    BY <2>1
<1>3. \A j \in S : j <= k => j <= l
  BY <1>1
<1>4. \A j : (j \in S /\ j <= l) <=> (j \in S /\ j <= k)
  BY <1>2, <1>3
<1>5. QED
  BY <1>4, CountSame

LEMMA CountUp ==
  ASSUME NEW S, S \subseteq Int, IsFiniteSet(S), NEW k \in Int, NEW l \in Int,
         k <= l
  PROVE  Count(S, k) <= Count(S, l)
<1>1. \A j \in S : j <= k => j <= l
  OBVIOUS
<1>2. {j \in S : j <= k} \in SUBSET {j \in S : j <= l}
  BY <1>1
<1>3. IsFiniteSet({j \in S : j <= l})
  BY CountType
<1>4. QED
  BY <1>2, <1>3, FS_Subset DEF Count

(* Every number up to the count is the count at a member. *)
LEMMA CountHit ==
  ASSUME NEW m \in Nat, NEW S \in SUBSET (1 .. m), NEW n \in 1 .. Cardinality(S)
  PROVE  \E i \in S : Count(S, i) = n
<1> DEFINE Enough == {k \in 0 .. m : Count(S, k) >= n}
<1>0. S \subseteq Int /\ IsFiniteSet(S) /\ \A j \in S : j >= 1 /\ j <= m
  BY Positions
<1>1. Count(S, m) = Cardinality(S)
  <2>1. {j \in S : j <= m} = S
    BY <1>0
  <2>2. QED
    BY <2>1 DEF Count
<1>2. Cardinality(S) \in Nat
  BY <1>0, FS_CardinalityType
<1>3. m \in Enough /\ Enough \in SUBSET Nat
  BY <1>1, <1>2
<1>4. PICK k \in Enough : \A j \in Enough : k <= j
  <2> HIDE DEF Enough
  <2>1. QED
    BY <1>3, LeastOf
<1>5. k \in 0 .. m /\ Count(S, k) >= n /\ n \in Nat /\ n >= 1
  BY <1>2, <1>4
<1>6. k # 0
  <2>1. \A j \in S : ~(j <= 0)
    BY <1>0
  <2>2. Count(S, 0) = 0
    BY <2>1, CountZero
  <2>3. QED
    BY <1>5, <2>2
<1>7. k - 1 \in 0 .. m /\ ~(k <= k - 1) /\ k \in Int
  BY <1>5, <1>6
<1>8. ~(Count(S, k - 1) >= n)
  BY <1>4, <1>7
<1> HIDE DEF Enough
<1>9. /\ Count(S, k) \in Nat /\ Count(S, k - 1) \in Nat
      /\ Count(S, k) = IF k \in S THEN Count(S, k - 1) + 1 ELSE Count(S, k - 1)
  BY <1>0, <1>7, CountType, CountNext
<1>10. k \in S /\ Count(S, k) = n
  BY <1>5, <1>8, <1>9
<1>11. QED
  BY <1>10

(* The members of a set in order: each where its count says. *)
LEMMA AscendingIs ==
  ASSUME NEW m \in Nat, NEW S \in SUBSET (1 .. m)
  PROVE  /\ Cardinality(S) \in Nat
         /\ DOMAIN Ascending(S) = 1 .. Cardinality(S)
         /\ \A n \in 1 .. Cardinality(S) :
              Ascending(S)[n] \in S /\ Count(S, Ascending(S)[n]) = n
<1>1. Cardinality(S) \in Nat
  BY Positions, FS_CardinalityType
<1>2. ASSUME NEW n \in 1 .. Cardinality(S)
      PROVE  Ascending(S)[n] \in S /\ Count(S, Ascending(S)[n]) = n
  <2>1. Ascending(S)[n] = CHOOSE i \in S : Cardinality({j \in S : j <= i}) = n
    BY DEF Ascending
  <2>2. Ascending(S)[n] = CHOOSE i \in S : Count(S, i) = n
    BY <2>1 DEF Count
  <2>3. \E i \in S : Count(S, i) = n
    BY CountHit
  <2>4. QED
    BY <2>2, <2>3
<1>3. QED
  BY <1>1, <1>2 DEF Ascending

-----------------------------------------------------------------------------
(* Runs of backslashes, and quotes that delimit. *)

LEMMA BehindIs ==
  ASSUME NEW s, NEW i \in Nat \ {0}, NEW n \in 0 .. i - 1,
         \A j \in i - n .. i - 1 : s[j] = "slash",
         n = i - 1 \/ s[i - n - 1] # "slash"
  PROVE  Behind(s, i) = n
<1> DEFINE Is(m) == /\ \A j \in i - m .. i - 1 : s[j] = "slash"
                    /\ m = i - 1 \/ s[i - m - 1] # "slash"
<1>1. Is(n)
  OBVIOUS
<1>2. ASSUME NEW a \in 0 .. i - 1, NEW b \in 0 .. i - 1, Is(a), Is(b), a < b
      PROVE  FALSE
  <2>1. a # i - 1 /\ i - a - 1 \in i - b .. i - 1
    BY <1>2
  <2>2. QED
    BY <1>2, <2>1
<1> HIDE DEF Is
<1>3. ASSUME NEW m \in 0 .. i - 1, Is(m) PROVE m = n
  <2>1. ~(m < n) /\ ~(n < m)
    BY <1>1, <1>2, <1>3
  <2>2. QED
    BY <2>1
<1>4. Behind(s, i) = CHOOSE m \in 0 .. i - 1 : Is(m)
  BY DEF Behind, Is
<1>5. QED
  BY <1>1, <1>3, <1>4

(* No run lies behind a position that a character ends. *)
LEMMA BehindNone ==
  ASSUME NEW s, NEW i \in Nat \ {0}, i = 1 \/ s[i - 1] # "slash"
  PROVE  Behind(s, i) = 0
<1>1. 0 \in 0 .. i - 1 /\ i - 0 .. i - 1 = {} /\ i - 0 - 1 = i - 1
  OBVIOUS
<1>2. 0 = i - 1 \/ s[i - 0 - 1] # "slash"
  BY <1>1
<1>3. \A j \in i - 0 .. i - 1 : s[j] = "slash"
  BY <1>1
<1>4. QED
  BY <1>1, <1>2, <1>3, BehindIs

LEMMA InsideType ==
  ASSUME NEW s, NEW i \in Nat \ {0}
  PROVE  IsFiniteSet({j \in 1 .. i - 1 : Delimits(s, j)})
<1>1. IsFiniteSet(1 .. i - 1)
  BY FS_Interval
<1>2. {j \in 1 .. i - 1 : Delimits(s, j)} \in SUBSET (1 .. i - 1)
  OBVIOUS
<1>3. QED
  BY <1>1, <1>2, FS_Subset

LEMMA InsideNext ==
  ASSUME NEW s, NEW i \in Nat \ {0}
  PROVE  Inside(s, i + 1) <=> (Inside(s, i) <=> ~Delimits(s, i))
<1> DEFINE A == {j \in 1 .. i + 1 - 1 : Delimits(s, j)}
           B == {j \in 1 .. i - 1 : Delimits(s, j)}
<1>1. IsFiniteSet(B) /\ Cardinality(B) \in Nat
  BY InsideType, FS_CardinalityType
<1>2. 1 .. i + 1 - 1 = (1 .. i - 1) \cup {i} /\ i \notin 1 .. i - 1
  OBVIOUS
<1>3. Inside(s, i + 1) <=> Cardinality(A) % 2 = 1
  BY DEF Inside
<1>4. Inside(s, i) <=> Cardinality(B) % 2 = 1
  BY DEF Inside
<1>5. CASE Delimits(s, i)
  <2>1. A = B \cup {i} /\ i \notin B
    BY <1>2, <1>5
  <2> HIDE DEF A, B
  <2>2. Cardinality(A) = Cardinality(B) + 1
    BY <1>1, <2>1, FS_AddElement
  <2>3. (Cardinality(B) + 1) % 2 = 1 <=> Cardinality(B) % 2 # 1
    BY <1>1
  <2>4. QED
    BY <1>3, <1>4, <1>5, <2>2, <2>3
<1>6. CASE ~Delimits(s, i)
  <2>1. A = B
    BY <1>2, <1>6
  <2>2. QED
    BY <1>3, <1>4, <1>6, <2>1
<1>7. QED
  BY <1>5, <1>6

LEMMA InsideFlat ==
  ASSUME NEW s, NEW i \in Nat \ {0}, NEW k \in Nat, i <= k,
         \A j \in i .. k - 1 : ~Delimits(s, j)
  PROVE  Inside(s, k) <=> Inside(s, i)
<1>1. \A j \in 1 .. k - 1 : Delimits(s, j) => j \in 1 .. i - 1
  <2>1. ASSUME NEW j \in 1 .. k - 1, Delimits(s, j), j \notin 1 .. i - 1
        PROVE  FALSE
    <3>1. j \in i .. k - 1
      BY <2>1
    <3>2. QED
      BY <2>1, <3>1
  <2>2. QED
    BY <2>1
<1>2. \A j \in 1 .. i - 1 : j \in 1 .. k - 1
  OBVIOUS
<1>3. {j \in 1 .. k - 1 : Delimits(s, j)} = {j \in 1 .. i - 1 : Delimits(s, j)}
  BY <1>1, <1>2
<1>4. QED
  BY <1>3 DEF Inside

LEMMA InsideFirst ==
  ASSUME NEW s
  PROVE  ~Inside(s, 1)
<1>1. {j \in 1 .. 1 - 1 : Delimits(s, j)} = {}
  OBVIOUS
<1>2. Cardinality({j \in 1 .. 1 - 1 : Delimits(s, j)}) = 0
  BY <1>1, FS_EmptySet
<1>3. 0 % 2 # 1
  OBVIOUS
<1>4. QED
  BY <1>2, <1>3 DEF Inside

(* A whole run of n backslashes, from i on. *)
Run(s, i, n) ==
  /\ i + n <= Len(s) + 1
  /\ i = 1 \/ s[i - 1] # "slash"
  /\ \A j \in i .. i + n - 1 : s[j] = "slash"
  /\ i + n <= Len(s) => s[i + n] # "slash"

AtQuote(s, i, n) == i + n <= Len(s) /\ s[i + n] = "quote"

LEMMA RunBehind ==
  ASSUME NEW s, NEW i \in Nat \ {0}, NEW n \in Nat, Run(s, i, n), NEW k \in 0 .. n
  PROVE  Behind(s, i + k) = k
<1>1. i + k \in Nat \ {0} /\ k \in 0 .. i + k - 1
      /\ i + k - k = i /\ i + k - k - 1 = i - 1
  OBVIOUS
<1>2. \A j \in i + k - k .. i + k - 1 : s[j] = "slash"
  <2>1. \A j \in i + k - k .. i + k - 1 : j \in i .. i + n - 1
    BY <1>1
  <2>2. QED
    BY <2>1 DEF Run
<1>3. k = i + k - 1 \/ s[i + k - k - 1] # "slash"
  BY <1>1 DEF Run
<1>4. QED
  BY <1>1, <1>2, <1>3, BehindIs

(* Before a quote every second one survives, elsewhere all of them. *)
LEMMA RunSurvives ==
  ASSUME NEW s, Len(s) \in Nat, NEW i \in Nat \ {0}, NEW n \in Nat, Run(s, i, n),
         NEW k \in 0 .. n - 1
  PROVE  /\ s[i + k] = "slash" /\ ~Delimits(s, i + k)
         /\ Survives(s, i + k) <=> (AtQuote(s, i, n) => k % 2 = 1)
<1>1. s[i + k] = "slash"
  BY DEF Run
<1>2. ~Delimits(s, i + k)
  BY <1>1 DEF Delimits
<1>3. Behind(s, i + k) = k
  <2>1. k \in 0 .. n
    OBVIOUS
  <2>2. QED
    BY <2>1, RunBehind
<1>4. BeforeQuote(s, i + k) <=> AtQuote(s, i, n)
  <2>1. ASSUME AtQuote(s, i, n) PROVE BeforeQuote(s, i + k)
    <3>1. i + n \in i + k + 1 .. Len(s)
      BY <2>1 DEF AtQuote
    <3>2. \A j \in i + k .. i + n - 1 : s[j] = "slash"
      BY DEF Run
    <3>3. QED
      BY <2>1, <3>1, <3>2 DEF AtQuote, BeforeQuote
  <2>2. ASSUME BeforeQuote(s, i + k) PROVE AtQuote(s, i, n)
    <3>1. PICK q \in i + k + 1 .. Len(s) :
            s[q] = "quote" /\ \A j \in i + k .. q - 1 : s[j] = "slash"
      BY <2>2 DEF BeforeQuote
    <3>2. ~(q < i + n)
      <4>1. q < i + n => q \in i .. i + n - 1
        OBVIOUS
      <4>2. QED
        BY <3>1, <4>1 DEF Run
    <3>3. ~(q > i + n)
      <4>1. q > i + n => i + n \in i + k .. q - 1 /\ i + n <= Len(s)
        OBVIOUS
      <4>2. QED
        BY <3>1, <4>1 DEF Run
    <3>4. q = i + n
      BY <3>2, <3>3
    <3>5. QED
      BY <3>1, <3>4 DEF AtQuote
  <2>3. QED
    BY <2>1, <2>2
<1>5. QED
  BY <1>1, <1>2, <1>3, <1>4 DEF Survives

(* And at the end of the run, the quote: it is literal after an odd one.   *)
LEMMA RunQuote ==
  ASSUME NEW s, Len(s) \in Nat, NEW i \in Nat \ {0}, NEW n \in Nat, Run(s, i, n),
         AtQuote(s, i, n)
  PROVE  /\ Delimits(s, i + n) <=> n % 2 = 0
         /\ Survives(s, i + n) <=> n % 2 = 1
<1>1. Behind(s, i + n) = n
  <2>1. n \in 0 .. n
    OBVIOUS
  <2>2. QED
    BY <2>1, RunBehind
<1>2. s[i + n] = "quote"
  BY DEF AtQuote
<1>3. n % 2 = 0 \/ n % 2 = 1
  OBVIOUS
<1>4. QED
  BY <1>1, <1>2, <1>3 DEF Delimits, Survives

(* A character that is neither is always kept. *)
LEMMA OthersSurvive ==
  ASSUME NEW s, NEW i, s[i] \notin {"quote", "slash"}
  PROVE  ~Delimits(s, i) /\ Survives(s, i)
BY DEF Delimits, Survives

-----------------------------------------------------------------------------
(* How many characters of a run are kept. *)

(* The characters of the line that the argument from p on may keep. *)
Lives(p) == {k \in p .. Len(line) : Survives(line, k)}

LEMMA LivesType ==
  ASSUME line \in Seq(Char), NEW p \in Nat \ {0}
  PROVE  /\ Len(line) \in Nat /\ Lives(p) \in SUBSET (1 .. Len(line))
         /\ Lives(p) \subseteq Int /\ IsFiniteSet(Lives(p))
         /\ \A k \in Lives(p) : k >= p /\ k <= Len(line)
<1>1. Len(line) \in Nat /\ \A k \in Lives(p) : k \in 1 .. Len(line)
  BY DEF Lives
<1>2. \A k \in Lives(p) : k >= p /\ k <= Len(line)
  BY DEF Lives
<1>3. Lives(p) \in SUBSET (1 .. Len(line))
  BY <1>1
<1>4. QED
  BY <1>1, <1>2, <1>3, Positions

LEMMA RunCount ==
  ASSUME line \in Seq(Char), NEW i \in Nat \ {0}, NEW n \in Nat, Run(line, i, n),
         NEW p \in 1 .. i, NEW k \in 0 .. n
  PROVE  Count(Lives(p), i + k - 1) =
           Count(Lives(p), i - 1) + (IF AtQuote(line, i, n) THEN k \div 2 ELSE k)
<1> DEFINE c == Count(Lives(p), i - 1)
           h(x) == IF AtQuote(line, i, n) THEN x \div 2 ELSE x
           Good == {x \in 0 .. n : Count(Lives(p), i + x - 1) = c + h(x)}
<1>1. /\ Len(line) \in Nat /\ p \in Nat \ {0}
      /\ Lives(p) \subseteq Int /\ IsFiniteSet(Lives(p))
  BY LivesType
<1>2. c \in Nat
  BY <1>1, CountType
<1>3. 0 \in Good
  <2>1. i + 0 - 1 = i - 1 /\ h(0) = 0
    OBVIOUS
  <2> HIDE DEF c, h
  <2>2. Count(Lives(p), i + 0 - 1) = c
    BY <2>1 DEF c
  <2>3. QED
    BY <1>2, <2>1, <2>2
<1>4. ASSUME NEW x \in 1 .. n, x - 1 \in Good PROVE x \in Good
  <2>1. x - 1 \in 0 .. n - 1 /\ i + x - 1 \in Int /\ i + x - 1 - 1 = i + (x - 1) - 1
        /\ i + (x - 1) = i + x - 1 /\ i + x - 1 \in p .. Len(line)
    BY <1>1 DEF Run
  <2>2. Count(Lives(p), i + (x - 1) - 1) = c + h(x - 1)
    BY <1>4
  <2>3. Survives(line, i + (x - 1)) <=> (AtQuote(line, i, n) => (x - 1) % 2 = 1)
    BY <1>1, <2>1, RunSurvives
  <2>4. i + x - 1 \in Lives(p) <=> (AtQuote(line, i, n) => (x - 1) % 2 = 1)
    BY <2>1, <2>3 DEF Lives
  <2>5. Count(Lives(p), i + x - 1) =
          IF i + x - 1 \in Lives(p) THEN Count(Lives(p), i + (x - 1) - 1) + 1
                                    ELSE Count(Lives(p), i + (x - 1) - 1)
    BY <1>1, <2>1, CountNext
  <2>6. /\ (x - 1) % 2 = 1 => x \div 2 = (x - 1) \div 2 + 1
        /\ (x - 1) % 2 # 1 => x \div 2 = (x - 1) \div 2
    OBVIOUS
  <2>7. h(x) = IF i + x - 1 \in Lives(p) THEN h(x - 1) + 1 ELSE h(x - 1)
    BY <2>4, <2>6
  <2>8. h(x - 1) \in Nat
    OBVIOUS
  <2> HIDE DEF c, h
  <2>9. Count(Lives(p), i + x - 1) = c + h(x)
    BY <1>2, <2>2, <2>5, <2>7, <2>8
  <2>10. QED
    BY <2>9
<1>5. k \in Good
  <2> HIDE DEF Good
  <2>1. 0 .. n \subseteq Good
    BY <1>3, <1>4, Climb
  <2>2. QED
    BY <2>1
<1>6. QED
  BY <1>5

-----------------------------------------------------------------------------
(* The version with escapes, beside the rule. *)

(* Where an argument may begin. *)
Between(i) == i = 1 \/ Parts(line, i - 1)

(* No run of backslashes is entered in its middle. *)
Ready ==
  esi <= Len(line) =>
    /\ line[esi] = "slash" => esi = 1 \/ line[esi - 1] # "slash"
    /\ line[esi] = "quote" => Behind(line, esi) % 2 = 0

(* What the argument from p on keeps of what was read lies from p on. *)
Compact(p) ==
  /\ edx = p + Count(Lives(p), esi - 1)
  /\ \A k \in Lives(p) : k < esi => mem[p + Count(Lives(p), k) - 1] = line[k]
  /\ \A j \in p .. edx - 1 : mem[j] \in Char

(* argv has the beginnings up to m, and no other. *)
Recorded(m) ==
  /\ Len(argv) = Count(Firsts(line), m)
  /\ \A f \in Firsts(line) : f <= m => argv[Count(Firsts(line), f)] = f

(* The argument at p is complete, and ends before the position m. *)
DoneAt(p, m) ==
  \E e \in p .. m - 1 :
    /\ mem[e] = NUL
    /\ \A j \in p .. e - 1 : mem[j] \in Char
    /\ SubSeq(mem, p, e - 1) = Argument(line, p)

Skipping ==
  /\ esi <= Len(line) => ~Inside(line, esi) /\ Between(esi)
  /\ Recorded(esi - 1)
  /\ \A n \in 1 .. Len(argv) :
       DoneAt(argv[n], IF esi <= Len(line) THEN esi ELSE Len(line) + 2)

(* The argument being read. *)
Reading(p) ==
  /\ p <= esi /\ Between(p) /\ Compact(p)
  /\ \A j \in p .. esi - 1 : ~Parts(line, j)
  /\ \A n \in 1 .. Len(argv) - 1 : DoneAt(argv[n], p)

Scanning ==
  /\ Len(argv) > 0 /\ Reading(argv[Len(argv)])
  /\ Ready
  /\ quoting <=> Inside(line, esi)
  /\ Recorded(esi)

Split ==
  /\ Recorded(Len(line))
  /\ \A n \in 1 .. Len(argv) : DoneAt(argv[n], Len(line) + 2)

ByTheRule ==
  version.escapes => /\ pc # "qscan"
                     /\ pc = "skip" => Skipping
                     /\ pc = "scan" => Scanning
                     /\ pc = "end"  => Split

LEMMA FirstsType ==
  ASSUME line \in Seq(Char)
  PROVE  /\ Len(line) \in Nat /\ Firsts(line) \in SUBSET (1 .. Len(line))
         /\ Firsts(line) \subseteq Int /\ IsFiniteSet(Firsts(line))
         /\ \A f \in Firsts(line) : f >= 1 /\ f <= Len(line)
<1>1. Len(line) \in Nat /\ DOMAIN line = 1 .. Len(line)
  OBVIOUS
<1>2. Firsts(line) \in SUBSET (1 .. Len(line))
  BY <1>1 DEF Firsts
<1>3. QED
  BY <1>1, <1>2, Positions

(* The rule is of the line and the version, which do not change. *)
LEMMA SameRule ==
  ASSUME line' = line, version' = version
  PROVE  /\ \A i : Parts(line, i)' <=> Parts(line, i)
         /\ \A i : Between(i)' <=> Between(i)
         /\ \A i : Inside(line, i)' <=> Inside(line, i)
         /\ \A p : Argument(line, p)' = Argument(line, p)
         /\ \A p : Lives(p)' = Lives(p)
         /\ Firsts(line)' = Firsts(line)
BY DEF Parts, Between, Inside, Argument, Lives, Firsts, Separator

(* An argument stays complete where nothing is written into it. *)
LEMMA DoneKept ==
  ASSUME line' = line, version' = version,
         mem \in [1 .. Len(line) + 1 -> Char \cup {NUL}],
         mem' \in [1 .. Len(line) + 1 -> Char \cup {NUL}], Len(line) \in Nat,
         NEW p \in Nat \ {0}, NEW m \in Int, NEW l \in Int, DoneAt(p, m), m <= l,
         m <= Len(line) + 2, \A k \in 1 .. m - 1 : mem'[k] = mem[k]
  PROVE  DoneAt(p, l)'
<1>1. PICK e \in p .. m - 1 :
        /\ mem[e] = NUL
        /\ \A j \in p .. e - 1 : mem[j] \in Char
        /\ SubSeq(mem, p, e - 1) = Argument(line, p)
  BY DEF DoneAt
<1>2. e \in p .. l - 1 /\ e \in 1 .. m - 1 /\ e \in Nat /\ e <= Len(line) + 1
  OBVIOUS
<1>3. \A j \in p .. e - 1 : j \in 1 .. m - 1
  BY <1>2
<1>4. mem'[e] = NUL /\ \A j \in p .. e - 1 : mem'[j] \in Char
  BY <1>1, <1>2, <1>3
<1>5. SubSeq(mem', p, e - 1) = SubSeq(mem, p, e - 1)
  <2>1. \A x \in 1 .. e - 1 - p + 1 : x + p - 1 \in 1 .. m - 1
    BY <1>2
  <2>2. SubSeq(mem, p, e - 1) = [x \in 1 .. e - 1 - p + 1 |-> mem[x + p - 1]]
    OBVIOUS
  <2>3. SubSeq(mem', p, e - 1) = [x \in 1 .. e - 1 - p + 1 |-> mem'[x + p - 1]]
    OBVIOUS
  <2>4. QED
    BY <2>1, <2>2, <2>3
<1>6. Argument(line, p)' = Argument(line, p)
  BY SameRule
<1>7. SubSeq(mem, p, e - 1)' = Argument(line, p)'
  BY <1>1, <1>5, <1>6
<1>8. QED
  BY <1>2, <1>4, <1>7 DEF DoneAt

-----------------------------------------------------------------------------
(* Steps of the version with escapes. *)

LEMMA EmitAt ==
  ASSUME TypeOK, NEW text \in Seq(Char), Emit(text), edx + Len(text) <= Len(line) + 1
  PROVE  /\ edx' = edx + Len(text)
         /\ \A k \in 1 .. edx - 1 : mem'[k] = mem[k]
         /\ \A x \in 1 .. Len(text) : mem'[edx + x - 1] = text[x] /\ text[x] \in Char
<1>1. /\ edx \in Nat /\ Len(line) \in Nat /\ Len(text) \in Nat
      /\ edx >= 1 /\ edx <= Len(line) + 1
      /\ DOMAIN mem = 1 .. Len(line) + 1
  BY DEF TypeOK
<1>2. mem' = [k \in 1 .. Len(line) + 1 |->
                IF k - edx + 1 \in 1 .. Len(text) THEN text[k - edx + 1] ELSE mem[k]]
  BY <1>1 DEF Emit
<1>3. ASSUME NEW k \in 1 .. edx - 1 PROVE mem'[k] = mem[k]
  <2>1. k \in 1 .. Len(line) + 1 /\ k - edx + 1 \notin 1 .. Len(text)
    BY <1>1
  <2>2. QED
    BY <1>2, <2>1
<1>4. ASSUME NEW x \in 1 .. Len(text) PROVE mem'[edx + x - 1] = text[x]
  <2> DEFINE k == edx + x - 1
  <2>1. k \in 1 .. Len(line) + 1 /\ k - edx + 1 = x
    BY <1>1
  <2> HIDE DEF k
  <2>2. mem'[k] = text[x]
    BY <1>2, <2>1
  <2>3. QED
    BY <2>2 DEF k
<1>5. edx' = edx + Len(text) /\ \A x \in 1 .. Len(text) : text[x] \in Char
  BY DEF Emit
<1>6. QED
  BY <1>3, <1>4, <1>5

LEMMA EmitCompact ==
  ASSUME TypeOK, line' = line, version' = version,
         NEW p \in Nat \ {0}, p <= esi, Compact(p),
         NEW text \in Seq(Char), Emit(text), edx + Len(text) <= Len(line) + 1,
         NEW m \in Nat, esi' = m, esi <= m,
         Count(Lives(p), m - 1) = Count(Lives(p), esi - 1) + Len(text),
         \A k \in Lives(p) : esi <= k /\ k < m =>
           \A x \in 1 .. Len(text) :
             x = Count(Lives(p), k) - Count(Lives(p), esi - 1) => text[x] = line[k]
  PROVE  /\ Compact(p)'
         /\ \A k \in 1 .. p - 1 : mem'[k] = mem[k]
<1> DEFINE L == Lives(p)
           c == Count(L, esi - 1)
<1>1. /\ esi \in Nat /\ edx \in Nat /\ Len(line) \in Nat /\ Len(text) \in Nat
      /\ line \in Seq(Char)
  BY DEF TypeOK
<1>2. /\ L \subseteq Int /\ IsFiniteSet(L)
      /\ \A k \in L : k >= p /\ k <= Len(line)
  BY <1>1, LivesType
<1>3. c \in Nat /\ edx = p + c
  BY <1>2, CountType DEF Compact
<1>4. /\ edx' = edx + Len(text)
      /\ \A k \in 1 .. edx - 1 : mem'[k] = mem[k]
      /\ \A x \in 1 .. Len(text) : mem'[edx + x - 1] = text[x] /\ text[x] \in Char
  BY EmitAt
<1>5. Lives(p)' = L
  BY SameRule
<1> HIDE DEF L
<1>6. Count(L, m - 1) = c + Len(text)
  BY DEF L
<1>7. edx' = p + Count(L, m - 1)
  BY <1>1, <1>3, <1>4, <1>6
<1>8. ASSUME NEW k \in L, k < m
      PROVE  mem'[p + Count(L, k) - 1] = line[k]
  <2>1. k \in Int /\ k >= p /\ Count(L, k) \in Nat /\ Count(L, k - 1) \in Nat
    BY <1>2, CountType
  <2>2. Count(L, k) = Count(L, k - 1) + 1
    BY <1>2, <2>1, CountNext
  <2>3. CASE k < esi
    <3>1. k \in Int /\ esi - 1 \in Int /\ k <= esi - 1
      BY <1>1, <2>1, <2>3
    <3>2. Count(L, k) <= c
      BY <1>2, <3>1, CountUp
    <3>3. p + Count(L, k) - 1 \in 1 .. edx - 1
      BY <1>3, <2>1, <2>2, <3>2
    <3>4. mem[p + Count(L, k) - 1] = line[k]
      BY <1>8, <2>3 DEF Compact, L
    <3>5. QED
      BY <1>4, <3>3, <3>4
  <2>4. CASE esi <= k
    <3>1. esi - 1 \in Int /\ k - 1 \in Int /\ esi - 1 <= k - 1
          /\ m - 1 \in Int /\ k <= m - 1
      BY <1>1, <1>8, <2>1, <2>4
    <3>2. c <= Count(L, k - 1)
      BY <1>2, <3>1, CountUp
    <3>3. Count(L, k) <= Count(L, m - 1)
      BY <1>2, <2>1, <3>1, CountUp
    <3>4. Count(L, k) - c \in 1 .. Len(text)
          /\ p + Count(L, k) - 1 = edx + (Count(L, k) - c) - 1
      <4> DEFINE a == Count(L, k)
                 b == Count(L, k - 1)
                 d == Count(L, m - 1)
      <4>1. a \in Nat /\ b \in Nat /\ a = b + 1 /\ c <= b /\ a <= d
            /\ d = c + Len(text)
        BY <1>6, <2>1, <2>2, <3>2, <3>3
      <4> HIDE DEF a, b, c, d
      <4>2. a - c \in 1 .. Len(text) /\ p + a - 1 = edx + (a - c) - 1
        BY <1>1, <1>3, <4>1
      <4>3. QED
        BY <4>2 DEF a
    <3>5. text[Count(L, k) - c] = line[k]
      BY <1>8, <2>4, <3>4 DEF L
    <3>6. mem'[edx + (Count(L, k) - c) - 1] = text[Count(L, k) - c]
      BY <1>4, <3>4
    <3>7. QED
      BY <3>4, <3>5, <3>6
  <2>5. QED
    BY <1>1, <2>1, <2>3, <2>4
<1>9. ASSUME NEW j \in p .. edx' - 1 PROVE mem'[j] \in Char
  <2>1. j \in Nat /\ j >= p /\ j < edx + Len(text)
    BY <1>1, <1>4
  <2>2. CASE j < edx
    <3>1. j \in p .. edx - 1 /\ j \in 1 .. edx - 1
      BY <1>1, <2>1, <2>2
    <3>2. QED
      BY <1>4, <3>1 DEF Compact
  <2>3. CASE edx <= j
    <3>1. j - edx + 1 \in 1 .. Len(text) /\ j = edx + (j - edx + 1) - 1
      BY <1>1, <2>1, <2>3
    <3>2. QED
      BY <1>4, <3>1
  <2>4. QED
    BY <1>1, <2>1, <2>2, <2>3
<1>10. \A k \in 1 .. p - 1 : k \in 1 .. edx - 1
  BY <1>1, <1>3
<1> HIDE DEF c
<1>11. /\ edx' = p + Count(Lives(p)', esi' - 1)
       /\ \A k \in Lives(p)' : k < esi' => mem'[p + Count(Lives(p)', k) - 1] = line'[k]
  BY <1>5, <1>7, <1>8
<1>12. Compact(p)'
  BY <1>9, <1>11 DEF Compact, Count
<1>13. QED
  BY <1>4, <1>10, <1>12

LEMMA DonesKept ==
  ASSUME TypeOK, line' = line, version' = version,
         mem' \in [1 .. Len(line) + 1 -> Char \cup {NUL}],
         NEW N \in Nat, N <= Len(argv), \A n \in 1 .. N : argv'[n] = argv[n],
         NEW m \in Int, NEW l \in Int, m <= l, m <= Len(line) + 2,
         \A n \in 1 .. N : DoneAt(argv[n], m), \A k \in 1 .. m - 1 : mem'[k] = mem[k]
  PROVE  \A n \in 1 .. N : DoneAt(argv[n], l)'
<1> SUFFICES ASSUME NEW n \in 1 .. N PROVE DoneAt(argv[n], l)'
  OBVIOUS
<1>1. /\ Len(line) \in Nat /\ argv \in Seq(1 .. Len(line) + 1)
      /\ mem \in [1 .. Len(line) + 1 -> Char \cup {NUL}]
  BY DEF TypeOK
<1>2. n \in 1 .. Len(argv)
  BY <1>1
<1>3. argv[n] \in 1 .. Len(line) + 1
  BY <1>1, <1>2
<1>4. argv[n] \in Nat \ {0}
  BY <1>1, <1>3
<1>5. PICK q \in Nat \ {0} : q = argv[n]
  BY <1>4
<1>6. DoneAt(q, m)
  BY <1>5
<1>7. DoneAt(q, l)'
  BY <1>1, <1>6, DoneKept
<1>8. argv'[n] = q
  BY <1>5
<1>9. QED
  BY <1>7, <1>8 DEF DoneAt

(* A step within an argument.                                              *)
LEMMA ScanningStep ==
  ASSUME TypeOK, line' = line, version' = version, argv' = argv,
         mem' \in [1 .. Len(line) + 1 -> Char \cup {NUL}],
         Scanning, NEW p \in Nat \ {0}, p = argv[Len(argv)],
         \A k \in 1 .. p - 1 : mem'[k] = mem[k], Compact(p)',
         NEW m \in Nat, esi' = m, esi <= m, m <= Len(line) + 1,
         \A j \in esi .. m - 1 : ~Parts(line, j),
         m <= Len(line) => /\ line[m] = "slash" => m = 1 \/ line[m - 1] # "slash"
                           /\ line[m] = "quote" => Behind(line, m) % 2 = 0,
         quoting' <=> Inside(line, m)
  PROVE  Scanning'
<1>1. /\ esi \in Nat /\ esi >= 1 /\ Len(line) \in Nat /\ line \in Seq(Char)
      /\ argv \in Seq(1 .. Len(line) + 1) /\ Len(argv) \in Nat
  BY DEF TypeOK
<1>2. /\ Len(argv) > 0 /\ Reading(p) /\ Recorded(esi)
  BY DEF Scanning
<1>3. p = argv'[Len(argv')] /\ Len(argv') > 0
  BY <1>2
<1>4. p <= m /\ p <= Len(line) + 1 /\ p \in Int
  BY <1>1, <1>2 DEF Reading
<1>5. \A j \in p .. m - 1 : ~Parts(line, j)
  <2>1. \A j \in p .. m - 1 : j \in p .. esi - 1 \/ j \in esi .. m - 1
    BY <1>1
  <2>2. QED
    BY <1>2, <2>1 DEF Reading
<1>6. \A n \in 1 .. Len(argv) - 1 : DoneAt(argv[n], p)'
  <2>1. \A n \in 1 .. Len(argv) - 1 : DoneAt(argv[n], p)
    BY <1>2 DEF Reading
  <2>2. Len(argv) - 1 \in Nat /\ Len(argv) - 1 <= Len(argv) /\ p <= Len(line) + 2
    BY <1>1, <1>2, <1>4
  <2> HIDE DEF DoneAt
  <2>3. \A n \in 1 .. Len(argv) - 1 : argv'[n] = argv[n]
    OBVIOUS
  <2>4. PICK N \in Nat : N = Len(argv) - 1
    BY <2>2
  <2>5. \A n \in 1 .. N : DoneAt(argv[n], p)'
    <3>1. p \in Int /\ p <= p /\ p <= Len(line) + 2 /\ N <= Len(argv)
      BY <1>4, <2>2, <2>4
    <3>2. \A n \in 1 .. N : DoneAt(argv[n], p) /\ argv'[n] = argv[n]
      BY <2>1, <2>4
    <3>3. QED
      BY <3>1, <3>2, DonesKept
  <2>6. QED
    BY <2>4, <2>5
<1>7. Recorded(m)
  <2>1. /\ Firsts(line) \subseteq Int
        /\ \A f \in Firsts(line) : f >= 1
    BY <1>1, FirstsType
  <2>2. ASSUME NEW j \in esi + 1 .. m PROVE j \notin Firsts(line)
    <3>1. j # 1 /\ j - 1 \in esi .. m - 1
      BY <1>1
    <3>2. QED
      BY <3>1 DEF Firsts
  <2>3. esi \in Int /\ m \in Int
    BY <1>1
  <2>4. Count(Firsts(line), m) = Count(Firsts(line), esi)
    BY <2>1, <2>2, <2>3, CountFlat
  <2>5. ASSUME NEW f \in Firsts(line), f <= m PROVE f <= esi
    <3>1. ~(f <= esi) => f \in esi + 1 .. m
      BY <1>1, <2>1, <2>5
    <3>2. QED
      BY <2>2, <3>1
  <2>6. QED
    BY <1>2, <2>4, <2>5 DEF Recorded
<1>8. /\ Recorded(esi)' /\ (quoting <=> Inside(line, esi))' /\ Ready'
      /\ \A j \in p .. esi' - 1 : ~Parts(line, j)'
      /\ Between(p)'
  <2>1. /\ Between(p) /\ Firsts(line)' = Firsts(line)
        /\ \A i : Parts(line, i)' <=> Parts(line, i)
        /\ \A i : Between(i)' <=> Between(i)
        /\ \A i : Inside(line, i)' <=> Inside(line, i)
    BY <1>2, SameRule DEF Reading
  <2>2. Recorded(esi)'
    BY <1>7, <2>1 DEF Recorded, Count
  <2>3. (quoting <=> Inside(line, esi))'
    BY DEF Inside, Delimits
  <2>4. Ready'
    BY DEF Ready, Behind
  <2>5. QED
    BY <1>5, <2>1, <2>2, <2>3, <2>4
<1>9. Reading(p)'
  <2>1. p <= esi'
    BY <1>4
  <2>2. \A n \in 1 .. Len(argv') - 1 : DoneAt(argv[n], p)'
    BY <1>6
  <2>3. QED
    BY <1>8, <2>1, <2>2 DEF Reading
<1>10. Reading(argv[Len(argv)])'
  BY <1>3, <1>9 DEF Reading, Compact, Lives, Between
<1>11. QED
  BY <1>3, <1>8, <1>10 DEF Scanning

(* What is ahead is the line. *)
LEMMA LineAhead ==
  ASSUME TypeOK, UnreadIntact
  PROVE  /\ esi \in Nat \ {0} /\ esi <= Len(line) + 1
         /\ Len(line) \in Nat /\ line \in Seq(Char)
         /\ \A k \in esi .. Len(line) : mem[k] = line[k] /\ line[k] \in Char
         /\ mem[Len(line) + 1] = NUL
         /\ mem[esi] = NUL <=> esi = Len(line) + 1
         /\ mem[esi] # NUL => esi <= Len(line) /\ mem[esi] = line[esi]
<1>1. /\ esi \in Nat \ {0} /\ esi <= Len(line) + 1
      /\ Len(line) \in Nat /\ line \in Seq(Char)
  BY DEF TypeOK
<1>2. \A k \in esi .. Len(line) : mem[k] = line[k] /\ line[k] \in Char
  <2>1. \A k \in esi .. Len(line) : k \in esi .. Len(line) + 1 /\ k \in 1 .. Len(line)
    BY <1>1
  <2>2. QED
    BY <1>1, <2>1, TapeIs DEF UnreadIntact
<1>3. mem[Len(line) + 1] = NUL
  BY Ahead
<1>4. CASE esi <= Len(line)
  <2>1. esi \in esi .. Len(line) /\ esi # Len(line) + 1
    BY <1>1, <1>4
  <2>2. QED
    BY <1>1, <1>2, <1>3, <1>4, <2>1, NulIsNoChar
<1>5. CASE esi = Len(line) + 1
  BY <1>1, <1>2, <1>3, <1>5
<1>6. QED
  BY <1>1, <1>4, <1>5

LEMMA ScanningIs ==
  ASSUME TypeOK, Scanning
  PROVE  \E p \in Nat \ {0} : /\ p = argv[Len(argv)] /\ p \in 1 .. esi /\ Compact(p)
<1>1. /\ argv \in Seq(1 .. Len(line) + 1) /\ Len(line) \in Nat
      /\ Len(argv) \in Nat /\ Len(argv) > 0
  BY DEF TypeOK, Scanning
<1>2. Len(argv) \in 1 .. Len(argv)
  BY <1>1
<1>3. argv[Len(argv)] \in 1 .. Len(line) + 1
  BY <1>1, <1>2
<1>4. argv[Len(argv)] \in Nat \ {0}
  BY <1>1, <1>3
<1>5. argv[Len(argv)] <= esi /\ Compact(argv[Len(argv)])
  BY DEF Scanning, Reading
<1>6. argv[Len(argv)] \in 1 .. esi
  BY <1>4, <1>5 DEF TypeOK
<1>7. QED
  BY <1>4, <1>5, <1>6

(* One more character read. *)
LEMMA CountOne ==
  ASSUME line \in Seq(Char), NEW i \in 1 .. Len(line), NEW p \in 1 .. i
  PROVE  Count(Lives(p), i) = IF Survives(line, i) THEN Count(Lives(p), i - 1) + 1
                                                   ELSE Count(Lives(p), i - 1)
<1>1. /\ p \in Nat \ {0} /\ i \in Int
      /\ Lives(p) \subseteq Int /\ IsFiniteSet(Lives(p))
  BY LivesType
<1>2. i \in Lives(p) <=> Survives(line, i)
  BY DEF Lives
<1>3. QED
  BY <1>1, <1>2, CountNext

LEMMA KeepScans ==
  ASSUME TypeOK, UnreadIntact, Trails, Scanning, Keep,
         mem' \in [1 .. Len(line) + 1 -> Char \cup {NUL}]
  PROVE  Scanning'
<1>1. PICK p \in Nat \ {0} : p = argv[Len(argv)] /\ p \in 1 .. esi /\ Compact(p)
  BY ScanningIs
<1>2. PICK m \in Nat : m = esi + 1
  BY DEF TypeOK
<1>3. /\ mem[esi] \in Char \ {"quote", "slash"} /\ Emit(<<mem[esi]>>)
      /\ Separator(mem[esi]) => quoting
      /\ esi' = m /\ line' = line /\ version' = version /\ argv' = argv
      /\ quoting' = quoting /\ edx <= esi
  BY <1>2 DEF Keep, Escaping, given, Trails
<1>4. /\ esi \in Nat \ {0} /\ esi <= Len(line) /\ mem[esi] = line[esi]
      /\ Len(line) \in Nat /\ line \in Seq(Char)
  BY <1>3, LineAhead, NulIsNoChar
<1>5. ~Delimits(line, esi) /\ Survives(line, esi)
  BY <1>3, <1>4, OthersSurvive
<1>6. Count(Lives(p), m - 1) = Count(Lives(p), esi - 1) + 1
  <2>1. esi \in 1 .. Len(line) /\ m - 1 = esi
    BY <1>2, <1>4
  <2>2. QED
    BY <1>1, <1>4, <1>5, <2>1, CountOne
<1>7. Compact(p)' /\ \A k \in 1 .. p - 1 : mem'[k] = mem[k]
  <2>1. PICK text \in Seq(Char) : text = <<mem[esi]>>
    <3>1. <<mem[esi]>> \in Seq(Char)
      BY <1>3
    <3>2. QED
      BY <3>1
  <2>2. Emit(text) /\ Len(text) = 1 /\ \A x \in 1 .. Len(text) : text[x] = mem[esi]
    BY <1>3, <2>1
  <2>3. edx + Len(text) <= Len(line) + 1 /\ esi <= m /\ p <= esi
    BY <1>1, <1>2, <1>3, <1>4, <2>2 DEF TypeOK
  <2>4. \A k \in Lives(p) : esi <= k /\ k < m => k = esi
    BY <1>1, <1>2, <1>4, LivesType
  <2>5. \A k \in Lives(p) : esi <= k /\ k < m =>
          \A x \in 1 .. Len(text) :
            x = Count(Lives(p), k) - Count(Lives(p), esi - 1) => text[x] = line[k]
    BY <1>4, <2>2, <2>4
  <2>6. Count(Lives(p), m - 1) = Count(Lives(p), esi - 1) + Len(text)
    BY <1>6, <2>2
  <2>7. QED
    BY <1>1, <1>3, <2>2, <2>3, <2>5, <2>6, EmitCompact
<1>8. \A j \in esi .. m - 1 : ~Parts(line, j)
  <2>1. \A j \in esi .. m - 1 : j = esi
    BY <1>2, <1>4
  <2>2. ~Parts(line, esi)
    BY <1>3, <1>4 DEF Parts, Scanning
  <2>3. QED
    BY <2>1, <2>2
<1>9. m <= Len(line) => /\ line[m] = "slash" => m = 1 \/ line[m - 1] # "slash"
                        /\ line[m] = "quote" => Behind(line, m) % 2 = 0
  <2>1. m \in Nat \ {0} /\ m - 1 = esi /\ line[m - 1] # "slash"
    BY <1>2, <1>3, <1>4
  <2>2. Behind(line, m) = 0
    BY <2>1, BehindNone
  <2>3. QED
    BY <2>1, <2>2
<1>10. quoting' <=> Inside(line, m)
  <2>1. Inside(line, esi + 1) <=> Inside(line, esi)
    BY <1>4, <1>5, InsideNext
  <2>2. QED
    BY <1>2, <1>3, <2>1 DEF Scanning
<1>11. esi <= m /\ m <= Len(line) + 1
  BY <1>2, <1>4
<1>12. QED
  BY <1>1, <1>3, <1>7, <1>8, <1>9, <1>10, <1>11, ScanningStep

LEMMA QuoteScans ==
  ASSUME TypeOK, UnreadIntact, Trails, Scanning, Quote
  PROVE  Scanning'
<1>1. PICK p \in Nat \ {0} : p = argv[Len(argv)] /\ p \in 1 .. esi /\ Compact(p)
  BY ScanningIs
<1>2. PICK m \in Nat : m = esi + 1
  BY DEF TypeOK
<1>3. /\ mem[esi] = "quote" /\ quoting' = ~quoting /\ mem' = mem /\ edx' = edx
      /\ esi' = m /\ line' = line /\ version' = version /\ argv' = argv
      /\ edx <= esi
  BY <1>2 DEF Quote, Escaping, given, Trails
<1>4. /\ esi \in Nat \ {0} /\ esi <= Len(line) /\ mem[esi] = line[esi]
      /\ Len(line) \in Nat /\ line \in Seq(Char)
  BY <1>3, LineAhead DEF NUL
<1>5. Delimits(line, esi) /\ ~Survives(line, esi)
  BY <1>3, <1>4 DEF Scanning, Ready, Delimits, Survives
<1>6. Count(Lives(p), m - 1) = Count(Lives(p), esi - 1) + 0
  <2>1. esi \in 1 .. Len(line) /\ m - 1 = esi
    BY <1>2, <1>4
  <2>2. Count(Lives(p), esi - 1) \in Nat
    BY <1>4, LivesType, CountType
  <2>3. QED
    BY <1>1, <1>4, <1>5, <2>1, <2>2, CountOne
<1>7. Compact(p)' /\ \A k \in 1 .. p - 1 : mem'[k] = mem[k]
  <2>1. PICK text \in Seq(Char) : text = << >>
    <3>1. << >> \in Seq(Char)
      OBVIOUS
    <3>2. QED
      BY <3>1
  <2>2. Len(text) = 0 /\ DOMAIN text = {}
    BY <2>1
  <2>3. Emit(text)
    <3>1. mem = [k \in DOMAIN mem |-> mem[k]] /\ edx \in Int
      BY DEF TypeOK
    <3>2. QED
      BY <1>3, <2>2, <3>1 DEF Emit
  <2>4. edx + Len(text) <= Len(line) + 1 /\ esi <= m /\ p <= esi
    BY <1>1, <1>2, <1>3, <1>4, <2>2 DEF TypeOK
  <2>5. \A k \in Lives(p) : esi <= k /\ k < m =>
          \A x \in 1 .. Len(text) :
            x = Count(Lives(p), k) - Count(Lives(p), esi - 1) => text[x] = line[k]
    BY <2>2
  <2>6. Count(Lives(p), m - 1) = Count(Lives(p), esi - 1) + Len(text)
    BY <1>6, <2>2
  <2>7. QED
    BY <1>1, <1>3, <2>3, <2>4, <2>5, <2>6, EmitCompact
<1>8. \A j \in esi .. m - 1 : ~Parts(line, j)
  <2>1. \A j \in esi .. m - 1 : j = esi
    BY <1>2, <1>4
  <2>2. ~Parts(line, esi)
    BY <1>3, <1>4 DEF Parts, Separator
  <2>3. QED
    BY <2>1, <2>2
<1>9. m <= Len(line) => /\ line[m] = "slash" => m = 1 \/ line[m - 1] # "slash"
                        /\ line[m] = "quote" => Behind(line, m) % 2 = 0
  <2>1. m \in Nat \ {0} /\ m - 1 = esi /\ line[m - 1] # "slash"
    BY <1>2, <1>3, <1>4
  <2>2. Behind(line, m) = 0
    BY <2>1, BehindNone
  <2>3. QED
    BY <2>1, <2>2
<1>10. quoting' <=> Inside(line, m)
  <2>1. Inside(line, esi + 1) <=> ~Inside(line, esi)
    BY <1>4, <1>5, InsideNext
  <2>2. QED
    BY <1>2, <1>3, <2>1 DEF Scanning
<1>11. esi <= m /\ m <= Len(line) + 1
  BY <1>2, <1>4
<1>12. mem' \in [1 .. Len(line) + 1 -> Char \cup {NUL}]
  BY <1>3 DEF TypeOK
<1>13. QED
  BY <1>1, <1>3, <1>7, <1>8, <1>9, <1>10, <1>11, <1>12, ScanningStep

(* The run of backslashes at the read cursor is a whole one. *)
LEMMA WholeRun ==
  ASSUME TypeOK, UnreadIntact, Ready, mem[esi] = "slash"
  PROVE  /\ RunAt(esi) \in Nat /\ Run(line, esi, RunAt(esi))
         /\ mem[esi + RunAt(esi)] = "quote" <=> AtQuote(line, esi, RunAt(esi))
<1> DEFINE n == RunAt(esi)
<1>1. /\ n \in Nat /\ esi + n <= Len(line) + 1
      /\ \A j \in esi .. esi + n - 1 : mem[j] = "slash"
      /\ mem[esi + n] # "slash"
  BY RunEnds
<1>2. /\ esi \in Nat \ {0} /\ esi <= Len(line) + 1 /\ Len(line) \in Nat
      /\ \A k \in esi .. Len(line) : mem[k] = line[k]
      /\ mem[Len(line) + 1] = NUL
      /\ esi <= Len(line) /\ mem[esi] = line[esi]
  BY LineAhead DEF NUL
<1> HIDE DEF n
<1>3. esi = 1 \/ line[esi - 1] # "slash"
  BY <1>2 DEF Ready
<1>4. \A j \in esi .. esi + n - 1 : line[j] = "slash"
  <2>1. \A j \in esi .. esi + n - 1 : j \in esi .. Len(line)
    BY <1>1, <1>2
  <2>2. QED
    BY <1>1, <1>2, <2>1
<1>5. CASE esi + n <= Len(line)
  <2>1. esi + n \in esi .. Len(line)
    BY <1>1, <1>2, <1>5
  <2>2. mem[esi + n] = line[esi + n]
    BY <1>2, <2>1
  <2>3. Run(line, esi, n) /\ (mem[esi + n] = "quote" <=> AtQuote(line, esi, n))
    BY <1>1, <1>3, <1>4, <1>5, <2>2 DEF Run, AtQuote
  <2>4. QED
    BY <1>1, <2>3 DEF n
<1>6. CASE esi + n = Len(line) + 1
  <2>1. ~(esi + n <= Len(line)) /\ mem[esi + n] = NUL
    BY <1>2, <1>6
  <2>2. Run(line, esi, n) /\ (mem[esi + n] = "quote" <=> AtQuote(line, esi, n))
    BY <1>1, <1>3, <1>4, <2>1 DEF Run, AtQuote, NUL
  <2>3. QED
    BY <1>1, <2>2 DEF n
<1>7. QED
  BY <1>1, <1>2, <1>5, <1>6

LEMMA BackslashesScan ==
  ASSUME TypeOK, UnreadIntact, Trails, Scanning, Backslashes,
         mem' \in [1 .. Len(line) + 1 -> Char \cup {NUL}],
         esi' \in 1 .. Len(line) + 1
  PROVE  Scanning'
<1>1. PICK p \in Nat \ {0} : p = argv[Len(argv)] /\ p \in 1 .. esi /\ Compact(p)
  BY ScanningIs
<1>2. /\ mem[esi] = "slash" /\ edx <= esi /\ Ready /\ (quoting <=> Inside(line, esi))
      /\ line' = line /\ version' = version /\ argv' = argv /\ quoting' = quoting
  BY DEF Backslashes, Escaping, Trails, Scanning, given
<1>3. PICK n \in Nat : n = RunAt(esi)
  BY <1>2, WholeRun
<1>4. Run(line, esi, n) /\ (mem[esi + n] = "quote" <=> AtQuote(line, esi, n))
  BY <1>2, <1>3, WholeRun
<1>5. PICK m \in Nat : m = esi'
  OBVIOUS
<1>6. /\ esi \in Nat \ {0} /\ Len(line) \in Nat /\ line \in Seq(Char)
      /\ p >= 1 /\ p <= esi /\ m <= Len(line) + 1
      /\ edx \in Nat /\ esi + n <= Len(line) + 1
  BY <1>1, <1>4, <1>5, LineAhead DEF TypeOK, Run
<1> DEFINE L == Lives(p)
           c == Count(L, esi - 1)
<1>7. /\ c \in Nat /\ L \subseteq Int /\ IsFiniteSet(L)
      /\ \A k \in L : k >= p /\ k <= Len(line)
  BY <1>6, LivesType, CountType
<1>8. Count(L, esi + n - 1) = c + (IF AtQuote(line, esi, n) THEN n \div 2 ELSE n)
  <2>1. n \in 0 .. n
    OBVIOUS
  <2>2. QED
    BY <1>1, <1>4, <1>6, <2>1, RunCount
<1>9. \A j \in esi .. esi + n - 1 :
        line[j] = "slash" /\ ~Delimits(line, j) /\ ~Parts(line, j)
  BY <1>4 DEF Run, Delimits, Parts, Separator
<1> HIDE DEF L, c
<1>10. n \div 2 \in Nat /\ n \div 2 <= n /\ (n % 2 = 0 \/ n % 2 = 1)
       /\ (n % 2 = 1 => n \div 2 + 1 <= n)
  OBVIOUS
<1>11. CASE mem[esi + n] # "quote" \/ n % 2 # 1
  <2> DEFINE h == IF AtQuote(line, esi, n) THEN n \div 2 ELSE n
  <2>1. h \in Nat /\ h <= n
    BY <1>10
  <2>2. Emit(Slashes(h)) /\ esi' = esi + n
    BY <1>2, <1>3, <1>4, <1>11 DEF Backslashes, Survive, Literal
  <2>3. m = esi + n
    BY <1>5, <2>2
  <2>4. Slashes(h) \in Seq(Char) /\ Len(Slashes(h)) = h
    BY <2>1, SlashesType
  <2>5. \A x \in 1 .. h : Slashes(h)[x] = "slash"
    BY DEF Slashes
  <2>6. Compact(p)' /\ \A k \in 1 .. p - 1 : mem'[k] = mem[k]
    <3> HIDE DEF h
    <3>1. PICK text \in Seq(Char) : text = Slashes(h)
      BY <2>4
    <3>2. Emit(text) /\ Len(text) = h /\ \A x \in 1 .. Len(text) : text[x] = "slash"
      BY <2>2, <2>4, <2>5, <3>1
    <3>3. edx + Len(text) <= Len(line) + 1 /\ esi <= m
      BY <1>2, <1>6, <2>1, <2>3, <3>2
    <3>4. Count(Lives(p), m - 1) = Count(Lives(p), esi - 1) + Len(text)
      <4>1. m - 1 = esi + n - 1
        BY <1>6, <2>3
      <4>2. Count(L, m - 1) = c + h
        BY <1>8, <4>1 DEF h
      <4>3. QED
        BY <3>2, <4>2 DEF L, c
    <3>5. \A k \in Lives(p) : esi <= k /\ k < m => line[k] = "slash"
      <4>1. \A k \in Lives(p) : esi <= k /\ k < m => k \in esi .. esi + n - 1
        BY <1>6, <1>7, <2>3 DEF L
      <4>2. QED
        BY <1>9, <4>1
    <3>6. \A k \in Lives(p) : esi <= k /\ k < m =>
            \A x \in 1 .. Len(text) :
              x = Count(Lives(p), k) - Count(Lives(p), esi - 1) => text[x] = line[k]
      BY <3>2, <3>5
    <3>7. /\ Emit(text) /\ esi' = m /\ p <= esi /\ Compact(p)
          /\ line' = line /\ version' = version
      BY <1>1, <1>2, <1>5, <1>6, <3>2
    <3>8. QED
      BY <3>3, <3>4, <3>6, <3>7, EmitCompact
  <2>7. \A j \in esi .. m - 1 : ~Parts(line, j) /\ ~Delimits(line, j)
    <3>1. \A j \in esi .. m - 1 : j \in esi .. esi + n - 1
      BY <1>6, <2>3
    <3>2. QED
      BY <1>9, <3>1
  <2>8. m <= Len(line) => /\ line[m] = "slash" => m = 1 \/ line[m - 1] # "slash"
                          /\ line[m] = "quote" => Behind(line, m) % 2 = 0
    <3>1. m <= Len(line) => line[m] # "slash"
      BY <1>4, <2>3 DEF Run
    <3>2. Behind(line, m) = n
      <4>1. n \in 0 .. n
        OBVIOUS
      <4>2. QED
        BY <1>4, <1>6, <2>3, <4>1, RunBehind
    <3>3. m <= Len(line) /\ line[m] = "quote" => n % 2 = 0
      BY <1>4, <1>10, <1>11, <2>3 DEF AtQuote
    <3>4. QED
      BY <3>1, <3>2, <3>3
  <2>9. quoting' <=> Inside(line, m)
    <3>1. esi <= m
      BY <1>6, <2>3
    <3>2. Inside(line, m) <=> Inside(line, esi)
      BY <1>6, <2>7, <3>1, InsideFlat
    <3>3. QED
      BY <1>2, <3>2
  <2>10. esi <= m
    BY <1>6, <2>3
  <2> HIDE DEF h
  <2>11. \A j \in esi .. m - 1 : ~Parts(line, j)
    BY <2>7
  <2>12. esi' = m
    BY <1>5
  <2>13. QED
    BY <1>1, <1>2, <1>6, <2>6, <2>8, <2>9, <2>10, <2>11, <2>12, ScanningStep
<1>12. CASE mem[esi + n] = "quote" /\ n % 2 = 1
  <2> DEFINE h == n \div 2
             t == Append(Slashes(h), "quote")
  <2>1. h \in Nat /\ h + 1 <= n
    BY <1>10, <1>12
  <2>2. Emit(t) /\ esi' = esi + n + 1
    BY <1>2, <1>3, <1>12 DEF Backslashes, Survive, Literal
  <2>3. m = esi + n + 1
    BY <1>5, <2>2
  <2>4. Slashes(h) \in Seq(Char) /\ Len(Slashes(h)) = h
    BY <2>1, SlashesType
  <2>5. \A x \in 1 .. h : Slashes(h)[x] = "slash"
    BY DEF Slashes
  <2> HIDE DEF h
  <2>6. /\ t \in Seq(Char) /\ Len(t) = h + 1 /\ t[h + 1] = "quote"
        /\ \A x \in 1 .. h : t[x] = "slash"
    <3>1. "quote" \in Char
      BY DEF Char
    <3>2. QED
      BY <2>1, <2>4, <2>5, <3>1
  <2>7. /\ AtQuote(line, esi, n) /\ line[esi + n] = "quote"
        /\ ~Delimits(line, esi + n) /\ Survives(line, esi + n)
        /\ ~Parts(line, esi + n)
    <3>1. AtQuote(line, esi, n) /\ line[esi + n] = "quote"
      BY <1>4, <1>12 DEF AtQuote
    <3>2. ~Delimits(line, esi + n) /\ Survives(line, esi + n)
      <4>1. n % 2 = 1 /\ ~(n % 2 = 0)
        BY <1>12
      <4>2. /\ Delimits(line, esi + n) <=> n % 2 = 0
            /\ Survives(line, esi + n) <=> n % 2 = 1
        BY <1>4, <1>6, <3>1, RunQuote
      <4>3. QED
        BY <4>1, <4>2
    <3>3. ~Parts(line, esi + n)
      BY <3>1 DEF Parts, Separator
    <3>4. QED
      BY <3>1, <3>2, <3>3
  <2>8. esi + n \in 1 .. Len(line) /\ p \in 1 .. esi + n /\ esi + n - 1 \in Int
    BY <1>6, <2>7 DEF AtQuote
  <2>9. Count(L, esi + n - 1) = c + h
    BY <1>8, <2>7 DEF h
  <2>10. Count(L, esi + n) = c + h + 1
    <3>1. Count(L, esi + n) = Count(L, esi + n - 1) + 1
      BY <1>6, <2>7, <2>8, CountOne DEF L
    <3>2. QED
      BY <2>9, <3>1
  <2> HIDE DEF t
  <2>11. Compact(p)' /\ \A k \in 1 .. p - 1 : mem'[k] = mem[k]
    <3>1. PICK text \in Seq(Char) : text = t
      BY <2>6
    <3>2. /\ Emit(text) /\ Len(text) = h + 1 /\ text[h + 1] = "quote"
          /\ \A x \in 1 .. h : text[x] = "slash"
      BY <2>2, <2>6, <3>1
    <3>3. edx + Len(text) <= Len(line) + 1 /\ esi <= m
      BY <1>2, <1>6, <2>1, <2>3, <3>2
    <3>4. Count(Lives(p), m - 1) = Count(Lives(p), esi - 1) + Len(text)
      <4>1. m - 1 = esi + n
        BY <1>6, <2>3
      <4>2. QED
        BY <1>7, <2>1, <2>10, <3>2, <4>1 DEF L, c
    <3>5. ASSUME NEW k \in L, esi <= k /\ k < m, NEW x \in 1 .. Len(text),
                 x = Count(L, k) - c
          PROVE  text[x] = line[k]
      <4>1. k \in Int /\ Count(L, k) \in Nat
        BY <1>7, CountType
      <4>2. CASE k = esi + n
        <5>1. x = h + 1
          BY <1>7, <2>1, <2>10, <3>5, <4>2
        <5>2. QED
          BY <2>7, <3>2, <4>2, <5>1
      <4>3. CASE k # esi + n
        <5>1. k \in esi .. esi + n - 1 /\ k <= esi + n - 1
          BY <1>6, <2>3, <3>5, <4>1, <4>3
        <5>2. Count(L, k) <= Count(L, esi + n - 1)
          BY <1>7, <2>8, <4>1, <5>1, CountUp
        <5>3. x \in 1 .. h
          BY <1>7, <2>1, <2>9, <3>5, <4>1, <5>2
        <5>4. QED
          BY <1>9, <3>2, <5>1, <5>3
      <4>4. QED
        BY <4>2, <4>3
    <3>6. \A k \in Lives(p) : esi <= k /\ k < m =>
            \A x \in 1 .. Len(text) :
              x = Count(Lives(p), k) - Count(Lives(p), esi - 1) => text[x] = line[k]
      BY <3>5 DEF L, c
    <3>7. /\ Emit(text) /\ esi' = m /\ p <= esi /\ Compact(p)
          /\ line' = line /\ version' = version
      BY <1>1, <1>2, <1>5, <1>6, <3>2
    <3>8. QED
      BY <3>3, <3>4, <3>6, <3>7, EmitCompact
  <2>12. \A j \in esi .. m - 1 : ~Parts(line, j) /\ ~Delimits(line, j)
    <3>1. \A j \in esi .. m - 1 : j \in esi .. esi + n - 1 \/ j = esi + n
      BY <1>6, <2>3
    <3>2. QED
      BY <1>9, <2>7, <3>1
  <2>13. m <= Len(line) => /\ line[m] = "slash" => m = 1 \/ line[m - 1] # "slash"
                           /\ line[m] = "quote" => Behind(line, m) % 2 = 0
    <3>1. m \in Nat \ {0} /\ m - 1 = esi + n /\ line[m - 1] # "slash"
      BY <1>6, <2>3, <2>7
    <3>2. Behind(line, m) = 0
      BY <3>1, BehindNone
    <3>3. QED
      BY <3>1, <3>2
  <2>14. esi <= m
    BY <1>6, <2>3
  <2>15. quoting' <=> Inside(line, m)
    <3>1. Inside(line, m) <=> Inside(line, esi)
      BY <1>6, <2>12, <2>14, InsideFlat
    <3>2. QED
      BY <1>2, <3>1
  <2>16. \A j \in esi .. m - 1 : ~Parts(line, j)
    BY <2>12
  <2>17. esi' = m
    BY <1>5
  <2>18. QED
    BY <1>1, <1>2, <1>6, <2>11, <2>13, <2>14, <2>15, <2>16, <2>17, ScanningStep
<1>13. QED
  BY <1>10, <1>11, <1>12

(* What is compacted when the argument ends is the argument. *)
LEMMA CompactedIs ==
  ASSUME TypeOK, NEW p \in Nat \ {0}, p <= esi, Compact(p),
         \A j \in p .. esi - 1 : ~Parts(line, j),
         esi <= Len(line) => Parts(line, esi),
         mem' = [mem EXCEPT ![edx] = NUL]
  PROVE  /\ p <= edx /\ mem'[edx] = NUL
         /\ \A j \in p .. edx - 1 : mem'[j] \in Char
         /\ SubSeq(mem', p, edx - 1) = Argument(line, p)
<1> DEFINE L == Lives(p)
           c == Count(L, esi - 1)
           kept == {k \in p .. Len(line) : /\ Survives(line, k)
                                           /\ \A j \in p .. k : ~Parts(line, j)}
<1>1. /\ esi \in Nat \ {0} /\ edx \in Nat \ {0} /\ Len(line) \in Nat /\ line \in Seq(Char)
      /\ esi <= Len(line) + 1 /\ edx <= Len(line) + 1
      /\ mem \in [1 .. Len(line) + 1 -> Char \cup {NUL}]
  BY DEF TypeOK
<1>2. /\ L \subseteq Int /\ IsFiniteSet(L) /\ c \in Nat
      /\ \A k \in L : k >= p /\ k <= Len(line)
  BY <1>1, LivesType, CountType
<1>3. /\ edx = p + c
      /\ \A k \in L : k < esi => mem[p + Count(L, k) - 1] = line[k]
      /\ \A j \in p .. edx - 1 : mem[j] \in Char
  BY DEF Compact
<1>4. \A k : k \in kept <=> k \in L /\ k <= esi - 1
  <2>1. ASSUME NEW k \in kept PROVE k \in L /\ k <= esi - 1
    <3>1. k \in L /\ k \in Int /\ k >= p /\ k <= Len(line)
      BY DEF Lives
    <3>2. ~(k >= esi)
      <4>1. k >= esi => esi \in p .. k /\ esi <= Len(line)
        BY <1>1, <3>1
      <4>2. QED
        BY <4>1
    <3>3. QED
      BY <1>1, <3>1, <3>2
  <2>2. ASSUME NEW k \in L, k <= esi - 1 PROVE k \in kept
    <3>1. k \in p .. Len(line) /\ Survives(line, k)
      BY DEF Lives
    <3>2. \A j \in p .. k : j \in p .. esi - 1
      BY <1>1, <2>2, <3>1
    <3>3. QED
      BY <3>1, <3>2
  <2>3. QED
    BY <2>1, <2>2
<1>5. kept \in SUBSET (1 .. Len(line))
  <2>1. \A k \in p .. Len(line) : k \in 1 .. Len(line)
    BY <1>1
  <2>2. QED
    BY <2>1
<1>6. Argument(line, p) = [n \in 1 .. Cardinality(kept) |-> line[Ascending(kept)[n]]]
  BY DEF Argument
<1> HIDE DEF L, kept
<1>7. Cardinality(kept) = c
  <2>1. kept = {k \in L : k <= esi - 1}
    BY <1>4
  <2>2. QED
    BY <2>1 DEF Count
<1> HIDE DEF c
<1>8. ASSUME NEW n \in 1 .. c PROVE mem[n + p - 1] = line[Ascending(kept)[n]]
  <2>1. Ascending(kept)[n] \in kept /\ Count(kept, Ascending(kept)[n]) = n
    BY <1>1, <1>5, <1>7, AscendingIs
  <2>2. PICK k \in kept : k = Ascending(kept)[n]
    BY <2>1
  <2>3. k \in L /\ k <= esi - 1 /\ k \in Int
    BY <1>2, <1>4
  <2>4. Count(kept, k) = Count(L, k)
    <3>1. \A j : (j \in kept /\ j <= k) <=> (j \in L /\ j <= k)
      <4>1. \A j \in L : j <= k => j <= esi - 1
        BY <1>1, <1>2, <2>3
      <4>2. QED
        BY <1>4, <4>1
    <3>2. QED
      BY <3>1, CountSame
  <2>5. Count(L, k) = n /\ k < esi
    BY <1>1, <2>1, <2>2, <2>3, <2>4
  <2>6. mem[p + Count(L, k) - 1] = line[k]
    BY <1>3, <2>3, <2>5
  <2>7. p + Count(L, k) - 1 = n + p - 1
    BY <2>5
  <2>8. QED
    BY <2>2, <2>6, <2>7
<1>9. p <= edx /\ edx - 1 - p + 1 = c
  BY <1>1, <1>2, <1>3
<1>10. \A j \in p .. edx - 1 : j \in 1 .. Len(line) + 1 /\ j # edx
  BY <1>1
<1>11. mem'[edx] = NUL /\ \A j \in p .. edx - 1 : mem'[j] = mem[j]
  BY <1>1, <1>10
<1>12. SubSeq(mem', p, edx - 1) = [n \in 1 .. c |-> mem'[n + p - 1]]
  <2>1. PICK e \in Nat : e = edx - 1
    <3>1. edx - 1 \in Nat
      BY <1>1
    <3>2. QED
      BY <3>1
  <2>2. SubSeq(mem', p, e) = [n \in 1 .. e - p + 1 |-> mem'[n + p - 1]]
    OBVIOUS
  <2>3. QED
    BY <1>9, <2>1, <2>2
<1>13. \A n \in 1 .. c : mem'[n + p - 1] = line[Ascending(kept)[n]]
  <2>1. \A n \in 1 .. c : n + p - 1 \in p .. edx - 1
    BY <1>1, <1>2, <1>3
  <2>2. QED
    BY <1>8, <1>11, <2>1
<1>14. SubSeq(mem', p, edx - 1) = Argument(line, p)
  BY <1>6, <1>7, <1>12, <1>13
<1>15. QED
  BY <1>3, <1>9, <1>11, <1>14

LEMMA FinishSkips ==
  ASSUME TypeOK, UnreadIntact, Trails, Scanning, Finish, TypeOK'
  PROVE  Skipping'
<1>1. PICK p \in Nat \ {0} : p = argv[Len(argv)] /\ p \in 1 .. esi /\ Compact(p)
  BY ScanningIs
<1>2. /\ mem[esi] = NUL \/ (~quoting /\ Separator(mem[esi]))
      /\ mem' = [mem EXCEPT ![edx] = NUL] /\ edx <= esi /\ edx' = edx
      /\ line' = line /\ version' = version /\ argv' = argv
      /\ (quoting <=> Inside(line, esi)) /\ Recorded(esi) /\ Len(argv) > 0
  BY DEF Finish, Escaping, Trails, Scanning, given
<1>3. /\ esi \in Nat \ {0} /\ esi <= Len(line) + 1 /\ edx \in Nat \ {0}
      /\ Len(line) \in Nat /\ line \in Seq(Char)
      /\ mem[esi] = NUL <=> esi = Len(line) + 1
      /\ mem[esi] # NUL => esi <= Len(line) /\ mem[esi] = line[esi]
  BY LineAhead DEF TypeOK
<1>4. /\ Reading(p) /\ argv \in Seq(1 .. Len(line) + 1) /\ Len(argv) \in Nat
  BY <1>1 DEF Scanning, TypeOK
<1>5. PICK m \in Nat : m = esi'
  BY DEF TypeOK
<1>6. \/ m = esi /\ esi = Len(line) + 1
      \/ m = esi + 1 /\ esi <= Len(line) /\ Parts(line, esi)
  BY <1>2, <1>3, <1>5 DEF Finish, PastCut, Parts
<1>7. /\ p <= edx /\ mem'[edx] = NUL
      /\ \A j \in p .. edx - 1 : mem'[j] \in Char
      /\ SubSeq(mem', p, edx - 1) = Argument(line, p)
  <2>1. /\ p <= esi /\ \A j \in p .. esi - 1 : ~Parts(line, j)
        /\ esi <= Len(line) => Parts(line, esi)
    BY <1>3, <1>4, <1>6 DEF Reading
  <2>2. QED
    BY <1>1, <1>2, <2>1, CompactedIs
<1> DEFINE b == IF m <= Len(line) THEN m ELSE Len(line) + 2
<1>8. PICK l \in Int : l = b
  BY <1>3
<1>9. edx < l /\ p < l
  BY <1>2, <1>3, <1>6, <1>7, <1>8
<1>10. DoneAt(p, l)'
  <2>1. PICK e \in Nat : e = edx
    BY <1>3
  <2>2. e \in p .. l - 1
    BY <1>7, <1>9, <2>1
  <2>3. Argument(line, p)' = Argument(line, p)
    BY <1>2, SameRule
  <2>4. /\ mem'[e] = NUL /\ \A j \in p .. e - 1 : mem'[j] \in Char
        /\ SubSeq(mem', p, e - 1) = Argument(line, p)
    BY <1>7, <2>1
  <2>5. SubSeq(mem, p, e - 1)' = Argument(line, p)'
    BY <2>3, <2>4
  <2>6. QED
    BY <2>2, <2>4, <2>5 DEF DoneAt
<1>11. \A n \in 1 .. Len(argv) - 1 : DoneAt(argv[n], l)'
  <2>1. PICK N \in Nat : N = Len(argv) - 1
    <3>1. Len(argv) - 1 \in Nat
      BY <1>2, <1>4
    <3>2. QED
      BY <3>1
  <2>2. \A n \in 1 .. N : DoneAt(argv[n], p) /\ argv'[n] = argv[n]
    BY <1>2, <1>4, <2>1 DEF Reading
  <2>3. p \in Int /\ p <= l /\ p <= Len(line) + 2 /\ N <= Len(argv)
    BY <1>1, <1>3, <1>4, <1>9, <2>1
  <2>4. \A k \in 1 .. p - 1 : mem'[k] = mem[k]
    <3>1. \A k \in 1 .. p - 1 : k # edx /\ k \in 1 .. Len(line) + 1
      BY <1>1, <1>3, <1>7
    <3>2. QED
      BY <1>2, <3>1 DEF TypeOK
  <2>5. mem' \in [1 .. Len(line) + 1 -> Char \cup {NUL}]
    BY <1>2 DEF TypeOK
  <2>6. \A n \in 1 .. N : DoneAt(argv[n], l)'
    BY <1>2, <2>2, <2>3, <2>4, <2>5, DonesKept
  <2>7. QED
    BY <2>1, <2>6
<1>12. \A n \in 1 .. Len(argv) : DoneAt(argv[n], l)'
  <2>1. DoneAt(argv[Len(argv)], l)'
    <3>1. argv'[Len(argv')] = p
      BY <1>1, <1>2
    <3>2. QED
      BY <1>10, <3>1 DEF DoneAt
  <2>2. ASSUME NEW n \in 1 .. Len(argv) PROVE DoneAt(argv[n], l)'
    <3>1. CASE n = Len(argv)
      <4>1. argv'[n] = p
        BY <1>1, <1>2, <3>1
      <4>2. QED
        BY <1>10, <4>1 DEF DoneAt
    <3>2. CASE n # Len(argv)
      <4>1. n \in 1 .. Len(argv) - 1
        BY <1>4, <3>2
      <4>2. QED
        BY <1>11, <4>1
    <3>3. QED
      BY <3>1, <3>2
  <2>3. QED
    BY <2>2
<1>13. Recorded(m - 1)
  <2>1. CASE m = esi + 1
    <3>1. m - 1 = esi
      BY <1>3, <2>1
    <3>2. QED
      BY <1>2, <3>1
  <2>2. CASE m = esi /\ esi = Len(line) + 1
    <3>1. m - 1 = Len(line)
      BY <1>3, <2>2
    <3>2. \A f \in Firsts(line) : f <= Len(line) /\ f <= esi
      BY <1>3, <2>2, FirstsType
    <3>3. \A f : (f \in Firsts(line) /\ f <= esi) <=> (f \in Firsts(line) /\ f <= m - 1)
      BY <3>1, <3>2
    <3>4. Count(Firsts(line), esi) = Count(Firsts(line), m - 1)
      BY <3>3, CountSame
    <3>5. QED
      BY <1>2, <3>2, <3>4 DEF Recorded
  <2>3. QED
    BY <1>6, <2>1, <2>2
<1>14. m <= Len(line) => ~Inside(line, m) /\ Between(m)
  <2>1. ASSUME m <= Len(line) PROVE ~Inside(line, m) /\ Between(m)
    <3>1. m = esi + 1 /\ Parts(line, esi) /\ m - 1 = esi
      BY <1>3, <1>6, <2>1
    <3>2. ~Delimits(line, esi) /\ ~Inside(line, esi)
      BY <3>1 DEF Parts, Separator, Delimits
    <3>3. ~Inside(line, esi + 1)
      BY <1>3, <3>2, InsideNext
    <3>4. QED
      BY <3>1, <3>3 DEF Between
  <2>2. QED
    BY <2>1
<1>15. /\ Firsts(line)' = Firsts(line)
       /\ \A i : Between(i)' <=> Between(i)
       /\ \A i : Inside(line, i)' <=> Inside(line, i)
  BY <1>2, SameRule
<1>16. Recorded(esi - 1)'
  BY <1>2, <1>5, <1>13, <1>15 DEF Recorded, Count
<1>17. (esi <= Len(line) => ~Inside(line, esi) /\ Between(esi))'
  BY <1>2, <1>5, <1>14 DEF Between, Inside, Delimits, Behind, Parts, Separator
<1>18. \A n \in 1 .. Len(argv') :
         DoneAt(argv[n], IF esi <= Len(line) THEN esi ELSE Len(line) + 2)'
  <2>1. l = IF esi' <= Len(line') THEN esi' ELSE Len(line') + 2
    BY <1>2, <1>5, <1>8
  <2>2. QED
    BY <1>2, <1>12, <2>1 DEF DoneAt
<1>19. QED
  BY <1>16, <1>17, <1>18 DEF Skipping

LEMMA StartScans ==
  ASSUME TypeOK, UnreadIntact, Skipping, StartToken, TypeOK'
  PROVE  Scanning'
<1>1. /\ mem[esi] # NUL /\ ~Separator(mem[esi])
      /\ edx' = esi /\ quoting' = FALSE /\ argv' = Append(argv, esi)
      /\ line' = line /\ version' = version /\ mem' = mem /\ esi' = esi
  BY DEF StartToken, given
<1>2. /\ esi \in Nat \ {0} /\ esi <= Len(line) /\ mem[esi] = line[esi]
      /\ Len(line) \in Nat /\ line \in Seq(Char)
  BY <1>1, LineAhead
<1>3. PICK p \in Nat \ {0} : p = esi
  BY <1>2
<1>4. ~Inside(line, p) /\ Between(p) /\ Recorded(p - 1) /\ ~Parts(line, p)
  BY <1>1, <1>2, <1>3 DEF Skipping, Parts
<1>5. /\ argv \in Seq(1 .. Len(line) + 1) /\ Len(argv) \in Nat
      /\ Len(argv') = Len(argv) + 1 /\ argv'[Len(argv) + 1] = p
      /\ \A n \in 1 .. Len(argv) : argv'[n] = argv[n]
  BY <1>1, <1>3 DEF TypeOK
<1>6. /\ Firsts(line)' = Firsts(line) /\ Lives(p)' = Lives(p)
      /\ \A i : Parts(line, i)' <=> Parts(line, i)
      /\ \A i : Between(i)' <=> Between(i)
      /\ \A i : Inside(line, i)' <=> Inside(line, i)
  BY <1>1, SameRule
<1>7. Recorded(esi)'
  <2>1. /\ Firsts(line) \subseteq Int /\ IsFiniteSet(Firsts(line))
        /\ \A f \in Firsts(line) : f \in Int
    BY <1>2, FirstsType
  <2>2. p \in Firsts(line)
    BY <1>2, <1>3, <1>4 DEF Firsts, Between
  <2>3. Count(Firsts(line), p) = Count(Firsts(line), p - 1) + 1
    BY <2>1, <2>2, CountNext
  <2>4. Len(argv') = Count(Firsts(line), p)
    BY <1>4, <1>5, <2>3 DEF Recorded
  <2>5. ASSUME NEW f \in Firsts(line), f <= p
        PROVE  argv'[Count(Firsts(line), f)] = f
    <3>1. CASE f = p
      BY <1>5, <2>4, <3>1
    <3>2. CASE f # p
      <4>1. f <= p - 1 /\ f \in Int /\ p - 1 \in Int
        BY <2>1, <2>5, <3>2
      <4>2. argv[Count(Firsts(line), f)] = f /\ Len(argv) = Count(Firsts(line), p - 1)
        BY <1>4, <4>1 DEF Recorded
      <4>3. Count(Firsts(line), f) <= Len(argv)
        BY <2>1, <4>1, <4>2, CountUp
      <4>4. Count(Firsts(line), f) = Count(Firsts(line), f - 1) + 1
            /\ Count(Firsts(line), f - 1) \in Nat
        BY <2>1, <2>5, CountNext, CountType
      <4>5. Count(Firsts(line), f) \in 1 .. Len(argv)
        BY <1>5, <4>3, <4>4
      <4>6. QED
        BY <1>5, <4>2, <4>5
    <3>3. QED
      BY <3>1, <3>2
  <2>6. QED
    BY <1>1, <1>3, <1>6, <2>4, <2>5 DEF Recorded, Count
<1>8. Compact(p)'
  <2>1. \A k \in Lives(p) : ~(k <= p - 1) /\ ~(k < p)
    BY <1>2, LivesType
  <2>2. Count(Lives(p), p - 1) = 0
    BY <2>1, CountZero
  <2>3. edx' = p /\ esi' = p
    BY <1>1, <1>3
  <2>4. edx' = p + Count(Lives(p)', esi' - 1)
    BY <1>6, <2>2, <2>3
  <2>5. \A k \in Lives(p)' : ~(k < esi')
    BY <1>6, <2>1, <2>3
  <2>6. \A j \in p .. edx' - 1 : FALSE
    BY <2>3
  <2>7. QED
    BY <2>4, <2>5, <2>6 DEF Compact, Count
<1>9. \A n \in 1 .. Len(argv') - 1 : DoneAt(argv[n], p)'
  <2>1. PICK N \in Nat : N = Len(argv)
    BY <1>5
  <2>2. \A n \in 1 .. N : DoneAt(argv[n], p) /\ argv'[n] = argv[n]
    BY <1>2, <1>3, <1>5, <2>1 DEF Skipping
  <2>3. p \in Int /\ p <= p /\ p <= Len(line) + 2 /\ N <= Len(argv)
    BY <1>2, <1>3, <1>5, <2>1
  <2>4. mem' \in [1 .. Len(line) + 1 -> Char \cup {NUL}]
    BY <1>1 DEF TypeOK
  <2>5. \A n \in 1 .. N : DoneAt(argv[n], p)'
    BY <1>1, <2>2, <2>3, <2>4, DonesKept
  <2>6. Len(argv') - 1 = N
    BY <1>5, <2>1
  <2>7. QED
    BY <2>5, <2>6
<1>10. Reading(p)'
  <2>1. p <= esi' /\ \A j \in p .. esi' - 1 : FALSE
    BY <1>1, <1>3
  <2>2. QED
    BY <1>4, <1>6, <1>8, <1>9, <2>1 DEF Reading
<1>11. Ready'
  <2>1. Between(p) => p = 1 \/ line[p - 1] # "slash"
    BY DEF Between, Parts, Separator
  <2>2. Behind(line, p) = 0
    BY <1>4, <2>1, BehindNone
  <2>3. 0 % 2 = 0
    OBVIOUS
  <2>4. Behind(line', esi') % 2 = 0 /\ (esi' = 1 \/ line'[esi' - 1] # "slash")
    BY <1>1, <1>3, <1>4, <2>1, <2>2, <2>3
  <2>5. QED
    BY <2>4 DEF Ready, Behind
<1>12. (quoting <=> Inside(line, esi))'
  <2>1. ~Inside(line', esi')
    BY <1>1, <1>3, <1>4, <1>6 DEF Inside, Delimits, Behind
  <2>2. QED
    BY <1>1, <2>1 DEF Inside, Delimits, Behind
<1>13. Len(argv') > 0 /\ argv'[Len(argv')] = p
  BY <1>5
<1>14. Reading(argv[Len(argv)])'
  BY <1>10, <1>13 DEF Reading, Compact, Lives, Between
<1>15. QED
  BY <1>7, <1>11, <1>12, <1>13, <1>14 DEF Scanning

LEMMA SkipSkips ==
  ASSUME TypeOK, UnreadIntact, Skipping, Skip
  PROVE  Skipping'
<1>1. /\ Separator(mem[esi]) /\ esi' = esi + 1
      /\ line' = line /\ version' = version /\ mem' = mem /\ argv' = argv
  BY DEF Skip, SkipTo, given
<1>2. /\ esi \in Nat \ {0} /\ esi <= Len(line) /\ mem[esi] = line[esi]
      /\ Len(line) \in Nat /\ line \in Seq(Char)
  BY <1>1, LineAhead DEF Separator, NUL
<1>3. PICK m \in Nat \ {0} : m = esi
  BY <1>2
<1>4. Parts(line, m) /\ ~Delimits(line, m) /\ ~Inside(line, m) /\ Recorded(m - 1)
  BY <1>1, <1>2, <1>3 DEF Skipping, Parts, Delimits, Separator
<1>5. ~Inside(line, m + 1) /\ Between(m + 1)
  <2>1. ~Inside(line, m + 1)
    BY <1>4, InsideNext
  <2>2. m + 1 - 1 = m
    OBVIOUS
  <2>3. QED
    BY <1>4, <2>1, <2>2 DEF Between
<1>6. /\ Firsts(line)' = Firsts(line)
      /\ \A i : Between(i)' <=> Between(i)
      /\ \A i : Inside(line, i)' <=> Inside(line, i)
  BY <1>1, SameRule
<1>7. Recorded(m)
  <2>1. /\ Firsts(line) \subseteq Int /\ IsFiniteSet(Firsts(line))
        /\ \A f \in Firsts(line) : f \in Int
    BY <1>2, FirstsType
  <2>2. m \notin Firsts(line)
    BY <1>4 DEF Firsts
  <2>3. Count(Firsts(line), m) = Count(Firsts(line), m - 1)
    BY <2>1, <2>2, CountNext
  <2>4. \A f \in Firsts(line) : f <= m => f <= m - 1
    <3>1. \A f \in Firsts(line) : f # m
      BY <2>2
    <3>2. QED
      BY <2>1, <3>1
  <2>5. QED
    BY <1>4, <2>3, <2>4 DEF Recorded
<1>8. Recorded(esi - 1)'
  <2>1. esi' - 1 = m
    BY <1>1, <1>3
  <2>2. QED
    BY <1>1, <1>6, <1>7, <2>1 DEF Recorded, Count
<1>9. (esi <= Len(line) => ~Inside(line, esi) /\ Between(esi))'
  <2>1. PICK q \in Nat : q = m + 1
    OBVIOUS
  <2>2. esi' = q /\ ~Inside(line, q) /\ Between(q)
    BY <1>1, <1>3, <1>5, <2>1
  <2>3. (~Inside(line, esi))'
    BY <1>1, <2>2 DEF Inside, Delimits, Behind
  <2>4. Between(esi)'
    BY <1>1, <1>6, <2>2 DEF Between, Parts, Inside, Delimits, Behind, Separator
  <2>5. QED
    BY <2>3, <2>4
<1>10. \A n \in 1 .. Len(argv') :
         DoneAt(argv[n], IF esi <= Len(line) THEN esi ELSE Len(line) + 2)'
  <2> DEFINE b == IF esi' <= Len(line') THEN esi' ELSE Len(line') + 2
  <2>1. PICK l \in Int : l = b
    BY <1>1, <1>2
  <2>2. PICK N \in Nat : N = Len(argv)
    BY DEF TypeOK
  <2>3. \A n \in 1 .. N : DoneAt(argv[n], m) /\ argv'[n] = argv[n]
    BY <1>1, <1>2, <1>3, <2>2 DEF Skipping
  <2>4. m \in Int /\ m <= l /\ m <= Len(line) + 2 /\ N <= Len(argv)
    BY <1>1, <1>2, <1>3, <2>1, <2>2
  <2>5. mem' \in [1 .. Len(line) + 1 -> Char \cup {NUL}]
    BY <1>1 DEF TypeOK
  <2>6. \A n \in 1 .. N : DoneAt(argv[n], l)'
    BY <1>1, <2>3, <2>4, <2>5, DonesKept
  <2>7. QED
    BY <1>1, <2>1, <2>2, <2>6 DEF DoneAt
<1>11. QED
  BY <1>8, <1>9, <1>10 DEF Skipping

LEMMA NoTokenSplits ==
  ASSUME TypeOK, UnreadIntact, Skipping, NoToken
  PROVE  Split'
<1>1. /\ mem[esi] = NUL /\ esi' = esi
      /\ line' = line /\ version' = version /\ mem' = mem /\ argv' = argv
  BY DEF NoToken, given
<1>2. esi = Len(line) + 1 /\ Len(line) \in Nat /\ line \in Seq(Char)
  BY <1>1, LineAhead
<1>3. PICK m \in Nat : m = Len(line)
  BY <1>2
<1>4. Recorded(m)
  <2>1. esi - 1 = m
    BY <1>2, <1>3
  <2>2. QED
    BY <2>1 DEF Skipping
<1>5. Firsts(line)' = Firsts(line)
  BY <1>1, SameRule
<1>6. Recorded(Len(line))'
  BY <1>1, <1>3, <1>4, <1>5 DEF Recorded, Count
<1>7. \A n \in 1 .. Len(argv') : DoneAt(argv[n], Len(line) + 2)'
  <2>1. PICK N \in Nat : N = Len(argv)
    BY DEF TypeOK
  <2>2. PICK l \in Int : l = Len(line) + 2
    BY <1>2
  <2>3. ~(esi <= Len(line))
    BY <1>2
  <2>4. \A n \in 1 .. N : DoneAt(argv[n], l) /\ argv'[n] = argv[n]
    BY <1>1, <2>1, <2>2, <2>3 DEF Skipping
  <2>5. l <= l /\ l <= Len(line) + 2 /\ N <= Len(argv)
    BY <1>2, <2>1, <2>2
  <2>6. mem' \in [1 .. Len(line) + 1 -> Char \cup {NUL}]
    BY <1>1 DEF TypeOK
  <2>7. \A n \in 1 .. N : DoneAt(argv[n], l)'
    BY <1>1, <2>4, <2>5, <2>6, DonesKept
  <2>8. QED
    BY <1>1, <2>1, <2>2, <2>7 DEF DoneAt
<1>8. QED
  BY <1>6, <1>7 DEF Split

LEMMA InitByTheRule == Init => ByTheRule
<1> SUFFICES ASSUME Init PROVE ByTheRule
  OBVIOUS
<1>1. /\ line \in Seq(Char) /\ Len(line) \in Nat
      /\ pc = "skip" /\ esi = 1 /\ argv = << >>
  BY LineAssumption DEF Init
<1>2. ~Inside(line, 1) /\ Between(1)
  BY InsideFirst DEF Between
<1>3. Recorded(1 - 1)
  <2>1. \A f \in Firsts(line) : ~(f <= 1 - 1)
    BY <1>1, FirstsType
  <2>2. Count(Firsts(line), 1 - 1) = 0
    BY <2>1, CountZero
  <2>3. QED
    BY <1>1, <2>1, <2>2 DEF Recorded
<1>4. \A n \in 1 .. Len(argv) : FALSE
  BY <1>1
<1>5. Skipping
  BY <1>1, <1>2, <1>3, <1>4 DEF Skipping
<1>6. QED
  BY <1>1, <1>5 DEF ByTheRule

LEMMA NextByTheRule == IInv /\ IInv' /\ ByTheRule /\ [Next]_vars => ByTheRule'
<1> SUFFICES ASSUME IInv, IInv', ByTheRule, [Next]_vars PROVE ByTheRule'
  OBVIOUS
<1>1. /\ TypeOK /\ UnreadIntact /\ Trails /\ TypeOK'
      /\ mem' \in [1 .. Len(line') + 1 -> Char \cup {NUL}]
      /\ esi' \in 1 .. Len(line') + 1
  BY DEF IInv, TypeOK
<1>2. CASE Skip
  <2>1. pc = "skip" /\ pc' = "skip" /\ version' = version
    BY <1>2 DEF Skip, given
  <2>2. version.escapes => Skipping'
    BY <1>1, <1>2, <2>1, SkipSkips DEF ByTheRule
  <2>3. QED
    BY <2>1, <2>2 DEF ByTheRule
<1>3. CASE NoToken
  <2>1. pc = "skip" /\ pc' = "end" /\ version' = version
    BY <1>3 DEF NoToken, given
  <2>2. version.escapes => Split'
    BY <1>1, <1>3, <2>1, NoTokenSplits DEF ByTheRule
  <2>3. QED
    BY <2>1, <2>2 DEF ByTheRule
<1>4. CASE StartQuoted
  BY <1>4 DEF StartQuoted, given, ByTheRule
<1>5. CASE StartToken
  <2>1. pc = "skip" /\ pc' = "scan" /\ version' = version
    BY <1>5 DEF StartToken, given
  <2>2. version.escapes => Scanning'
    BY <1>1, <1>5, <2>1, StartScans DEF ByTheRule
  <2>3. QED
    BY <2>1, <2>2 DEF ByTheRule
<1>6. CASE Scan
  BY <1>6 DEF Scan, given, ByTheRule
<1>7. CASE Cut
  BY <1>7 DEF Cut, given, ByTheRule
<1>8. CASE LastToken
  BY <1>8 DEF LastToken, given, ByTheRule
<1>9. CASE Keep
  <2>1. /\ pc = "scan" /\ pc' = "scan" /\ version' = version /\ line' = line
        /\ version.escapes
    BY <1>9 DEF Keep, Escaping, given
  <2>2. Scanning'
    BY <1>1, <1>9, <2>1, KeepScans DEF ByTheRule
  <2>3. QED
    BY <2>1, <2>2 DEF ByTheRule
<1>10. CASE Quote
  <2>1. pc = "scan" /\ pc' = "scan" /\ version' = version /\ version.escapes
    BY <1>10 DEF Quote, Escaping, given
  <2>2. Scanning'
    BY <1>1, <1>10, <2>1, QuoteScans DEF ByTheRule
  <2>3. QED
    BY <2>1, <2>2 DEF ByTheRule
<1>11. CASE Backslashes
  <2>1. /\ pc = "scan" /\ pc' = "scan" /\ version' = version /\ line' = line
        /\ version.escapes
    BY <1>11 DEF Backslashes, Escaping, given
  <2>2. Scanning'
    BY <1>1, <1>11, <2>1, BackslashesScan DEF ByTheRule
  <2>3. QED
    BY <2>1, <2>2 DEF ByTheRule
<1>12. CASE Finish
  <2>1. pc = "scan" /\ pc' = "skip" /\ version' = version /\ version.escapes
    BY <1>12 DEF Finish, Escaping, given
  <2>2. Skipping'
    BY <1>1, <1>12, <2>1, FinishSkips DEF ByTheRule
  <2>3. QED
    BY <2>1, <2>2 DEF ByTheRule
<1>13. CASE UNCHANGED vars
  <2>1. /\ line' = line /\ version' = version /\ mem' = mem /\ argv' = argv
        /\ esi' = esi /\ edx' = edx /\ quoting' = quoting /\ pc' = pc
    BY <1>13 DEF vars, given
  <2>2. /\ \A i : Parts(line, i)' <=> Parts(line, i)
        /\ \A i : Between(i)' <=> Between(i)
        /\ \A i : Inside(line, i)' <=> Inside(line, i)
        /\ \A p : Argument(line, p)' = Argument(line, p)
        /\ \A p : Lives(p)' = Lives(p)
        /\ Firsts(line)' = Firsts(line)
    BY <2>1, SameRule
  <2>3. \A m : Recorded(m)' <=> Recorded(m)
    BY <2>1, <2>2 DEF Recorded, Count
  <2>4. \A p, m : DoneAt(p, m)' <=> DoneAt(p, m)
    BY <2>1, <2>2 DEF DoneAt
  <2>5. \A p : Compact(p)' <=> Compact(p)
    BY <2>1, <2>2 DEF Compact, Count
  <2>6. Ready' <=> Ready
    BY <2>1 DEF Ready, Behind
  <2>7. \A p : Reading(p)' <=> Reading(p)
    BY <2>1, <2>2, <2>4, <2>5 DEF Reading
  <2>8. /\ Recorded(esi - 1)' <=> Recorded(esi - 1)
        /\ Recorded(esi)' <=> Recorded(esi)
        /\ Recorded(Len(line))' <=> Recorded(Len(line))
    BY <2>1, <2>2 DEF Recorded, Count
  <2>9. /\ Between(esi)' <=> Between(esi)
        /\ Inside(line, esi)' <=> Inside(line, esi)
    BY <2>1 DEF Between, Parts, Inside, Delimits, Behind, Separator
  <2>10. Split' <=> Split
    BY <2>1, <2>2, <2>8 DEF Split, DoneAt
  <2>11. Skipping' <=> Skipping
    BY <2>1, <2>2, <2>8, <2>9 DEF Skipping, DoneAt
  <2>12. Reading(argv[Len(argv)])' <=> Reading(argv[Len(argv)])
    <3>1. PICK p : p = argv[Len(argv)]
      OBVIOUS
    <3>2. p = argv'[Len(argv')] /\ (Reading(p)' <=> Reading(p))
      BY <2>1, <2>7, <3>1
    <3>3. Reading(argv[Len(argv)])' <=> Reading(p)'
      BY <3>2 DEF Reading, Compact, Lives, Between
    <3>4. QED
      BY <3>1, <3>2, <3>3
  <2>13. Scanning' <=> Scanning
    BY <2>1, <2>6, <2>8, <2>9, <2>12 DEF Scanning
  <2>14. QED
    BY <2>1, <2>10, <2>11, <2>13 DEF ByTheRule
<1>14. QED
  BY <1>2, <1>3, <1>4, <1>5, <1>6, <1>7, <1>8, <1>9, <1>10, <1>11, <1>12, <1>13
     DEF Next

(* The string at a position ends at its first terminator. *)
LEMMA StringIs ==
  ASSUME TypeOK, NEW p \in Nat \ {0}, NEW e \in p .. Len(line) + 2 - 1, mem[e] = NUL,
         \A j \in p .. e - 1 : mem[j] \in Char
  PROVE  StringAt(p) = SubSeq(mem, p, e - 1)
<1> DEFINE Stops(x) == mem[x] = NUL /\ \A j \in p .. x - 1 : mem[j] # NUL
<1>1. Len(line) \in Nat /\ Len(mem) = Len(line) + 1
  BY DEF TypeOK
<1>2. e \in p .. Len(mem) /\ Stops(e)
  BY <1>1, NulIsNoChar
<1>3. ASSUME NEW x \in p .. Len(mem), Stops(x) PROVE x = e
  <2>1. ~(x < e)
    <3>1. x < e => x \in p .. e - 1
      BY <1>1
    <3>2. QED
      BY <1>2, <1>3, <3>1
  <2>2. ~(e < x)
    <3>1. e < x => e \in p .. x - 1
      BY <1>1
    <3>2. QED
      BY <1>2, <1>3, <3>1
  <2>3. QED
    BY <1>1, <2>1, <2>2
<1> HIDE DEF Stops
<1>4. (CHOOSE x \in p .. Len(mem) : Stops(x)) = e
  BY <1>2, <1>3
<1>5. StringAt(p) = SubSeq(mem, p, (CHOOSE x \in p .. Len(mem) : Stops(x)) - 1)
  BY DEF StringAt, Stops
<1>6. QED
  BY <1>4, <1>5

(* At the end, the arguments are read where they were left. *)
LEMMA SplitIsRight == TypeOK /\ Split => Arguments = Argv(line)
<1> SUFFICES ASSUME TypeOK, Split PROVE Arguments = Argv(line)
  OBVIOUS
<1> DEFINE F == Firsts(line)
           first == Ascending(F)
<1>1. /\ Len(line) \in Nat /\ line \in Seq(Char) /\ argv \in Seq(1 .. Len(line) + 1)
      /\ mem \in [1 .. Len(line) + 1 -> Char \cup {NUL}]
  BY DEF TypeOK
<1>2. F \in SUBSET (1 .. Len(line)) /\ \A f \in F : f >= 1 /\ f <= Len(line)
  BY <1>1, FirstsType
<1>3. Len(argv) = Count(F, Len(line)) /\ \A f \in F : argv[Count(F, f)] = f
  BY <1>2 DEF Split, Recorded
<1>4. Count(F, Len(line)) = Cardinality(F)
  <2>1. {f \in F : f <= Len(line)} = F
    BY <1>2
  <2>2. QED
    BY <2>1 DEF Count
<1>5. /\ DOMAIN first = 1 .. Cardinality(F) /\ Cardinality(F) \in Nat
      /\ \A n \in 1 .. Cardinality(F) : first[n] \in F /\ Count(F, first[n]) = n
  <2> HIDE DEF F
  <2>1. QED
    BY <1>1, <1>2, AscendingIs
<1> HIDE DEF F, first
<1>6. DOMAIN argv = DOMAIN first
  BY <1>1, <1>3, <1>4, <1>5
<1>7. \A n \in DOMAIN first : argv[n] = first[n]
  BY <1>3, <1>5
<1>8. ASSUME NEW n \in DOMAIN first PROVE StringAt(argv[n]) = Argument(line, first[n])
  <2>1. PICK p \in F : p = first[n]
    BY <1>5
  <2>2. p \in 1 .. Len(line) /\ p = argv[n] /\ n \in 1 .. Len(argv)
    BY <1>1, <1>2, <1>6, <1>7, <2>1
  <2>3. PICK e \in p .. Len(line) + 2 - 1 :
          /\ mem[e] = NUL
          /\ \A j \in p .. e - 1 : mem[j] \in Char
          /\ SubSeq(mem, p, e - 1) = Argument(line, p)
    <3>1. DoneAt(p, Len(line) + 2)
      BY <2>2 DEF Split
    <3>2. QED
      BY <3>1 DEF DoneAt
  <2>4. p \in Nat \ {0} /\ p = first[n]
    BY <1>2, <2>1
  <2>5. StringAt(p) = Argument(line, p)
    BY <2>3, <2>4, StringIs
  <2>6. QED
    BY <2>1, <2>2, <2>5
<1>9. Arguments = [n \in DOMAIN first |-> Argument(line, first[n])]
  BY <1>6, <1>8 DEF Arguments
<1>10. Argv(line) = [n \in DOMAIN first |-> Argument(line, first[n])]
  BY DEF Argv, first, F
<1>11. QED
  BY <1>9, <1>10

(* Whatever Windows gives it, the shared next_token splits by the rule of  *)
(* CommandLineToArgvW (emit_next_token's docstring).                       *)
THEOREM ArgumentsAreTheRules == Spec => []ArgvIsRight
<1>1. Init => IInv /\ ByTheRule
  BY InitIInv, InitByTheRule
<1>2. IInv /\ ByTheRule /\ [Next]_vars => IInv' /\ ByTheRule'
  BY NextIInv, NextByTheRule
<1>3. IInv /\ ByTheRule => ArgvIsRight
  BY SplitIsRight DEF IInv, ByTheRule, ArgvIsRight
<1>4. QED
  BY <1>1, <1>2, <1>3, PTL DEF Spec

-----------------------------------------------------------------------------
(* The versions without escapes, on the lines the build writes. *)

(* Where the code reads the argument that begins at f. *)
Begin(f) == IF line[f] = "quote" THEN f + 1 ELSE f

(* argv has the beginnings up to m, and no other. *)
Returned(m) ==
  /\ Len(argv) = Count(Firsts(line), m)
  /\ \A f \in Firsts(line) : f <= m => argv[Count(Firsts(line), f)] = Begin(f)

(* The argument that begins at f is complete, and ends before m.           *)
Whole(f, m) ==
  \E e \in Begin(f) .. m - 1 :
    /\ mem[e] = NUL
    /\ \A j \in Begin(f) .. e - 1 : mem[j] \in Char
    /\ SubSeq(mem, Begin(f), e - 1) = Argument(line, f)

Past == IF esi <= Len(line) THEN esi ELSE Len(line) + 2

(* After a closing quote it stands on a separator.                         *)
PlainSkips ==
  /\ esi <= Len(line) => /\ ~Inside(line, esi)
                         /\ Between(esi) \/ Separator(line[esi])
  /\ Returned(esi - 1)
  /\ \A f \in Firsts(line) : f <= esi - 1 => Whole(f, Past)

(* The characters read of the argument that begins at f, up to e.          *)
Plainly(f, e) == \A k \in Begin(f) .. e - 1 :
                   /\ line[k] # "quote"
                   /\ line[f] # "quote" => ~Separator(line[k])

PlainReads(f) ==
  /\ Begin(f) <= esi /\ Plainly(f, esi)
  /\ \A k \in Begin(f) .. esi - 1 : mem[k] = line[k]
  /\ pc = "qscan" <=> line[f] = "quote"
  /\ Returned(f)
  /\ \A g \in Firsts(line) : g < f => Whole(g, f)

PlainEnds ==
  /\ Returned(Len(line))
  /\ \A f \in Firsts(line) : Whole(f, Len(line) + 2)

Plainwise ==
  ~version.escapes /\ Grouped =>
    /\ pc = "skip" => PlainSkips
    /\ pc \in {"scan", "qscan"} => \E f \in Firsts(line) : PlainReads(f)
    /\ pc = "end"  => PlainEnds

(* The run behind a position is one. *)
LEMMA BehindRun ==
  ASSUME NEW s, NEW i \in Nat \ {0}
  PROVE  /\ Behind(s, i) \in 0 .. i - 1
         /\ Behind(s, i) = i - 1 \/ s[i - Behind(s, i) - 1] # "slash"
<1> DEFINE Stops(n) == n = i - 1 \/ s[i - n - 1] # "slash"
           E == {n \in 0 .. i - 1 : Stops(n)}
<1>1. E \in SUBSET Nat /\ i - 1 \in E
  OBVIOUS
<1>2. PICK n \in E : \A m \in E : n <= m
  <2> HIDE DEF E
  <2>1. QED
    BY <1>1, LeastOf
<1>3. n \in 0 .. i - 1 /\ Stops(n)
  OBVIOUS
<1>4. ASSUME NEW j \in i - n .. i - 1 PROVE s[j] = "slash"
  <2>1. i - j - 1 \in 0 .. i - 1 /\ ~(n <= i - j - 1)
        /\ i - j - 1 # i - 1 /\ i - (i - j - 1) - 1 = j
    BY <1>3
  <2>2. ~Stops(i - j - 1)
    BY <1>2, <2>1
  <2>3. QED
    BY <2>1, <2>2
<1> HIDE DEF Stops, E
<1>5. \E m \in 0 .. i - 1 : (\A j \in i - m .. i - 1 : s[j] = "slash") /\ Stops(m)
  BY <1>3, <1>4
<1>6. Behind(s, i) = CHOOSE m \in 0 .. i - 1 :
                       (\A j \in i - m .. i - 1 : s[j] = "slash") /\ Stops(m)
  BY DEF Behind, Stops
<1>7. Behind(s, i) \in 0 .. i - 1 /\ Stops(Behind(s, i))
  BY <1>5, <1>6
<1>8. QED
  BY <1>7 DEF Stops

(* Where quotes stand only around whole arguments, each delimits and all   *)
(* the rest is kept.                                                       *)
LEMMA GroupedSurvives ==
  ASSUME line \in Seq(Char), Grouped, NEW i \in 1 .. Len(line)
  PROVE  /\ Delimits(line, i) <=> line[i] = "quote"
         /\ Survives(line, i) <=> line[i] # "quote"
<1>1. Len(line) \in Nat /\ DOMAIN line = 1 .. Len(line) /\ i \in Nat \ {0}
  OBVIOUS
<1>2. Delimits(line, i) <=> line[i] = "quote"
  <2>1. line[i] = "quote" => Behind(line, i) = 0
    BY <1>1 DEF Grouped
  <2>2. 0 % 2 = 0
    OBVIOUS
  <2>3. QED
    BY <2>1, <2>2 DEF Delimits
<1>3. ~(line[i] = "slash" /\ BeforeQuote(line, i))
  <2>1. SUFFICES ASSUME line[i] = "slash", BeforeQuote(line, i) PROVE FALSE
    OBVIOUS
  <2>2. PICK q \in i + 1 .. Len(line) :
          line[q] = "quote" /\ \A j \in i .. q - 1 : line[j] = "slash"
    BY <2>1 DEF BeforeQuote
  <2>3. q \in Nat \ {0} /\ q \in DOMAIN line /\ q - 1 \in i .. q - 1 /\ q - 0 - 1 = q - 1
        /\ q - 1 # 0
    BY <1>1
  <2>4. Behind(line, q) = 0
    BY <2>2, <2>3 DEF Grouped
  <2>5. 0 = q - 1 \/ line[q - 0 - 1] # "slash"
    BY <2>3, <2>4, BehindRun
  <2>6. QED
    BY <2>2, <2>3, <2>5
<1>4. QED
  BY <1>2, <1>3 DEF Survives

LEMMA FirstOutside ==
  ASSUME line \in Seq(Char), NEW f \in Firsts(line)
  PROVE  f \in 1 .. Len(line) /\ ~Inside(line, f) /\ ~Separator(line[f]) /\ ~Parts(line, f)
<1>1. f \in 1 .. Len(line) /\ ~Parts(line, f) /\ (f = 1 \/ Parts(line, f - 1))
  BY DEF Firsts
<1>2. ~Inside(line, f)
  <2>1. CASE f = 1
    BY <2>1, InsideFirst
  <2>2. CASE f # 1 /\ Parts(line, f - 1)
    <3>1. PICK m \in Nat \ {0} : m = f - 1
      BY <1>1, <2>2
    <3>2. ~Inside(line, m) /\ ~Delimits(line, m)
      BY <2>2, <3>1 DEF Parts, Separator, Delimits
    <3>3. ~Inside(line, m + 1)
      BY <3>2, InsideNext
    <3>4. m + 1 = f
      BY <1>1, <3>1
    <3>5. QED
      BY <3>3, <3>4
  <2>3. QED
    BY <1>1, <2>1, <2>2
<1>3. QED
  BY <1>1, <1>2 DEF Parts

(* What was read of an argument is inside it. *)
LEMMA WithinPlain ==
  ASSUME line \in Seq(Char), Grouped, NEW f \in Firsts(line),
         NEW e \in Nat, e <= Len(line) + 1, Begin(f) <= e, Plainly(f, e)
  PROVE  /\ f \in 1 .. Len(line) /\ Begin(f) \in Nat \ {0} /\ f <= Begin(f)
         /\ Begin(f) <= f + 1 /\ f <= e
         /\ \A j \in f .. e - 1 : ~Parts(line, j)
         /\ Inside(line, e) <=> line[f] = "quote"
<1>1. /\ f \in 1 .. Len(line) /\ ~Inside(line, f) /\ ~Separator(line[f])
      /\ ~Parts(line, f) /\ Len(line) \in Nat
  BY FirstOutside
<1>2. /\ Begin(f) \in Nat \ {0} /\ f <= Begin(f) /\ Begin(f) <= f + 1
      /\ f <= e /\ f \in Nat \ {0}
  BY <1>1 DEF Begin
<1>3. CASE line[f] = "quote"
  <2>1. Begin(f) = f + 1
    BY <1>3 DEF Begin
  <2>2. Delimits(line, f)
    BY <1>1, <1>3, GroupedSurvives
  <2>3. Inside(line, f + 1)
    BY <1>1, <1>2, <2>2, InsideNext
  <2>4. ASSUME NEW j \in f + 1 .. e PROVE Inside(line, j)
    <3>1. \A k \in f + 1 .. j - 1 : ~Delimits(line, k)
      <4>1. \A k \in f + 1 .. j - 1 : k \in Begin(f) .. e - 1
        BY <1>2, <2>1
      <4>2. QED
        BY <4>1 DEF Plainly, Delimits
    <3>2. f + 1 \in Nat \ {0} /\ j \in Nat /\ f + 1 <= j
      BY <1>2
    <3>3. QED
      BY <2>3, <3>1, <3>2, InsideFlat
  <2>5. \A j \in f .. e - 1 : ~Parts(line, j)
    <3>1. \A j \in f .. e - 1 : j = f \/ j \in f + 1 .. e
      BY <1>2
    <3>2. QED
      BY <1>1, <2>4, <3>1 DEF Parts
  <2>6. e \in f + 1 .. e
    BY <1>2, <2>1
  <2>7. QED
    BY <1>1, <1>2, <1>3, <2>4, <2>5, <2>6
<1>4. CASE line[f] # "quote"
  <2>1. Begin(f) = f
    BY <1>4 DEF Begin
  <2>2. \A j \in f .. e - 1 : ~Parts(line, j) /\ ~Delimits(line, j)
    BY <1>4, <2>1 DEF Plainly, Parts, Delimits
  <2>3. Inside(line, e) <=> Inside(line, f)
    BY <1>2, <2>2, InsideFlat
  <2>4. QED
    BY <1>1, <1>2, <1>4, <2>2, <2>3
<1>5. QED
  BY <1>3, <1>4

(* An interval in order. *)
LEMMA AscendingInterval ==
  ASSUME NEW m \in Nat, NEW p \in Nat \ {0}, NEW e \in Nat, p <= e, e <= m + 1
  PROVE  /\ Cardinality(p .. e - 1) = e - p
         /\ \A n \in 1 .. e - p : Ascending(p .. e - 1)[n] = n + p - 1
<1> DEFINE S == p .. e - 1
<1>1. S \in SUBSET (1 .. m)
  OBVIOUS
<1>2. ASSUME NEW k \in p - 1 .. e - 1 PROVE Count(S, k) = k - p + 1
  <2>1. {j \in S : j <= k} = p .. k
    OBVIOUS
  <2>2. Cardinality(p .. k) = k - p + 1
    <3>1. Cardinality(p .. k) = IF p > k THEN 0 ELSE k - p + 1
      <4>1. p \in Int /\ k \in Int
        OBVIOUS
      <4>2. QED
        BY <4>1, FS_Interval
    <3>2. QED
      BY <3>1
  <2>3. QED
    BY <2>1, <2>2 DEF Count
<1>3. Cardinality(S) = e - p
  <2>1. e - 1 \in Int /\ p \in Int
    OBVIOUS
  <2>2. Cardinality(p .. e - 1) = IF p > e - 1 THEN 0 ELSE e - 1 - p + 1
    BY <2>1, FS_Interval
  <2>3. QED
    BY <2>2
<1>4. ASSUME NEW n \in 1 .. e - p PROVE Ascending(S)[n] = n + p - 1
  <2> HIDE DEF S
  <2>1. Ascending(S)[n] \in S /\ Count(S, Ascending(S)[n]) = n
    BY <1>1, <1>3, AscendingIs
  <2>2. PICK k \in S : k = Ascending(S)[n]
    BY <2>1
  <2>3. k \in p .. e - 1 /\ k \in p - 1 .. e - 1 /\ k \in Int
    BY DEF S
  <2>4. k - p + 1 = n
    BY <1>2, <2>1, <2>2, <2>3
  <2>5. QED
    BY <2>2, <2>3, <2>4
<1>5. QED
  BY <1>3, <1>4

(* What the code cuts out is the argument. *)
LEMMA PlainIs ==
  ASSUME line \in Seq(Char), Grouped, NEW f \in Firsts(line),
         NEW e \in Nat, e <= Len(line) + 1, Begin(f) <= e, Plainly(f, e),
         e <= Len(line) => IF line[f] = "quote" THEN line[e] = "quote"
                                                ELSE Separator(line[e])
  PROVE  Argument(line, f) = [n \in 1 .. e - Begin(f) |-> line[n + Begin(f) - 1]]
<1> DEFINE kept == {k \in f .. Len(line) : /\ Survives(line, k)
                                           /\ \A j \in f .. k : ~Parts(line, j)}
<1>1. /\ f \in 1 .. Len(line) /\ Len(line) \in Nat
      /\ f <= Begin(f) /\ Begin(f) <= f + 1 /\ f <= e
      /\ \A j \in f .. e - 1 : ~Parts(line, j)
      /\ Inside(line, e) <=> line[f] = "quote"
      /\ DOMAIN line = 1 .. Len(line)
  BY WithinPlain
<1>2. PICK p \in Nat \ {0} : p = Begin(f)
  BY WithinPlain
<1>3. ASSUME NEW k \in p .. e - 1 PROVE k \in kept
  <2>1. k \in f .. Len(line) /\ k \in 1 .. Len(line)
    BY <1>1, <1>2
  <2>2. Survives(line, k)
    BY <1>2, <2>1, GroupedSurvives DEF Plainly
  <2>3. \A j \in f .. k : j \in f .. e - 1
    BY <1>1, <1>2
  <2>4. QED
    BY <1>1, <2>1, <2>2, <2>3
<1>4. ASSUME NEW k \in kept PROVE k \in p .. e - 1
  <2>1. /\ k \in f .. Len(line) /\ Survives(line, k) /\ k \in 1 .. Len(line)
        /\ \A j \in f .. k : ~Parts(line, j)
    BY <1>1
  <2>2. line[k] # "quote"
    BY <2>1, GroupedSurvives
  <2>3. k >= p
    <3>1. CASE line[f] = "quote"
      BY <1>1, <1>2, <2>1, <2>2, <3>1 DEF Begin
    <3>2. CASE line[f] # "quote"
      BY <1>1, <1>2, <2>1, <3>2 DEF Begin
    <3>3. QED
      BY <3>1, <3>2
  <2>4. ASSUME k >= e PROVE FALSE
    <3>1. e \in f .. k /\ e <= Len(line) /\ e \in 1 .. Len(line) /\ e \in Nat \ {0}
      BY <1>1, <2>1, <2>4
    <3>2. CASE line[f] = "quote"
      <4>1. line[e] = "quote" /\ Inside(line, e) /\ Delimits(line, e)
        BY <1>1, <3>1, <3>2, GroupedSurvives
      <4>2. e = Len(line) \/ Separator(line[e + 1])
        BY <1>1, <3>1, <4>1 DEF Grouped
      <4>3. k # e
        BY <2>2, <4>1
      <4>4. e + 1 \in f .. k /\ e # Len(line)
        <5>1. /\ e \in Int /\ k \in Int /\ f \in Int /\ f <= e /\ e <= k /\ k # e
              /\ k <= Len(line) /\ Len(line) \in Int
          BY <1>1, <2>1, <2>4, <3>1, <4>3
        <5>2. e + 1 <= k /\ e # Len(line)
          BY <5>1
        <5>3. QED
          BY <5>1, <5>2
      <4>5. ~Inside(line, e + 1)
        BY <3>1, <4>1, InsideNext
      <4>6. QED
        BY <2>1, <4>2, <4>4, <4>5 DEF Parts
    <3>3. CASE line[f] # "quote"
      <4>1. Separator(line[e]) /\ ~Inside(line, e)
        BY <1>1, <3>1, <3>3
      <4>2. QED
        BY <2>1, <3>1, <4>1 DEF Parts
    <3>4. QED
      BY <3>2, <3>3
  <2>5. QED
    BY <1>1, <2>1, <2>3, <2>4
<1>5. kept = p .. e - 1
  BY <1>3, <1>4
<1>6. Argument(line, f) = [n \in 1 .. Cardinality(kept) |-> line[Ascending(kept)[n]]]
  BY DEF Argument
<1> HIDE DEF kept
<1>7. /\ Cardinality(kept) = e - p
      /\ \A n \in 1 .. e - p : Ascending(kept)[n] = n + p - 1
  BY <1>1, <1>2, <1>5, AscendingInterval
<1>8. Argument(line, f) = [n \in 1 .. e - p |-> line[n + p - 1]]
  BY <1>6, <1>7
<1>9. QED
  BY <1>2, <1>8

LEMMA WholeKept ==
  ASSUME line' = line, version' = version, TypeOK,
         mem' \in [1 .. Len(line) + 1 -> Char \cup {NUL}],
         NEW f \in Firsts(line), NEW m \in Int, NEW l \in Int, Whole(f, m), m <= l,
         m <= Len(line) + 2, \A k \in 1 .. m - 1 : mem'[k] = mem[k]
  PROVE  Whole(f, l)'
<1>1. /\ Len(line) \in Nat /\ line \in Seq(Char)
      /\ mem \in [1 .. Len(line) + 1 -> Char \cup {NUL}]
  BY DEF TypeOK
<1>2. f \in 1 .. Len(line)
  BY <1>1, FirstsType
<1>3. PICK p \in Nat \ {0} : p = Begin(f)
  BY <1>1, <1>2 DEF Begin
<1>4. PICK e \in p .. m - 1 :
        /\ mem[e] = NUL
        /\ \A j \in p .. e - 1 : mem[j] \in Char
        /\ SubSeq(mem, p, e - 1) = Argument(line, f)
  BY <1>3 DEF Whole
<1>5. e \in p .. l - 1 /\ e \in 1 .. m - 1 /\ e \in Nat /\ e <= Len(line) + 1
  BY <1>1
<1>6. \A j \in p .. e - 1 : j \in 1 .. m - 1
  BY <1>5
<1>7. mem'[e] = NUL /\ \A j \in p .. e - 1 : mem'[j] \in Char
  BY <1>4, <1>5, <1>6
<1>8. SubSeq(mem', p, e - 1) = SubSeq(mem, p, e - 1)
  <2>1. \A x \in 1 .. e - 1 - p + 1 : x + p - 1 \in 1 .. m - 1
    BY <1>5
  <2>2. SubSeq(mem, p, e - 1) = [x \in 1 .. e - 1 - p + 1 |-> mem[x + p - 1]]
    OBVIOUS
  <2>3. SubSeq(mem', p, e - 1) = [x \in 1 .. e - 1 - p + 1 |-> mem'[x + p - 1]]
    OBVIOUS
  <2>4. QED
    BY <2>1, <2>2, <2>3
<1>9. Argument(line, f)' = Argument(line, f) /\ Begin(f)' = p
  BY <1>3, SameRule DEF Begin
<1>10. SubSeq(mem, p, e - 1)' = Argument(line, f)'
  BY <1>4, <1>8, <1>9
<1>11. QED
  BY <1>5, <1>7, <1>9, <1>10 DEF Whole

(* The argument being read, cut where it ends, and those before it. *)
LEMMA CutWhole ==
  ASSUME line' = line, version' = version, TypeOK, UnreadIntact, Grouped,
         mem' \in [1 .. Len(line) + 1 -> Char \cup {NUL}],
         NEW f \in Firsts(line), PlainReads(f), NEW e \in Nat, e = esi,
         e <= Len(line) => IF line[f] = "quote" THEN line[e] = "quote"
                                                ELSE Separator(line[e]),
         mem'[e] = NUL, \A k \in 1 .. e - 1 : mem'[k] = mem[k],
         NEW l \in Int, e < l
  PROVE  \A g \in Firsts(line) : g <= f => Whole(g, l)'
<1>1. /\ Len(line) \in Nat /\ line \in Seq(Char) /\ e >= 1 /\ e <= Len(line) + 1
      /\ mem \in [1 .. Len(line) + 1 -> Char \cup {NUL}]
  BY DEF TypeOK
<1>2. Begin(f) <= e /\ Plainly(f, e)
  BY DEF PlainReads
<1>3. f \in 1 .. Len(line) /\ f <= Begin(f)
  BY <1>1, <1>2, WithinPlain
<1>4. PICK p \in Nat \ {0} : p = Begin(f)
  BY <1>1, <1>2, WithinPlain
<1>5. Argument(line, f) = [n \in 1 .. e - p |-> line[n + p - 1]]
  BY <1>1, <1>2, <1>4, PlainIs
<1>6. ASSUME NEW k \in p .. e - 1 PROVE mem'[k] = line[k] /\ mem'[k] \in Char
  <2>1. k \in 1 .. e - 1 /\ k \in 1 .. Len(line)
    BY <1>1
  <2>2. mem[k] = line[k]
    BY <1>4 DEF PlainReads
  <2>3. QED
    BY <1>1, <2>1, <2>2, TapeIs
<1>7. SubSeq(mem', p, e - 1) = Argument(line, f)
  <2>1. PICK z \in Int : z = e - 1
    OBVIOUS
  <2>2. SubSeq(mem', p, z) = [n \in 1 .. z - p + 1 |-> mem'[n + p - 1]]
    OBVIOUS
  <2>3. z - p + 1 = e - p
    BY <2>1
  <2>4. \A n \in 1 .. e - p : n + p - 1 \in p .. e - 1
    OBVIOUS
  <2>5. \A n \in 1 .. e - p : mem'[n + p - 1] = line[n + p - 1]
    BY <1>6, <2>4
  <2>6. QED
    BY <1>5, <2>1, <2>2, <2>3, <2>5
<1>8. Whole(f, l)'
  <2>1. Argument(line, f)' = Argument(line, f) /\ Begin(f)' = p
    BY <1>4, SameRule DEF Begin
  <2>2. SubSeq(mem, p, e - 1)' = Argument(line, f)'
    BY <1>7, <2>1
  <2>3. e \in p .. l - 1
    BY <1>2, <1>4
  <2>4. \A j \in p .. e - 1 : mem'[j] \in Char
    BY <1>6
  <2>5. QED
    BY <2>1, <2>2, <2>3, <2>4 DEF Whole
<1>9. ASSUME NEW g \in Firsts(line), g < f PROVE Whole(g, l)'
  <2>1. Whole(g, f)
    BY <1>9 DEF PlainReads
  <2>2. f \in Int /\ f <= l /\ f <= Len(line) + 2
    BY <1>1, <1>2, <1>3, <1>4
  <2>3. \A k \in 1 .. f - 1 : mem'[k] = mem[k]
    <3>1. \A k \in 1 .. f - 1 : k \in 1 .. e - 1
      BY <1>1, <1>2, <1>3, <1>4
    <3>2. QED
      BY <3>1
  <2>4. QED
    BY <2>1, <2>2, <2>3, WholeKept
<1>10. \A g \in Firsts(line) : g <= f => g < f \/ g = f
  BY <1>1, FirstsType
<1>11. QED
  BY <1>8, <1>9, <1>10

(* No argument begins within another. *)
LEMMA ReturnedOn ==
  ASSUME line \in Seq(Char), NEW f \in Firsts(line), Returned(f),
         NEW m \in Nat, f <= m, \A j \in f .. m - 1 : ~Parts(line, j)
  PROVE  Returned(m)
<1>1. /\ Firsts(line) \subseteq Int /\ f \in Nat \ {0} /\ Len(line) \in Nat
      /\ \A g \in Firsts(line) : g \in Int
  BY FirstsType
<1>2. ASSUME NEW j \in f + 1 .. m PROVE j \notin Firsts(line)
  <2>1. j # 1 /\ j - 1 \in f .. m - 1
    BY <1>1
  <2>2. QED
    BY <2>1 DEF Firsts
<1>3. Count(Firsts(line), m) = Count(Firsts(line), f)
  <2>1. f \in Int /\ m \in Int
    BY <1>1
  <2>2. QED
    BY <1>1, <1>2, <2>1, CountFlat
<1>4. ASSUME NEW g \in Firsts(line), g <= m PROVE g <= f
  <2>1. ~(g <= f) => g \in f + 1 .. m
    BY <1>1, <1>4
  <2>2. QED
    BY <1>2, <2>1
<1>5. QED
  BY <1>3, <1>4 DEF Returned

LEMMA SkipPlain ==
  ASSUME TypeOK, UnreadIntact, PlainSkips, Skip
  PROVE  PlainSkips'
<1>1. /\ Separator(mem[esi]) /\ esi' = esi + 1
      /\ line' = line /\ version' = version /\ mem' = mem /\ argv' = argv
  BY DEF Skip, SkipTo, given
<1>2. /\ esi \in Nat \ {0} /\ esi <= Len(line) /\ mem[esi] = line[esi]
      /\ Len(line) \in Nat /\ line \in Seq(Char)
  BY <1>1, LineAhead DEF Separator, NUL
<1>3. PICK m \in Nat \ {0} : m = esi
  BY <1>2
<1>4. Parts(line, m) /\ ~Delimits(line, m) /\ ~Inside(line, m) /\ Returned(m - 1)
  BY <1>1, <1>2, <1>3 DEF PlainSkips, Parts, Delimits, Separator
<1>5. PICK q \in Nat : q = m + 1
  OBVIOUS
<1>6. ~Inside(line, q) /\ Between(q)
  <2>1. ~Inside(line, q)
    BY <1>4, <1>5, InsideNext
  <2>2. q - 1 = m
    BY <1>5
  <2>3. QED
    BY <1>4, <2>1, <2>2 DEF Between
<1>7. /\ Firsts(line)' = Firsts(line)
      /\ \A i : Between(i)' <=> Between(i)
      /\ \A i : Inside(line, i)' <=> Inside(line, i)
  BY <1>1, SameRule
<1>8. \A f \in Firsts(line) : f <= m => f <= m - 1
  <2>1. m \notin Firsts(line) /\ \A f \in Firsts(line) : f \in Int
    BY <1>2, <1>4, FirstsType DEF Firsts
  <2>2. \A f \in Firsts(line) : f # m
    BY <2>1
  <2>3. QED
    BY <2>1, <2>2
<1>9. Returned(m)
  <2>1. Firsts(line) \subseteq Int /\ IsFiniteSet(Firsts(line)) /\ m \notin Firsts(line)
    BY <1>2, <1>4, FirstsType DEF Firsts
  <2>2. Count(Firsts(line), m) = Count(Firsts(line), m - 1)
    BY <2>1, CountNext
  <2>3. QED
    BY <1>4, <1>8, <2>2 DEF Returned
<1>10. Returned(esi - 1)'
  <2>1. esi' - 1 = m
    BY <1>1, <1>3
  <2>2. QED
    BY <1>1, <1>7, <1>9, <2>1 DEF Returned, Count, Begin
<1>11. (~Inside(line, esi))' /\ Between(esi)'
  <2>1. esi' = q
    BY <1>1, <1>3, <1>5
  <2>2. (~Inside(line, esi))'
    BY <1>1, <1>6, <2>1 DEF Inside, Delimits, Behind
  <2>3. Between(esi)'
    BY <1>1, <1>6, <1>7, <2>1 DEF Between, Parts, Inside, Delimits, Behind, Separator
  <2>4. QED
    BY <2>2, <2>3
<1>12. \A f \in Firsts(line)' : f <= esi' - 1 => Whole(f, Past)'
  <2>1. PICK l \in Int : l = IF esi' <= Len(line) THEN esi' ELSE Len(line) + 2
    BY <1>1, <1>2
  <2>2. SUFFICES ASSUME NEW f \in Firsts(line), f <= esi' - 1 PROVE Whole(f, Past)'
    BY <1>7
  <2>3. f <= m - 1
    BY <1>1, <1>3, <1>8, <2>2
  <2>4. Whole(f, m)
    BY <1>2, <1>3, <2>3 DEF PlainSkips, Past
  <2>5. m \in Int /\ m <= l /\ m <= Len(line) + 2
    BY <1>1, <1>2, <1>3, <2>1
  <2>6. mem' \in [1 .. Len(line) + 1 -> Char \cup {NUL}]
    BY <1>1 DEF TypeOK
  <2>7. Whole(f, l)'
    BY <1>1, <2>4, <2>5, <2>6, WholeKept
  <2>8. Past' = l
    BY <1>1, <2>1 DEF Past
  <2>9. QED
    BY <2>7, <2>8 DEF Whole
<1>13. QED
  BY <1>10, <1>11, <1>12 DEF PlainSkips

LEMMA StartReads ==
  ASSUME TypeOK, UnreadIntact, PlainSkips, mem[esi] # NUL, ~Separator(mem[esi]),
         line' = line, version' = version, mem' = mem, argv' = Append(argv, esi'),
         esi' = (IF mem[esi] = "quote" THEN esi + 1 ELSE esi),
         pc' = (IF mem[esi] = "quote" THEN "qscan" ELSE "scan")
  PROVE  \E f \in Firsts(line)' : PlainReads(f)'
<1>1. /\ esi \in Nat \ {0} /\ esi <= Len(line) /\ mem[esi] = line[esi]
      /\ Len(line) \in Nat /\ line \in Seq(Char)
  BY LineAhead
<1>2. PICK f \in Nat \ {0} : f = esi
  BY <1>1
<1>3. ~Inside(line, f) /\ Between(f) /\ Returned(f - 1) /\ ~Parts(line, f)
  BY <1>1, <1>2 DEF PlainSkips, Parts
<1>4. f \in Firsts(line)
  BY <1>1, <1>2, <1>3 DEF Firsts, Between
<1>5. PICK b \in Nat \ {0} : b = Begin(f)
  BY <1>2 DEF Begin
<1>6. /\ argv \in Seq(1 .. Len(line) + 1) /\ Len(argv) \in Nat
      /\ esi' = b /\ (pc' = "qscan" <=> line[f] = "quote")
      /\ Len(argv') = Len(argv) + 1 /\ argv'[Len(argv) + 1] = b
      /\ \A n \in 1 .. Len(argv) : argv'[n] = argv[n]
  <2>1. /\ argv \in Seq(1 .. Len(line) + 1) /\ Len(argv) \in Nat
        /\ esi' = b /\ (pc' = "qscan" <=> line[f] = "quote")
    BY <1>1, <1>2, <1>5 DEF TypeOK, Begin
  <2>2. argv' = Append(argv, b)
    BY <2>1
  <2>3. QED
    BY <2>1, <2>2
<1>7. Firsts(line)' = Firsts(line) /\ Begin(f)' = b
  BY <1>5, SameRule DEF Begin
<1>8. Returned(f)'
  <2>1. /\ Firsts(line) \subseteq Int /\ IsFiniteSet(Firsts(line))
        /\ \A g \in Firsts(line) : g \in Int
    BY <1>1, FirstsType
  <2>2. Count(Firsts(line), f) = Count(Firsts(line), f - 1) + 1
    BY <1>4, <2>1, CountNext
  <2>3. Len(argv') = Count(Firsts(line), f)
    BY <1>3, <1>6, <2>2 DEF Returned
  <2>4. ASSUME NEW g \in Firsts(line), g <= f
        PROVE  argv'[Count(Firsts(line), g)] = Begin(g)
    <3>1. CASE g = f
      BY <1>5, <1>6, <2>3, <3>1
    <3>2. CASE g # f
      <4>1. g <= f - 1 /\ g \in Int /\ f - 1 \in Int
        BY <2>1, <2>4, <3>2
      <4>2. argv[Count(Firsts(line), g)] = Begin(g) /\ Len(argv) = Count(Firsts(line), f - 1)
        BY <1>3, <4>1 DEF Returned
      <4>3. Count(Firsts(line), g) <= Len(argv)
        BY <2>1, <4>1, <4>2, CountUp
      <4>4. Count(Firsts(line), g) = Count(Firsts(line), g - 1) + 1
            /\ Count(Firsts(line), g - 1) \in Nat
        BY <2>1, <2>4, CountNext, CountType
      <4>5. Count(Firsts(line), g) \in 1 .. Len(argv)
        BY <1>6, <4>3, <4>4
      <4>6. QED
        BY <1>6, <4>2, <4>5
    <3>3. QED
      BY <3>1, <3>2
  <2>5. QED
    BY <1>7, <2>3, <2>4 DEF Returned, Count, Begin
<1>9. ASSUME NEW g \in Firsts(line), g < f PROVE Whole(g, f)'
  <2>1. g <= f - 1
    BY <1>1, <1>9, FirstsType
  <2>2. Whole(g, f)
    BY <1>1, <1>2, <2>1 DEF PlainSkips, Past
  <2>3. f \in Int /\ f <= f /\ f <= Len(line) + 2
    BY <1>1, <1>2
  <2>4. mem' \in [1 .. Len(line) + 1 -> Char \cup {NUL}]
    BY DEF TypeOK
  <2>5. QED
    BY <2>2, <2>3, <2>4, WholeKept
<1>10. \A k \in b .. esi' - 1 : FALSE
  BY <1>6
<1>11. Plainly(f, esi)'
  BY <1>7, <1>10 DEF Plainly
<1>12. Begin(f)' <= esi'
  BY <1>6, <1>7
<1>13. PlainReads(f)'
  BY <1>6, <1>7, <1>8, <1>9, <1>10, <1>11, <1>12 DEF PlainReads
<1>14. QED
  BY <1>4, <1>7, <1>13

LEMMA ScanReads ==
  ASSUME TypeOK, UnreadIntact, Grouped, Scan, NEW f \in Firsts(line), PlainReads(f)
  PROVE  PlainReads(f)'
<1>1. /\ pc \in {"scan", "qscan"} /\ mem[esi] # NUL /\ ~Ends
      /\ esi' = esi + 1 /\ pc' = pc
      /\ line' = line /\ version' = version /\ mem' = mem /\ argv' = argv
  BY DEF Scan, given
<1>2. /\ esi \in Nat \ {0} /\ esi <= Len(line) /\ mem[esi] = line[esi]
      /\ Len(line) \in Nat /\ line \in Seq(Char) /\ DOMAIN line = 1 .. Len(line)
  BY <1>1, LineAhead
<1>3. PICK e \in Nat \ {0} : e = esi
  BY <1>2
<1>4. Begin(f) <= e /\ Plainly(f, e) /\ (pc = "qscan" <=> line[f] = "quote")
  BY <1>3 DEF PlainReads
<1>5. /\ f \in 1 .. Len(line) /\ f <= Begin(f) /\ Begin(f) <= f + 1 /\ f <= e
      /\ Inside(line, e) <=> line[f] = "quote"
  BY <1>2, <1>3, <1>4, WithinPlain
<1>6. PICK b \in Nat \ {0} : b = Begin(f)
  BY <1>2, <1>3, <1>4, WithinPlain
<1>7. line[f] # "quote" => ~Separator(line[e])
  BY <1>1, <1>2, <1>3, <1>4 DEF Ends
<1>8. line[e] # "quote"
  <2>1. CASE line[f] = "quote"
    BY <1>1, <1>2, <1>3, <1>4, <2>1 DEF Ends
  <2>2. CASE line[f] # "quote"
    <3>1. SUFFICES ASSUME line[e] = "quote" PROVE FALSE
      OBVIOUS
    <3>2. e \in DOMAIN line
      BY <1>2, <1>3
    <3>3. e = 1 \/ Separator(line[e - 1])
      BY <1>5, <2>2, <3>1, <3>2 DEF Grouped
    <3>4. e # f /\ b = f
      BY <1>6, <2>2, <3>1 DEF Begin
    <3>5. e - 1 \in b .. e - 1 /\ e # 1
      BY <1>2, <1>3, <1>5, <3>4
    <3>6. ~Separator(line[e - 1])
      BY <1>4, <1>6, <2>2, <3>5 DEF Plainly
    <3>7. QED
      BY <3>3, <3>5, <3>6
  <2>3. QED
    BY <2>1, <2>2
<1>9. ASSUME NEW k \in b .. e
      PROVE  /\ mem[k] = line[k] /\ line[k] # "quote"
             /\ line[f] # "quote" => ~Separator(line[k])
  <2>1. CASE k = e
    BY <1>2, <1>3, <1>7, <1>8, <2>1
  <2>2. CASE k # e
    <3>1. k \in b .. e - 1
      BY <2>2
    <3>2. QED
      BY <1>3, <1>4, <1>6, <3>1 DEF PlainReads, Plainly
  <2>3. QED
    BY <2>1, <2>2
<1>10. Firsts(line)' = Firsts(line) /\ Begin(f)' = b
  BY <1>1, <1>6, SameRule DEF Begin
<1>11. esi' = e + 1 /\ \A k \in b .. esi' - 1 : k \in b .. e
  BY <1>1, <1>3
<1>12. Begin(f)' <= esi'
  BY <1>3, <1>4, <1>6, <1>10, <1>11
<1>13. Plainly(f, esi)'
  <2>1. ASSUME NEW k \in b .. esi' - 1
        PROVE  line'[k] # "quote" /\ (line'[f] # "quote" => ~Separator(line[k])')
    <3>1. line[k] # "quote" /\ (line[f] # "quote" => ~Separator(line[k]))
      BY <1>9, <1>11
    <3>2. QED
      BY <1>1, <3>1 DEF Separator
  <2>2. QED
    BY <1>10, <2>1 DEF Plainly
<1>14. Returned(f)'
  BY <1>1, <1>10 DEF PlainReads, Returned, Count, Begin
<1>15. ASSUME NEW g \in Firsts(line), g < f PROVE Whole(g, f)'
  <2>1. Whole(g, f)
    BY <1>15 DEF PlainReads
  <2>2. f \in Int /\ f <= f /\ f <= Len(line) + 2
    BY <1>2, <1>5
  <2>3. mem' \in [1 .. Len(line) + 1 -> Char \cup {NUL}]
    BY <1>1 DEF TypeOK
  <2>4. QED
    BY <1>1, <2>1, <2>2, <2>3, WholeKept
<1>16. \A k \in b .. esi' - 1 : mem'[k] = line'[k]
  BY <1>1, <1>9, <1>11
<1>17. pc' = "qscan" <=> line'[f] = "quote"
  BY <1>1, <1>4
<1>18. QED
  BY <1>10, <1>12, <1>13, <1>14, <1>15, <1>16, <1>17 DEF PlainReads

LEMMA NoneWithin ==
  ASSUME line \in Seq(Char), NEW f \in Firsts(line), NEW m \in Nat, f <= m,
         \A j \in f .. m - 1 : ~Parts(line, j), NEW g \in Firsts(line), g <= m
  PROVE  g <= f
<1>1. f \in Nat \ {0} /\ g \in Int
  BY FirstsType
<1>2. ASSUME g \in f + 1 .. m PROVE FALSE
  <2>1. g # 1 /\ g - 1 \in f .. m - 1
    BY <1>1, <1>2
  <2>2. QED
    BY <2>1 DEF Firsts
<1>3. ~(g <= f) => g \in f + 1 .. m
  BY <1>1
<1>4. QED
  BY <1>2, <1>3

LEMMA CutSkips ==
  ASSUME TypeOK, TypeOK', UnreadIntact, Grouped, Cut,
         NEW f \in Firsts(line), PlainReads(f)
  PROVE  PlainSkips'
<1>1. /\ pc \in {"scan", "qscan"} /\ Ends /\ mem' = [mem EXCEPT ![esi] = NUL]
      /\ esi' = esi + 1
      /\ line' = line /\ version' = version /\ argv' = argv
  BY DEF Cut, CutAt, CutTo, given
<1>2. mem[esi] # NUL
  BY <1>1 DEF Ends, Separator, NUL
<1>3. /\ esi \in Nat \ {0} /\ esi <= Len(line) /\ mem[esi] = line[esi]
      /\ Len(line) \in Nat /\ line \in Seq(Char) /\ DOMAIN line = 1 .. Len(line)
  BY <1>2, LineAhead
<1>4. PICK e \in Nat \ {0} : e = esi
  BY <1>3
<1>5. Begin(f) <= e /\ Plainly(f, e) /\ (pc = "qscan" <=> line[f] = "quote")
  BY <1>4 DEF PlainReads
<1>6. /\ f \in 1 .. Len(line) /\ f <= e
      /\ \A j \in f .. e - 1 : ~Parts(line, j)
      /\ Inside(line, e) <=> line[f] = "quote"
  BY <1>3, <1>4, <1>5, WithinPlain
<1>7. IF line[f] = "quote" THEN line[e] = "quote" ELSE Separator(line[e])
  BY <1>1, <1>3, <1>4, <1>5 DEF Ends
<1>8. PICK q \in Nat : q = e + 1
  OBVIOUS
<1>9. ~Inside(line, q) /\ (q <= Len(line) => Between(q) \/ Separator(line[q]))
  <2>1. CASE line[f] = "quote"
    <3>1. line[e] = "quote" /\ Inside(line, e) /\ e \in DOMAIN line /\ e \in 1 .. Len(line)
      BY <1>3, <1>4, <1>6, <1>7, <2>1
    <3>2. Delimits(line, e)
      BY <1>3, <3>1, GroupedSurvives
    <3>3. ~Inside(line, q)
      BY <1>8, <3>1, <3>2, InsideNext
    <3>4. e = Len(line) \/ Separator(line[q])
      BY <1>8, <3>1 DEF Grouped
    <3>5. q <= Len(line) => e # Len(line)
      <4>1. PICK n \in Nat : n = Len(line)
        BY <1>3
      <4>2. q <= n => e # n
        BY <1>8
      <4>3. QED
        BY <4>1, <4>2
    <3>6. QED
      BY <3>3, <3>4, <3>5
  <2>2. CASE line[f] # "quote"
    <3>1. Separator(line[e]) /\ ~Inside(line, e)
      BY <1>6, <1>7, <2>2
    <3>2. Parts(line, e) /\ ~Delimits(line, e) /\ q - 1 = e
      BY <1>8, <3>1 DEF Parts, Delimits, Separator
    <3>3. ~Inside(line, q)
      BY <1>8, <3>1, <3>2, InsideNext
    <3>4. QED
      BY <3>2, <3>3 DEF Between
  <2>3. QED
    BY <2>1, <2>2
<1>10. /\ Firsts(line)' = Firsts(line)
       /\ \A i : Between(i)' <=> Between(i)
       /\ \A i : Inside(line, i)' <=> Inside(line, i)
  BY <1>1, SameRule
<1>11. esi' = q /\ esi' - 1 = e
  BY <1>1, <1>4, <1>8
<1>12. Returned(esi - 1)'
  <2>1. Returned(e)
    BY <1>3, <1>6, ReturnedOn DEF PlainReads
  <2>2. QED
    BY <1>1, <1>10, <1>11, <2>1 DEF Returned, Count, Begin
<1>13. (esi <= Len(line) => /\ ~Inside(line, esi)
                            /\ Between(esi) \/ Separator(line[esi]))'
  <2>1. (~Inside(line, esi))'
    BY <1>1, <1>9, <1>11 DEF Inside, Delimits, Behind
  <2>2. esi' <= Len(line') => Between(esi)' \/ Separator(line[esi])'
    <3>1. CASE Between(q)
      <4>1. Between(esi)'
        BY <1>1, <1>10, <1>11, <3>1
           DEF Between, Parts, Inside, Delimits, Behind, Separator
      <4>2. QED
        BY <4>1
    <3>2. CASE ~Between(q)
      BY <1>1, <1>9, <1>11, <3>2 DEF Separator
    <3>3. QED
      BY <3>1, <3>2
  <2>3. QED
    BY <2>1, <2>2
<1>14. PICK l \in Int : l = IF q <= Len(line) THEN q ELSE Len(line) + 2
  BY <1>3
<1>15. ASSUME NEW g \in Firsts(line), g <= e PROVE Whole(g, Past)'
  <2>1. g <= f
    BY <1>3, <1>6, <1>15, NoneWithin
  <2>2. mem' \in [1 .. Len(line) + 1 -> Char \cup {NUL}]
    BY <1>1 DEF TypeOK
  <2>3. mem'[e] = NUL /\ \A k \in 1 .. e - 1 : mem'[k] = mem[k]
    BY <1>1, <1>3, <1>4 DEF TypeOK
  <2>4. e < l /\ e \in Nat
    BY <1>3, <1>4, <1>8, <1>14
  <2>5. Whole(g, l)'
    BY <1>1, <1>4, <1>7, <2>1, <2>2, <2>3, <2>4, CutWhole
  <2>6. Past' = l
    BY <1>1, <1>11, <1>14 DEF Past
  <2>7. QED
    BY <2>5, <2>6 DEF Whole
<1>16. QED
  BY <1>10, <1>11, <1>12, <1>13, <1>15 DEF PlainSkips

LEMMA LastSkips ==
  ASSUME TypeOK, UnreadIntact, Grouped, LastToken,
         NEW f \in Firsts(line), PlainReads(f)
  PROVE  PlainSkips'
<1>1. /\ mem[esi] = NUL /\ mem' = mem /\ esi' = esi
      /\ line' = line /\ version' = version /\ argv' = argv
  BY DEF LastToken, given
<1>2. esi = Len(line) + 1 /\ Len(line) \in Nat /\ line \in Seq(Char)
  BY <1>1, LineAhead
<1>3. PICK m \in Nat : m = Len(line)
  BY <1>2
<1>4. PICK e \in Nat : e = m + 1
  OBVIOUS
<1>5. e = esi /\ Begin(f) <= e /\ Plainly(f, e)
  BY <1>2, <1>3, <1>4 DEF PlainReads
<1>6. /\ f \in 1 .. m /\ f <= m
      /\ \A j \in f .. e - 1 : ~Parts(line, j)
  BY <1>2, <1>3, <1>4, <1>5, WithinPlain
<1>7. \A j \in f .. m - 1 : ~Parts(line, j)
  BY <1>4, <1>6
<1>8. Firsts(line)' = Firsts(line) /\ ~(esi' <= Len(line')) /\ esi' - 1 = m
  BY <1>1, <1>2, <1>3, SameRule
<1>9. Returned(esi - 1)'
  <2>1. Returned(m)
    BY <1>2, <1>6, <1>7, ReturnedOn DEF PlainReads
  <2>2. QED
    BY <1>1, <1>8, <2>1 DEF Returned, Count, Begin
<1>10. PICK l \in Int : l = Len(line) + 2
  BY <1>2
<1>11. ASSUME NEW g \in Firsts(line), g <= m PROVE Whole(g, Past)'
  <2>1. g <= f
    BY <1>2, <1>6, <1>7, <1>11, NoneWithin
  <2>2. mem' \in [1 .. Len(line) + 1 -> Char \cup {NUL}]
    BY <1>1 DEF TypeOK
  <2>3. mem'[e] = NUL /\ \A k \in 1 .. e - 1 : mem'[k] = mem[k]
    BY <1>1, <1>5
  <2>4. e < l /\ ~(e <= Len(line))
    BY <1>2, <1>3, <1>4, <1>10
  <2>5. Whole(g, l)'
    BY <1>1, <1>5, <2>1, <2>2, <2>3, <2>4, CutWhole
  <2>6. Past' = l
    BY <1>1, <1>8, <1>10 DEF Past
  <2>7. QED
    BY <2>5, <2>6 DEF Whole
<1>12. QED
  BY <1>8, <1>9, <1>11 DEF PlainSkips

LEMMA NoTokenEnds ==
  ASSUME TypeOK, UnreadIntact, PlainSkips, NoToken
  PROVE  PlainEnds'
<1>1. /\ mem[esi] = NUL /\ esi' = esi
      /\ line' = line /\ version' = version /\ mem' = mem /\ argv' = argv
  BY DEF NoToken, given
<1>2. esi = Len(line) + 1 /\ Len(line) \in Nat /\ line \in Seq(Char)
  BY <1>1, LineAhead
<1>3. PICK m \in Nat : m = Len(line)
  BY <1>2
<1>4. esi - 1 = m /\ ~(esi <= Len(line)) /\ Firsts(line)' = Firsts(line)
  BY <1>1, <1>2, <1>3, SameRule
<1>5. Returned(Len(line))'
  <2>1. Returned(m)
    BY <1>4 DEF PlainSkips
  <2>2. QED
    BY <1>1, <1>3, <1>4, <2>1 DEF Returned, Count, Begin
<1>6. PICK l \in Int : l = Len(line) + 2
  BY <1>2
<1>7. ASSUME NEW f \in Firsts(line) PROVE Whole(f, l)'
  <2>1. f <= m
    BY <1>2, <1>3, FirstsType
  <2>2. Whole(f, l)
    BY <1>4, <1>6, <2>1 DEF PlainSkips, Past
  <2>3. l <= l /\ l <= Len(line) + 2
    BY <1>6
  <2>4. mem' \in [1 .. Len(line) + 1 -> Char \cup {NUL}]
    BY <1>1 DEF TypeOK
  <2>5. QED
    BY <1>1, <2>2, <2>3, <2>4, WholeKept
<1>8. \A f \in Firsts(line)' : Whole(f, Len(line) + 2)'
  BY <1>1, <1>4, <1>6, <1>7 DEF Whole
<1>9. QED
  BY <1>5, <1>8 DEF PlainEnds

LEMMA InitPlainwise == Init => Plainwise
<1> SUFFICES ASSUME Init PROVE Plainwise
  OBVIOUS
<1>1. /\ line \in Seq(Char) /\ Len(line) \in Nat
      /\ pc = "skip" /\ esi = 1 /\ argv = << >>
  BY LineAssumption DEF Init
<1>2. ~Inside(line, 1) /\ Between(1)
  BY InsideFirst DEF Between
<1>3. \A f \in Firsts(line) : ~(f <= 1 - 1)
  BY <1>1, FirstsType
<1>4. Returned(1 - 1)
  <2>1. Count(Firsts(line), 1 - 1) = 0
    BY <1>3, CountZero
  <2>2. QED
    BY <1>1, <1>3, <2>1 DEF Returned
<1>5. PlainSkips
  BY <1>1, <1>2, <1>3, <1>4 DEF PlainSkips
<1>6. QED
  BY <1>1, <1>5 DEF Plainwise

LEMMA NextPlainwise == IInv /\ IInv' /\ Plainwise /\ [Next]_vars => Plainwise'
<1> SUFFICES ASSUME IInv, IInv', Plainwise, [Next]_vars,
                    (~version.escapes /\ Grouped)'
             PROVE  /\ pc' = "skip" => PlainSkips'
                    /\ pc' \in {"scan", "qscan"} => \E f \in Firsts(line)' : PlainReads(f)'
                    /\ pc' = "end"  => PlainEnds'
  BY DEF Plainwise
<1>1. TypeOK /\ UnreadIntact /\ TypeOK'
  BY DEF IInv
<1>2. line' = line /\ version' = version
  BY DEF Next, vars, given, Skip, NoToken, StartQuoted, StartToken, Scan, Cut,
         LastToken, Keep, Quote, Backslashes, Finish
<1>3. ~version.escapes /\ Grouped
  <2>1. /\ \A i : Inside(line, i)' <=> Inside(line, i)
        /\ \A i : Behind(line, i)' = Behind(line, i)
        /\ \A i : Separator(line[i])' <=> Separator(line[i])
    BY <1>2, SameRule DEF Behind, Separator
  <2>2. Grouped' <=> Grouped
    BY <1>2, <2>1 DEF Grouped
  <2>3. QED
    BY <1>2, <2>2
<1>4. /\ pc = "skip" => PlainSkips
      /\ pc \in {"scan", "qscan"} => \E f \in Firsts(line) : PlainReads(f)
      /\ pc = "end"  => PlainEnds
  BY <1>3 DEF Plainwise
<1>5. Firsts(line)' = Firsts(line)
  BY <1>2, SameRule
<1>6. CASE Skip
  <2>1. pc = "skip" /\ pc' = "skip"
    BY <1>6 DEF Skip
  <2>2. PlainSkips'
    BY <1>1, <1>4, <1>6, <2>1, SkipPlain
  <2>3. QED
    BY <2>1, <2>2
<1>7. CASE NoToken
  <2>1. pc = "skip" /\ pc' = "end"
    BY <1>7 DEF NoToken
  <2>2. PlainEnds'
    BY <1>1, <1>4, <1>7, <2>1, NoTokenEnds
  <2>3. QED
    BY <2>1, <2>2
<1>8. CASE StartQuoted
  <2>1. /\ pc = "skip" /\ pc' = "qscan" /\ mem[esi] = "quote" /\ esi' = esi + 1
        /\ mem' = mem /\ argv' = Append(argv, esi')
    BY <1>8 DEF StartQuoted
  <2>2. mem[esi] # NUL /\ ~Separator(mem[esi])
    BY <2>1 DEF NUL, Separator
  <2>3. /\ esi' = (IF mem[esi] = "quote" THEN esi + 1 ELSE esi)
        /\ pc' = (IF mem[esi] = "quote" THEN "qscan" ELSE "scan")
    BY <2>1
  <2>4. \E f \in Firsts(line)' : PlainReads(f)'
    BY <1>1, <1>2, <1>4, <2>1, <2>2, <2>3, StartReads
  <2>5. QED
    BY <2>1, <2>4
<1>9. CASE StartToken
  <2>1. /\ pc = "skip" /\ pc' = "scan" /\ mem[esi] # "quote" /\ esi' = esi
        /\ mem[esi] # NUL /\ ~Separator(mem[esi])
        /\ mem' = mem /\ argv' = Append(argv, esi')
    BY <1>3, <1>9 DEF StartToken
  <2>2. /\ esi' = (IF mem[esi] = "quote" THEN esi + 1 ELSE esi)
        /\ pc' = (IF mem[esi] = "quote" THEN "qscan" ELSE "scan")
    BY <2>1
  <2>3. \E f \in Firsts(line)' : PlainReads(f)'
    BY <1>1, <1>2, <1>4, <2>1, <2>2, StartReads
  <2>4. QED
    BY <2>1, <2>3
<1>10. CASE Scan
  <2>1. pc \in {"scan", "qscan"} /\ pc' = pc
    BY <1>10 DEF Scan
  <2>2. PICK f \in Firsts(line) : PlainReads(f)
    BY <1>4, <2>1
  <2>3. PlainReads(f)'
    BY <1>1, <1>3, <1>10, <2>2, ScanReads
  <2>4. QED
    BY <1>5, <2>1, <2>3
<1>11. CASE Cut
  <2>1. pc \in {"scan", "qscan"} /\ pc' = "skip"
    BY <1>11 DEF Cut
  <2>2. PICK f \in Firsts(line) : PlainReads(f)
    BY <1>4, <2>1
  <2>3. PlainSkips'
    BY <1>1, <1>3, <1>11, <2>2, CutSkips
  <2>4. QED
    BY <2>1, <2>3
<1>12. CASE LastToken
  <2>1. pc \in {"scan", "qscan"} /\ pc' = "skip"
    BY <1>12 DEF LastToken
  <2>2. PICK f \in Firsts(line) : PlainReads(f)
    BY <1>4, <2>1
  <2>3. PlainSkips'
    BY <1>1, <1>3, <1>12, <2>2, LastSkips
  <2>4. QED
    BY <2>1, <2>3
<1>13. CASE Keep \/ Quote \/ Backslashes \/ Finish
  BY <1>3, <1>13 DEF Keep, Quote, Backslashes, Finish, Escaping
<1>14. CASE UNCHANGED vars
  <2>1. /\ mem' = mem /\ argv' = argv /\ esi' = esi /\ pc' = pc
    BY <1>14 DEF vars
  <2>2. /\ \A f : Argument(line, f)' = Argument(line, f)
        /\ \A f : Begin(f)' = Begin(f)
    BY <1>2, SameRule DEF Begin
  <2>3. \A f, m : Whole(f, m)' <=> Whole(f, m)
    BY <1>2, <2>1, <2>2 DEF Whole
  <2>4. /\ \A m : Returned(m)' <=> Returned(m)
        /\ Returned(esi - 1)' <=> Returned(esi - 1)
        /\ Returned(Len(line))' <=> Returned(Len(line))
    BY <1>2, <1>5, <2>1, <2>2 DEF Returned, Count
  <2>5. /\ Between(esi)' <=> Between(esi)
        /\ Inside(line, esi)' <=> Inside(line, esi)
        /\ Separator(line[esi])' <=> Separator(line[esi])
    BY <1>2, <2>1 DEF Between, Parts, Inside, Delimits, Behind, Separator
  <2>6. PICK l : l = Past
    OBVIOUS
  <2>7. \A f : Whole(f, Past)' <=> Whole(f, Past)
    <3>1. l = Past'
      BY <1>2, <2>1, <2>6 DEF Past
    <3>2. \A f : Whole(f, Past)' <=> Whole(f, l)'
      BY <3>1 DEF Whole
    <3>3. QED
      BY <2>3, <2>6, <3>2
  <2>8. PlainSkips' <=> PlainSkips
    BY <1>2, <1>5, <2>1, <2>4, <2>5, <2>7 DEF PlainSkips
  <2>9. PlainEnds' <=> PlainEnds
    <3>1. \A f : Whole(f, Len(line) + 2)' <=> Whole(f, Len(line) + 2)
      BY <1>2, <2>1, <2>2 DEF Whole
    <3>2. QED
      BY <1>5, <2>4, <3>1 DEF PlainEnds
  <2>10. \A f : Plainly(f, esi)' <=> Plainly(f, esi)
    BY <1>2, <2>1, <2>2 DEF Plainly, Separator
  <2>11. \A f : PlainReads(f)' <=> PlainReads(f)
    BY <1>2, <1>5, <2>1, <2>2, <2>3, <2>4, <2>10 DEF PlainReads
  <2>12. QED
    BY <1>4, <1>5, <2>1, <2>8, <2>9, <2>11
<1>15. QED
  BY <1>6, <1>7, <1>8, <1>9, <1>10, <1>11, <1>12, <1>13, <1>14 DEF Next

LEMMA PlainIsRight == TypeOK /\ PlainEnds => Arguments = Argv(line)
<1> SUFFICES ASSUME TypeOK, PlainEnds PROVE Arguments = Argv(line)
  OBVIOUS
<1> DEFINE F == Firsts(line)
           first == Ascending(F)
<1>1. /\ Len(line) \in Nat /\ line \in Seq(Char) /\ argv \in Seq(1 .. Len(line) + 1)
      /\ mem \in [1 .. Len(line) + 1 -> Char \cup {NUL}]
  BY DEF TypeOK
<1>2. F \in SUBSET (1 .. Len(line)) /\ \A f \in F : f >= 1 /\ f <= Len(line)
  BY <1>1, FirstsType
<1>3. Len(argv) = Count(F, Len(line)) /\ \A f \in F : argv[Count(F, f)] = Begin(f)
  BY <1>2 DEF PlainEnds, Returned
<1>4. Count(F, Len(line)) = Cardinality(F)
  <2>1. {f \in F : f <= Len(line)} = F
    BY <1>2
  <2>2. QED
    BY <2>1 DEF Count
<1>5. /\ DOMAIN first = 1 .. Cardinality(F) /\ Cardinality(F) \in Nat
      /\ \A n \in 1 .. Cardinality(F) : first[n] \in F /\ Count(F, first[n]) = n
  <2> HIDE DEF F
  <2>1. QED
    BY <1>1, <1>2, AscendingIs
<1> HIDE DEF F, first
<1>6. DOMAIN argv = DOMAIN first
  BY <1>1, <1>3, <1>4, <1>5
<1>7. \A n \in DOMAIN first : argv[n] = Begin(first[n])
  BY <1>3, <1>5
<1>8. ASSUME NEW n \in DOMAIN first PROVE StringAt(argv[n]) = Argument(line, first[n])
  <2>1. PICK f \in F : f = first[n]
    BY <1>5
  <2>2. PICK p \in Nat \ {0} : p = Begin(f)
    BY <1>1, <1>2 DEF Begin
  <2>3. p = argv[n]
    BY <1>7, <2>1, <2>2
  <2>4. PICK e \in p .. Len(line) + 2 - 1 :
          /\ mem[e] = NUL
          /\ \A j \in p .. e - 1 : mem[j] \in Char
          /\ SubSeq(mem, p, e - 1) = Argument(line, f)
    <3>1. Whole(f, Len(line) + 2)
      BY DEF PlainEnds, F
    <3>2. QED
      BY <2>2, <3>1 DEF Whole
  <2>5. StringAt(p) = Argument(line, f)
    BY <1>1, <2>4, StringIs
  <2>6. QED
    BY <2>1, <2>3, <2>5
<1>9. Arguments = [n \in DOMAIN first |-> Argument(line, first[n])]
  BY <1>6, <1>8 DEF Arguments
<1>10. Argv(line) = [n \in DOMAIN first |-> Argument(line, first[n])]
  BY DEF Argv, first, F
<1>11. QED
  BY <1>9, <1>10

(* The copies hex0, hex1, hex2 and catm carry split by the same rule every *)
(* line whose quotes stand only around whole arguments, which are those    *)
(* the build writes.                                                       *)
THEOREM PlainLinesAgree == Spec => []PlainAgrees
<1>1. Init => IInv /\ Plainwise
  BY InitIInv, InitPlainwise
<1>2. IInv /\ Plainwise /\ [Next]_vars => IInv' /\ Plainwise'
  BY NextIInv, NextPlainwise
<1>3. IInv /\ Plainwise => PlainAgrees
  BY PlainIsRight DEF IInv, Plainwise, PlainAgrees
<1>4. QED
  BY <1>1, <1>2, <1>3, PTL DEF Spec

(* Step by step: a run of backslashes, and what stands at its end.         *)
LEMMA BehindExists ==
  ASSUME NEW s, NEW i \in Nat \ {0}
  PROVE  /\ Behind(s, i) \in 0 .. i - 1
         /\ i # 1 /\ s[i - 1] = "slash" => Behind(s, i) = Behind(s, i - 1) + 1
<1> DEFINE Is(k, n) == /\ \A j \in k - n .. k - 1 : s[j] = "slash"
                       /\ n = k - 1 \/ s[k - n - 1] # "slash"
           S == {k \in Nat : k = 0 \/ \E n \in 0 .. k - 1 : Is(k, n)}
<1>1. ASSUME NEW k \in Nat \ {0, 1}, NEW n \in 0 .. (k - 1) - 1, Is(k - 1, n),
             s[k - 1] = "slash"
      PROVE  n + 1 \in 0 .. k - 1 /\ Is(k, n + 1)
  <2>1. /\ n + 1 \in 0 .. k - 1 /\ k - (n + 1) = (k - 1) - n
        /\ k - (n + 1) - 1 = (k - 1) - n - 1
    OBVIOUS
  <2>2. \A j \in k - (n + 1) .. k - 1 : j = k - 1 \/ j \in (k - 1) - n .. (k - 1) - 1
    OBVIOUS
  <2>3. \A j \in k - (n + 1) .. k - 1 : s[j] = "slash"
    BY <1>1, <2>2
  <2>4. n + 1 = k - 1 \/ s[k - (n + 1) - 1] # "slash"
    BY <1>1, <2>1
  <2>5. QED
    BY <2>1, <2>3, <2>4
<1>2. ASSUME NEW k \in Nat \ {0}, k = 1 \/ s[k - 1] # "slash"
      PROVE  0 \in 0 .. k - 1 /\ Is(k, 0)
  <2>1. 0 \in 0 .. k - 1 /\ k - 0 .. k - 1 = {} /\ k - 0 - 1 = k - 1
    OBVIOUS
  <2>2. QED
    BY <1>2, <2>1
<1> HIDE DEF Is
<1>3. 0 \in S
  OBVIOUS
<1>4. ASSUME NEW k \in 1 .. i, k - 1 \in S
      PROVE  k \in S
  <2>1. CASE k = 1 \/ s[k - 1] # "slash"
    BY <1>2, <2>1
  <2>2. CASE k # 1 /\ s[k - 1] = "slash"
    <3>1. PICK n \in 0 .. (k - 1) - 1 : Is(k - 1, n)
      BY <1>4, <2>2
    <3>2. n + 1 \in 0 .. k - 1 /\ Is(k, n + 1)
      BY <1>1, <2>2, <3>1
    <3>3. QED
      BY <3>2
  <2>3. QED
    BY <2>1, <2>2
<1>5. 0 .. i \subseteq S
  <2> HIDE DEF S
  <2>1. QED
    BY <1>3, <1>4, Climb
<1>6. ASSUME NEW k \in 1 .. i
      PROVE  \E n \in 0 .. k - 1 : Is(k, n) /\ Behind(s, k) = n
  <2>1. PICK n \in 0 .. k - 1 : Is(k, n)
    BY <1>5
  <2>2. Behind(s, k) = n
    <3>1. k \in Nat \ {0}
      OBVIOUS
    <3>2. QED
      BY <2>1, <3>1, BehindIs DEF Is
  <2>3. QED
    BY <2>1, <2>2
<1>7. Behind(s, i) \in 0 .. i - 1
  BY <1>6
<1>8. ASSUME i # 1, s[i - 1] = "slash"
      PROVE  Behind(s, i) = Behind(s, i - 1) + 1
  <2>1. PICK n \in 0 .. (i - 1) - 1 : Is(i - 1, n) /\ Behind(s, i - 1) = n
    <3>1. i - 1 \in 1 .. i
      BY <1>8
    <3>2. QED
      BY <1>6, <3>1
  <2>2. n + 1 \in 0 .. i - 1 /\ Is(i, n + 1)
    BY <1>1, <1>8, <2>1
  <2>3. Behind(s, i) = n + 1
    BY <2>2, BehindIs DEF Is
  <2>4. QED
    BY <2>1, <2>3
<1>9. QED
  BY <1>7, <1>8

LEMMA BeforeIs ==
  ASSUME NEW s, Len(s) \in Nat, NEW p \in 1 .. Len(s) - 1, s[p] = "slash"
  PROVE  BeforeQuote(s, p) <=> \/ s[p + 1] = "quote"
                               \/ s[p + 1] = "slash" /\ BeforeQuote(s, p + 1)
<1>1. ASSUME s[p + 1] = "quote" PROVE BeforeQuote(s, p)
  <2>1. p + 1 \in p + 1 .. Len(s) /\ p .. (p + 1) - 1 = {p}
    OBVIOUS
  <2>2. QED
    BY <1>1, <2>1 DEF BeforeQuote
<1>2. ASSUME s[p + 1] = "slash", BeforeQuote(s, p + 1) PROVE BeforeQuote(s, p)
  <2>1. PICK q \in (p + 1) + 1 .. Len(s) :
          s[q] = "quote" /\ \A j \in p + 1 .. q - 1 : s[j] = "slash"
    BY <1>2 DEF BeforeQuote
  <2>2. q \in p + 1 .. Len(s) /\ \A j \in p .. q - 1 : j = p \/ j \in p + 1 .. q - 1
    OBVIOUS
  <2>3. QED
    BY <2>1, <2>2 DEF BeforeQuote
<1>3. ASSUME BeforeQuote(s, p), s[p + 1] # "quote"
      PROVE  s[p + 1] = "slash" /\ BeforeQuote(s, p + 1)
  <2>1. PICK q \in p + 1 .. Len(s) :
          s[q] = "quote" /\ \A j \in p .. q - 1 : s[j] = "slash"
    BY <1>3 DEF BeforeQuote
  <2>2. q # p + 1
    BY <1>3, <2>1
  <2>3. q \in (p + 1) + 1 .. Len(s) /\ p + 1 \in p .. q - 1
        /\ \A j \in p + 1 .. q - 1 : j \in p .. q - 1
    BY <2>2
  <2>4. QED
    BY <2>1, <2>3 DEF BeforeQuote
<1>4. QED
  BY <1>1, <1>2, <1>3

-----------------------------------------------------------------------------
(* g lists the members of S, the least first. *)
Rises(m, n, g, S) ==
  /\ g \in [1 .. n -> 1 .. m]
  /\ \A i \in 1 .. n : i # 1 => g[i - 1] < g[i]
  /\ S = {g[i] : i \in 1 .. n}

LEMMA RisesIs ==
  ASSUME NEW m \in Nat, NEW n \in Nat, NEW g, NEW S, Rises(m, n, g, S)
  PROVE  /\ S \in SUBSET (1 .. m) /\ Cardinality(S) = n
         /\ \A i \in 1 .. n : Ascending(S)[i] = g[i]
<1>0. /\ g \in [1 .. n -> 1 .. m]
      /\ \A i \in 1 .. n : i # 1 => g[i - 1] < g[i]
      /\ S = {g[i] : i \in 1 .. n}
  BY DEF Rises
<1> USE <1>0
<1>1. S \in SUBSET (1 .. m) /\ \A i \in 1 .. n : g[i] \in 1 .. m /\ g[i] \in S
  OBVIOUS
<1>2. S \subseteq Int /\ IsFiniteSet(S) /\ \A j \in S : j >= 1 /\ j <= m
  BY <1>1, Positions
<1> DEFINE T == {i \in Nat : i = 0 \/ \A k \in 1 .. i : g[k] <= g[i] /\ (g[k] = g[i] => k = i)}
<1>3. 0 \in T
  OBVIOUS
<1>4. ASSUME NEW i \in 1 .. n, i - 1 \in T
      PROVE  i \in T
  <2>1. CASE i = 1
    <3>1. \A k \in 1 .. 1 : k = 1
      OBVIOUS
    <3>2. QED
      BY <1>1, <2>1, <3>1
  <2>2. CASE i # 1
    <3>1. g[i - 1] < g[i] /\ i - 1 \in 1 .. n
      BY <2>2
    <3>2. \A k \in 1 .. i - 1 : g[k] <= g[i - 1] /\ k \in 1 .. n
      BY <1>4, <2>2
    <3>3. ASSUME NEW k \in 1 .. i
          PROVE  g[k] <= g[i] /\ (g[k] = g[i] => k = i)
      <4>0. k \in 1 .. n
        OBVIOUS
      <4>1. g[k] \in Int /\ g[i] \in Int /\ g[i - 1] \in Int
        BY <1>1, <3>1, <4>0
      <4>2. k # i => g[k] <= g[i - 1]
        BY <3>2
      <4>3. QED
        BY <3>1, <4>1, <4>2
    <3>4. QED
      BY <3>3
  <2>3. QED
    BY <2>1, <2>2
<1>5. 0 .. n \subseteq T
  <2> HIDE DEF T
  <2>1. QED
    BY <1>3, <1>4, Climb
<1>6. \A i \in 1 .. n : \A k \in 1 .. i : g[k] <= g[i] /\ (g[k] = g[i] => k = i)
  BY <1>5
<1> HIDE DEF T
<1>7. \A i \in 1 .. n : \A k \in i .. n : g[i] <= g[k]
  <2>1. ASSUME NEW i \in 1 .. n, NEW k \in i .. n PROVE g[i] <= g[k]
    <3>1. k \in 1 .. n /\ i \in 1 .. k
      OBVIOUS
    <3>2. QED
      BY <1>6, <3>1
  <2>2. QED
    BY <2>1
<1> DEFINE U == {i \in Nat : i = 0 \/ Count(S, g[i]) = i}
<1>8. 0 \in U
  OBVIOUS
<1>9. ASSUME NEW i \in 1 .. n, i - 1 \in U
      PROVE  i \in U
  <2>1. g[i] \in S /\ g[i] \in Int /\ g[i] - 1 \in Int
    BY <1>1
  <2>2. Count(S, g[i]) = Count(S, g[i] - 1) + 1
    BY <1>2, <2>1, CountNext
  <2>3. CASE i = 1
    <3>1. \A j \in S : ~(j <= g[1] - 1)
      <4>1. \A k \in 1 .. n : g[1] <= g[k]
        BY <1>7, <2>3
      <4>2. QED
        BY <1>1, <2>1, <2>3, <4>1
    <3>2. Count(S, g[1] - 1) = 0
      BY <3>1, CountZero
    <3>3. QED
      BY <2>2, <2>3, <3>2
  <2>4. CASE i # 1
    <3>1. g[i - 1] < g[i] /\ i - 1 \in 1 .. n /\ g[i - 1] \in Int
      BY <1>1, <2>4
    <3>2. \A j \in g[i - 1] + 1 .. g[i] - 1 : j \notin S
      <4>1. ASSUME NEW j \in g[i - 1] + 1 .. g[i] - 1, j \in S PROVE FALSE
        <5>1. PICK k \in 1 .. n : j = g[k]
          BY <4>1
        <5>2. ~(k <= i - 1)
          <6>1. k <= i - 1 => k \in 1 .. i - 1
            OBVIOUS
          <6>2. \A h \in 1 .. i - 1 : g[h] <= g[i - 1]
            BY <1>6, <3>1
          <6>3. k <= i - 1 => j <= g[i - 1]
            BY <5>1, <6>1, <6>2
          <6>4. ~(j <= g[i - 1])
            BY <2>1, <3>1, <4>1
          <6>5. QED
            BY <6>3, <6>4
        <5>3. ~(k >= i)
          <6>1. k >= i => g[i] <= g[k]
            BY <1>7
          <6>2. ~(g[i] <= j)
            BY <2>1, <3>1, <4>1
          <6>3. QED
            BY <5>1, <6>1, <6>2
        <5>4. QED
          BY <5>2, <5>3
      <4>2. QED
        BY <4>1
    <3>3. g[i - 1] <= g[i] - 1
      BY <2>1, <3>1
    <3>4. Count(S, g[i] - 1) = Count(S, g[i - 1])
      BY <1>2, <2>1, <3>1, <3>2, <3>3, CountFlat
    <3>5. Count(S, g[i - 1]) = i - 1
      BY <1>9, <2>4
    <3>6. QED
      BY <2>2, <3>4, <3>5
  <2>5. QED
    BY <2>3, <2>4
<1>10. \A i \in 1 .. n : Count(S, g[i]) = i
  <2>1. 0 .. n \subseteq U
    <3> HIDE DEF U
    <3>1. QED
      BY <1>8, <1>9, Climb
  <2>2. \A i \in 1 .. n : i \in U /\ i # 0
    <3> HIDE DEF U
    <3>1. \A i \in 1 .. n : i \in 0 .. n /\ i # 0
      OBVIOUS
    <3>2. QED
      BY <2>1, <3>1
  <2>3. QED
    BY <2>2
<1> HIDE DEF U
<1>11. Cardinality(S) = n
  <2>1. CASE n = 0
    <3>1. S = {}
      BY <2>1
    <3>2. QED
      BY <2>1, <3>1, FS_EmptySet
  <2>2. CASE n # 0
    <3>1. n \in 1 .. n /\ \A k \in 1 .. n : g[k] <= g[n]
      BY <1>6, <2>2
    <3>2. {j \in S : j <= g[n]} = S
      BY <3>1
    <3>3. QED
      BY <1>10, <3>1, <3>2 DEF Count
  <2>3. QED
    BY <2>1, <2>2
<1>12. ASSUME NEW i \in 1 .. n PROVE Ascending(S)[i] = g[i]
  <2>1. Ascending(S)[i] \in S /\ Count(S, Ascending(S)[i]) = i
    BY <1>1, <1>11, AscendingIs
  <2>2. PICK k \in 1 .. n : Ascending(S)[i] = g[k]
    BY <2>1
  <2>3. Count(S, g[k]) = k
    BY <1>10
  <2>4. QED
    BY <2>1, <2>2, <2>3
<1>13. QED
  BY <1>1, <1>11, <1>12

-----------------------------------------------------------------------------
(* Where the pieces of a sequence put together stand in it. *)

(* What FlattenSeq is defined by, over the first n pieces. *)
Flattens(seqs, n, f) ==
  f = [i \in 1 .. n |-> IF i = 1 THEN seqs[i] ELSE f[i - 1] \o seqs[i]]

LEMMA FlatExists ==
  ASSUME NEW seqs, NEW n \in Nat
  PROVE  \E f : Flattens(seqs, n, f)
<1> DEFINE S == {m \in Nat : \E f : Flattens(seqs, m, f)}
<1>1. 0 \in S
  <2> DEFINE f == [i \in 1 .. 0 |-> 1]
  <2>1. Flattens(seqs, 0, f)
    BY DEF Flattens
  <2>2. QED
    BY <2>1
<1>2. ASSUME NEW m \in 1 .. n, m - 1 \in S
      PROVE  m \in S
  <2>1. PICK f : Flattens(seqs, m - 1, f)
    BY <1>2
  <2> DEFINE g == [i \in 1 .. m |->
                     IF i # m THEN f[i]
                     ELSE IF m = 1 THEN seqs[m] ELSE f[m - 1] \o seqs[m]]
  <2>2. ASSUME NEW i \in 1 .. m
        PROVE  g[i] = IF i = 1 THEN seqs[i] ELSE g[i - 1] \o seqs[i]
    <3>1. CASE i = m
      <4>1. m # 1 => g[m - 1] = f[m - 1]
        OBVIOUS
      <4>2. g[m] = IF m = 1 THEN seqs[m] ELSE f[m - 1] \o seqs[m]
        OBVIOUS
      <4> HIDE DEF g
      <4>3. QED
        BY <3>1, <4>1, <4>2
    <3>2. CASE i # m
      <4>1. i \in 1 .. m - 1 /\ (i # 1 => i - 1 \in 1 .. m - 1)
        BY <3>2
      <4>2. g[i] = f[i] /\ (i # 1 => g[i - 1] = f[i - 1])
        BY <4>1
      <4>3. f[i] = IF i = 1 THEN seqs[i] ELSE f[i - 1] \o seqs[i]
        BY <2>1, <4>1 DEF Flattens
      <4> HIDE DEF g
      <4>4. QED
        BY <4>2, <4>3
    <3>3. QED
      BY <3>1, <3>2
  <2>3. g = [i \in 1 .. m |-> g[i]]
    OBVIOUS
  <2>4. Flattens(seqs, m, g)
    <3> HIDE DEF g
    <3>1. QED
      BY <2>2, <2>3 DEF Flattens
  <2>5. \E h : Flattens(seqs, m, h)
    BY <2>4
  <2>6. QED
    BY <2>5
<1>3. n \in S
  <2> HIDE DEF S
  <2>1. 0 .. n \subseteq S
    BY <1>1, <1>2, Climb
  <2>2. QED
    BY <2>1
<1>4. QED
  BY <1>3

LEMMA JoinedIs ==
  ASSUME NEW T, NEW x \in Seq(T), NEW y \in Seq(T)
  PROVE  /\ x \o y \in Seq(T) /\ Len(x \o y) = Len(x) + Len(y)
         /\ \A i \in 1 .. Len(x) : (x \o y)[i] = x[i]
         /\ \A i \in 1 .. Len(y) : (x \o y)[Len(x) + i] = y[i]
<1>1. x \o y \in Seq(T) /\ Len(x \o y) = Len(x) + Len(y)
  OBVIOUS
<1>2. ASSUME NEW i \in 1 .. Len(x) PROVE (x \o y)[i] = x[i]
  OBVIOUS
<1>3. ASSUME NEW i \in 1 .. Len(y) PROVE (x \o y)[Len(x) + i] = y[i]
  OBVIOUS
<1>4. QED
  BY <1>1, <1>2, <1>3

(* One piece put to those before it. *)
LEMMA OneMore ==
  ASSUME NEW T, NEW x \in Seq(T), NEW y \in Seq(T), NEW z, z = x \o y
  PROVE  /\ z \in Seq(T) /\ Len(x) \in Nat /\ Len(y) \in Nat /\ Len(z) = Len(x) + Len(y)
         /\ \A i \in 1 .. Len(x) : z[i] = x[i]
         /\ \A i \in 1 .. Len(y) : z[(Len(x) + 1) + i - 1] = y[i]
<1>1. /\ Len(x) \in Nat /\ Len(y) \in Nat
      /\ \A i \in 1 .. Len(y) : (Len(x) + 1) + i - 1 = Len(x) + i
  OBVIOUS
<1>2. QED
  BY <1>1, JoinedIs

(* Where piece j of those put together in z ends, and what stands in it.   *)
Placed(z, begin, end, piece) ==
  /\ end <= Len(z) + 1
  /\ \A i \in 1 .. Len(piece) : z[begin + i - 1] = piece[i]

LEMMA PlacedOn ==
  ASSUME NEW T, NEW x \in Seq(T), NEW y \in Seq(T), NEW z, z = x \o y,
         NEW begin \in Nat \ {0}, NEW piece, Len(piece) \in Nat,
         Placed(x, begin, begin + Len(piece), piece)
  PROVE  Placed(z, begin, begin + Len(piece), piece)
<1>1. /\ Len(x) \in Nat /\ Len(y) \in Nat /\ Len(z) = Len(x) + Len(y)
      /\ \A i \in 1 .. Len(x) : z[i] = x[i]
  BY OneMore
<1> DEFINE l == Len(x)  c == Len(piece)
<1>2. begin + c <= l + 1
  BY DEF Placed
<1>3. \A i \in 1 .. c : begin + i - 1 \in 1 .. l
  <2>1. l \in Nat /\ c \in Nat
    BY <1>1
  <2> HIDE DEF l, c
  <2>2. QED
    BY <1>2, <2>1
<1>4. begin + c <= Len(z) + 1
  BY <1>1, <1>2
<1>5. QED
  BY <1>1, <1>3, <1>4 DEF Placed

(* at says where each of the n pieces of p begins in whole.                *)
Laid(T, n, p, whole, at) ==
  /\ at \in [1 .. n + 1 -> Nat \ {0}]
  /\ at[1] = 1
  /\ \A k \in 1 .. n :
       /\ at[k + 1] = at[k] + Len(p[k]) /\ at[k + 1] <= Len(whole) + 1
       /\ \A i \in 1 .. Len(p[k]) : whole[at[k] + i - 1] = p[k][i]
  /\ at[n + 1] = Len(whole) + 1
  /\ whole \in Seq(T)

LEMMA LayoutOf ==
  ASSUME NEW T, NEW n \in Nat \ {0}, NEW p, \A k \in 1 .. n : p[k] \in Seq(T),
         NEW f, \A k \in 1 .. n : f[k] = IF k = 1 THEN p[k] ELSE f[k - 1] \o p[k]
  PROVE  \E at : Laid(T, n, p, f[n], at)
<1> DEFINE at == [k \in 1 .. n + 1 |-> IF k = 1 THEN 1 ELSE Len(f[k - 1]) + 1]
           Good(k) == /\ f[k] \in Seq(T) /\ at[k] \in Nat \ {0}
                      /\ at[k + 1] = Len(f[k]) + 1
                      /\ at[k + 1] = at[k] + Len(p[k])
                      /\ \A j \in 1 .. k : Placed(f[k], at[j], at[j + 1], p[j])
           S == {k \in Nat : \A j \in 1 .. k : Good(j)}
<1>1. at[1] = 1 /\ \A k \in 1 .. n : at[k + 1] = Len(f[k]) + 1
  <2>1. 1 \in 1 .. n + 1
    OBVIOUS
  <2>2. ASSUME NEW k \in 1 .. n PROVE at[k + 1] = Len(f[k]) + 1
    <3>1. k + 1 \in 1 .. n + 1 /\ k + 1 # 1 /\ (k + 1) - 1 = k
      OBVIOUS
    <3>2. QED
      BY <3>1
  <2>3. QED
    BY <2>1, <2>2
<1>2. at = [k \in 1 .. n + 1 |-> at[k]]
  OBVIOUS
<1> HIDE DEF at
<1>3. 0 \in S
  OBVIOUS
<1>4. ASSUME NEW k \in 1 .. n, k - 1 \in S PROVE k \in S
  <2>1. PICK y \in Seq(T) : y = p[k]
    OBVIOUS
  <2>2. PICK z : z = f[k]
    OBVIOUS
  <2>3. Len(y) \in Nat /\ at[k + 1] = Len(z) + 1
    BY <1>1, <2>2
  <2>4. Good(k)
    <3>1. CASE k = 1
      <4>1. z = y /\ at[k] = 1
        BY <1>1, <2>1, <2>2, <3>1
      <4>2. at[k + 1] = at[k] + Len(y)
        BY <2>3, <4>1
      <4>3. Placed(z, at[k], at[k + 1], y)
        <5>1. \A i \in 1 .. Len(y) : 1 + i - 1 = i
          BY <2>3
        <5>2. Len(z) + 1 <= Len(z) + 1
          BY <2>3, <4>1
        <5>3. QED
          BY <2>3, <4>1, <5>1, <5>2 DEF Placed
      <4>4. \A j \in 1 .. k : j = k
        BY <3>1
      <4>5. QED
        BY <2>1, <2>2, <2>3, <4>1, <4>2, <4>3, <4>4
    <3>2. CASE k # 1
      <4>0. k - 1 \in 1 .. n /\ k - 1 \in 1 .. k - 1 /\ (k - 1) + 1 = k
        BY <3>2
      <4>1. Good(k - 1)
        BY <1>4, <4>0
      <4>2. PICK x \in Seq(T) : x = f[k - 1]
        BY <4>1
      <4>3. z = x \o y /\ at[k] = Len(x) + 1 /\ Len(x) \in Nat
        <5>1. f[k] = f[k - 1] \o p[k]
          BY <3>2
        <5>2. at[k] = Len(f[k - 1]) + 1
          BY <4>0, <4>1
        <5>3. Len(x) \in Nat
          OBVIOUS
        <5>4. QED
          BY <2>1, <2>2, <4>2, <5>1, <5>2, <5>3
      <4>4. /\ z \in Seq(T) /\ Len(z) = Len(x) + Len(y)
            /\ \A i \in 1 .. Len(y) : z[(Len(x) + 1) + i - 1] = y[i]
        BY <4>3, OneMore
      <4>5. at[k + 1] = at[k] + Len(y)
        BY <2>3, <4>3, <4>4
      <4>6. Placed(z, at[k], at[k + 1], y)
        <5>1. Len(z) + 1 <= Len(z) + 1
          BY <2>3, <4>3, <4>4
        <5>2. QED
          BY <2>3, <4>3, <4>4, <5>1 DEF Placed
      <4>7. ASSUME NEW j \in 1 .. k - 1 PROVE Placed(z, at[j], at[j + 1], p[j])
        <5>1. j \in 1 .. n
          OBVIOUS
        <5>2. Good(j) /\ Placed(x, at[j], at[j + 1], p[j])
          BY <1>4, <4>0, <4>1, <4>2
        <5>3. PICK piece \in Seq(T) : piece = p[j]
          BY <5>1
        <5>4. PICK begin \in Nat \ {0} : begin = at[j]
          BY <5>2
        <5>5. at[j + 1] = begin + Len(piece) /\ Len(piece) \in Nat
              /\ Placed(x, begin, begin + Len(piece), piece)
          BY <5>2, <5>3, <5>4
        <5>6. Placed(z, begin, begin + Len(piece), piece)
          BY <4>3, <5>5, PlacedOn
        <5>7. QED
          BY <5>3, <5>4, <5>5, <5>6
      <4>8. \A j \in 1 .. k : j = k \/ j \in 1 .. k - 1
        OBVIOUS
      <4>9. \A j \in 1 .. k : Placed(z, at[j], at[j + 1], p[j])
        BY <2>1, <4>6, <4>7, <4>8
      <4>10. at[k] \in Nat \ {0}
        BY <4>3
      <4>11. QED
        BY <2>1, <2>2, <2>3, <4>4, <4>5, <4>9, <4>10
    <3>3. QED
      BY <3>1, <3>2
  <2>5. \A j \in 1 .. k : j = k \/ j \in 1 .. k - 1
    OBVIOUS
  <2> HIDE DEF Good
  <2>6. QED
    BY <1>4, <2>4, <2>5
<1>5. \A k \in 1 .. n : Good(k)
  <2> HIDE DEF Good
  <2>1. 0 .. n \subseteq S
    <3> HIDE DEF S
    <3>1. QED
      BY <1>3, <1>4, Climb
  <2>2. n \in 0 .. n
    OBVIOUS
  <2>3. QED
    BY <2>1, <2>2
<1> HIDE DEF S
<1>6. at \in [1 .. n + 1 -> Nat \ {0}]
  <2>1. ASSUME NEW k \in 1 .. n + 1 PROVE at[k] \in Nat \ {0}
    <3>1. CASE k \in 1 .. n
      BY <1>5, <3>1
    <3>2. CASE k = n + 1
      <4>1. n \in 1 .. n /\ Good(n)
        BY <1>5
      <4>2. at[n + 1] = Len(f[n]) + 1 /\ Len(f[n]) \in Nat
        BY <4>1
      <4>3. QED
        BY <3>2, <4>2
    <3>3. QED
      BY <3>1, <3>2
  <2>2. QED
    BY <1>2, <2>1
<1>7. Good(n)
  BY <1>5
<1>8. ASSUME NEW k \in 1 .. n
      PROVE  /\ at[k + 1] = at[k] + Len(p[k]) /\ at[k + 1] <= Len(f[n]) + 1
             /\ \A i \in 1 .. Len(p[k]) : f[n][at[k] + i - 1] = p[k][i]
  BY <1>5, <1>7 DEF Placed
<1>9. at[n + 1] = Len(f[n]) + 1 /\ f[n] \in Seq(T)
  BY <1>7
<1>10. Laid(T, n, p, f[n], at)
  BY <1>1, <1>6, <1>8, <1>9 DEF Laid
<1>11. QED
  BY <1>10

LEMMA Layout ==
  ASSUME NEW T, NEW n \in Nat, NEW p, p = [k \in 1 .. n |-> p[k]],
         \A k \in 1 .. n : p[k] \in Seq(T)
  PROVE  \E at : Laid(T, n, p, FlattenSeq(p), at)
<1>0. Len(p) = n
  <2>1. p \in Seq(Seq(T))
    OBVIOUS
  <2>2. DOMAIN p = 1 .. n /\ DOMAIN p = 1 .. Len(p) /\ Len(p) \in Nat
    BY <2>1
  <2>3. QED
    BY <2>2
<1>1. CASE n = 0
  <2>1. p = << >> /\ FlattenSeq(p) = << >>
    <3>1. p = << >>
      BY <1>1
    <3>2. FlattenSeq(<< >>) = << >>
      BY DEF FlattenSeq
    <3>3. QED
      BY <3>1, <3>2
  <2>2. << >> \in Seq(T) /\ Len(<< >>) = 0
    OBVIOUS
  <2> DEFINE at == [k \in 1 .. n + 1 |-> 1]
  <2>3. at \in [1 .. n + 1 -> Nat \ {0}]
    OBVIOUS
  <2>4. at[1] = 1 /\ n + 1 = 1
    BY <1>1
  <2>5. 1 .. n = {}
    BY <1>1
  <2> HIDE DEF at
  <2>6. Laid(T, n, p, FlattenSeq(p), at)
    BY <2>1, <2>2, <2>3, <2>4, <2>5 DEF Laid
  <2>7. QED
    BY <2>6
<1>2. CASE n # 0
  <2> DEFINE f == CHOOSE h : Flattens(p, n, h)
  <2>1. Flattens(p, n, f)
    BY FlatExists
  <2>2. FlattenSeq(p) = f[n]
    BY <1>0, <1>2 DEF FlattenSeq, Flattens
  <2> HIDE DEF f
  <2>3. \A k \in 1 .. n : f[k] = IF k = 1 THEN p[k] ELSE f[k - 1] \o p[k]
    BY <2>1 DEF Flattens
  <2>4. n \in Nat \ {0}
    BY <1>2
  <2>5. \E at : Laid(T, n, p, f[n], at)
    BY <2>3, <2>4, LayoutOf
  <2>6. QED
    BY <2>2, <2>5
<1>3. QED
  BY <1>1, <1>2

-----------------------------------------------------------------------------
(* An argument between its quotes, from b on: place i of it is spelled at  *)
(* at[i] and the closing quote stands at the last of at.                   *)

(* A quote follows the run of backslashes at i, its own or the closing one. *)
Doubled(arg, i) == BeforeQuote(Append(arg, "quote"), i)

Spelled(s, p, q, arg, i) ==
  IF arg[i] = "quote" THEN s[p] = "slash" /\ s[p + 1] = "quote" /\ q = p + 2
  ELSE IF arg[i] = "slash" /\ Doubled(arg, i)
    THEN s[p] = "slash" /\ s[p + 1] = "slash" /\ q = p + 2
  ELSE s[p] = arg[i] /\ q = p + 1

Shown(s, b, arg, at) ==
  /\ at \in [1 .. Len(arg) + 1 -> Nat \ {0}] /\ at[1] = b + 1
  /\ \A i \in 1 .. Len(arg) : Spelled(s, at[i], at[i + 1], arg, i)
  /\ b = 1 \/ s[b - 1] = "space"
  /\ s[b] = "quote"
  /\ s[at[Len(arg) + 1]] = "quote" /\ at[Len(arg) + 1] <= Len(s)
  /\ at[Len(arg) + 1] = Len(s) \/ s[at[Len(arg) + 1] + 1] = "space"

LEMMA DoubledIs ==
  ASSUME NEW arg \in Seq(Char), NEW i \in 1 .. Len(arg), arg[i] = "slash"
  PROVE  Doubled(arg, i) <=> \/ i = Len(arg) \/ arg[i + 1] = "quote"
                             \/ arg[i + 1] = "slash" /\ Doubled(arg, i + 1)
<1> DEFINE t == Append(arg, "quote")
<1>1. /\ Len(arg) \in Nat /\ Len(t) = Len(arg) + 1 /\ t[Len(arg) + 1] = "quote"
      /\ \A j \in 1 .. Len(arg) : t[j] = arg[j]
  OBVIOUS
<1> HIDE DEF t
<1>2. Doubled(arg, i) <=> BeforeQuote(t, i)
  BY DEF Doubled, t
<1>3. Doubled(arg, i + 1) <=> BeforeQuote(t, i + 1)
  BY DEF Doubled, t
<1>4. BeforeQuote(t, i) <=> t[i + 1] = "quote" \/ (t[i + 1] = "slash" /\ BeforeQuote(t, i + 1))
  <2>1. Len(t) \in Nat /\ i \in 1 .. Len(t) - 1 /\ t[i] = "slash"
    BY <1>1
  <2>2. QED
    BY <2>1, BeforeIs
<1>5. CASE i = Len(arg)
  BY <1>1, <1>2, <1>4, <1>5
<1>6. CASE i # Len(arg)
  <2>1. t[i + 1] = arg[i + 1]
    BY <1>1, <1>6
  <2>2. QED
    BY <1>2, <1>3, <1>4, <1>6, <2>1
<1>7. QED
  BY <1>5, <1>6

(* The places follow each other. *)
LEMMA PlacesRise ==
  ASSUME NEW s, Len(s) \in Nat, NEW b \in Nat \ {0}, NEW arg \in Seq(Char), NEW at,
         Shown(s, b, arg, at)
  PROVE  /\ \A i \in 1 .. Len(arg) + 1 : /\ at[i] \in Nat
                                         /\ b + 1 <= at[i]
                                         /\ at[i] <= at[Len(arg) + 1]
         /\ \A i \in 1 .. Len(arg) : at[i + 1] \in {at[i] + 1, at[i] + 2}
<1> DEFINE n == Len(arg)
<1>0. n \in Nat
  OBVIOUS
<1>1. \A i \in 1 .. n + 1 : at[i] \in Nat
  BY DEF Shown
<1>2. \A i \in 1 .. n : at[i + 1] \in {at[i] + 1, at[i] + 2}
  BY DEF Shown, Spelled
<1>7. at[1] = b + 1
  BY DEF Shown
<1> HIDE DEF n
<1>3. \A i \in 0 .. n : b + 1 <= at[i + 1]
  <2> DEFINE S == {i \in Nat : b + 1 <= at[i + 1]}
  <2>1. 0 \in S
    BY <1>7
  <2>2. ASSUME NEW i \in 1 .. n, i - 1 \in S PROVE i \in S
    <3>1. (i - 1) + 1 = i /\ i \in 1 .. n + 1 /\ i + 1 \in 1 .. n + 1
      BY <1>0
    <3>2. at[i] \in Nat /\ at[i + 1] \in Nat /\ b + 1 <= at[i]
      BY <1>1, <2>2, <3>1
    <3>3. at[i + 1] = at[i] + 1 \/ at[i + 1] = at[i] + 2
      BY <1>2
    <3>4. b + 1 <= at[i + 1]
      BY <3>2, <3>3
    <3>5. QED
      BY <3>4
  <2>3. 0 .. n \subseteq S
    <3> HIDE DEF S
    <3>1. QED
      BY <1>0, <2>1, <2>2, Climb
  <2>4. QED
    BY <2>3
<1>4. \A i \in 0 .. n : at[n + 1 - i] <= at[n + 1]
  <2> DEFINE S == {i \in Nat : at[n + 1 - i] <= at[n + 1]}
  <2>1. 0 \in S
    <3>1. n + 1 - 0 = n + 1 /\ at[n + 1] \in Nat
      BY <1>0, <1>1
    <3>2. QED
      BY <3>1
  <2>2. ASSUME NEW i \in 1 .. n, i - 1 \in S PROVE i \in S
    <3> DEFINE k == n + 1 - i
    <3>1. n + 1 - (i - 1) = k + 1 /\ k \in 1 .. n /\ k + 1 \in 1 .. n + 1
          /\ k \in 1 .. n + 1
      BY <1>0
    <3>2. at[k + 1] <= at[n + 1]
      BY <2>2, <3>1
    <3> HIDE DEF k
    <3>3. at[k] \in Nat /\ at[k + 1] \in Nat /\ at[n + 1] \in Nat
      BY <1>0, <1>1, <3>1
    <3>4. at[k + 1] = at[k] + 1 \/ at[k + 1] = at[k] + 2
      BY <1>2, <3>1
    <3>5. at[k] <= at[n + 1]
      BY <3>2, <3>3, <3>4
    <3>6. QED
      BY <3>5 DEF k
  <2>3. 0 .. n \subseteq S
    <3> HIDE DEF S
    <3>1. QED
      BY <1>0, <2>1, <2>2, Climb
  <2>4. QED
    BY <2>3
<1>5. ASSUME NEW i \in 1 .. n + 1
      PROVE  b + 1 <= at[i] /\ at[i] <= at[n + 1]
  <2>1. i - 1 \in 0 .. n /\ (i - 1) + 1 = i /\ n + 1 - i \in 0 .. n
        /\ n + 1 - (n + 1 - i) = i
    BY <1>0
  <2>2. b + 1 <= at[(i - 1) + 1] /\ at[n + 1 - (n + 1 - i)] <= at[n + 1]
    BY <1>3, <1>4, <2>1
  <2>3. QED
    BY <2>1, <2>2
<1>6. QED
  BY <1>1, <1>2, <1>5 DEF n

(* A backslash of the argument is doubled where a quote follows its run in *)
(* the line.                                                               *)
LEMMA BeforeDoubled ==
  ASSUME NEW s, Len(s) \in Nat, NEW b \in Nat \ {0}, NEW arg \in Seq(Char), NEW at,
         Shown(s, b, arg, at)
  PROVE  \A i \in 1 .. Len(arg) :
           arg[i] = "slash" => (BeforeQuote(s, at[i]) <=> Doubled(arg, i))
<1> DEFINE n == Len(arg)
           Agree(i) == arg[i] = "slash" => (BeforeQuote(s, at[i]) <=> Doubled(arg, i))
           S == {j \in Nat : j = 0 \/ Agree(n + 1 - j)}
<1>0. n \in Nat
  OBVIOUS
<1>1. 0 \in S
  OBVIOUS
<1>2. /\ \A i \in 1 .. n + 1 : /\ at[i] \in Nat /\ b + 1 <= at[i]
                               /\ at[i] <= at[n + 1]
      /\ \A i \in 1 .. n : at[i + 1] \in {at[i] + 1, at[i] + 2}
  BY PlacesRise
<1>3. /\ s[at[n + 1]] = "quote" /\ at[n + 1] <= Len(s)
      /\ \A i \in 1 .. n : Spelled(s, at[i], at[i + 1], arg, i)
  BY DEF Shown
<1>4. ASSUME NEW i \in 1 .. n, i # n => Agree(i + 1), arg[i] = "slash"
      PROVE  BeforeQuote(s, at[i]) <=> Doubled(arg, i)
  <2>1. PICK p \in Nat : p = at[i]
    BY <1>0, <1>2
  <2>2. PICK q \in Nat : q = at[i + 1]
    <3>1. i + 1 \in 1 .. n + 1
      BY <1>0
    <3>2. QED
      BY <1>2, <3>1
  <2>3. p >= 1 /\ q <= Len(s) /\ q \in {p + 1, p + 2}
    <3>1. i \in 1 .. n + 1 /\ i + 1 \in 1 .. n + 1 /\ n + 1 \in 1 .. n + 1
      BY <1>0
    <3>2. b + 1 <= p /\ q <= at[n + 1] /\ at[n + 1] \in Nat
      BY <1>2, <2>1, <2>2, <3>1
    <3>3. q \in {p + 1, p + 2}
      BY <1>2, <2>1, <2>2
    <3>4. QED
      BY <1>3, <3>2, <3>3
  <2>4. s[p] = "slash" /\ (Doubled(arg, i) => s[p + 1] = "slash" /\ q = p + 2)
        /\ (~Doubled(arg, i) => q = p + 1)
    BY <1>3, <1>4, <2>1, <2>2 DEF Spelled
  <2>5. BeforeQuote(s, p) <=> s[p + 1] = "quote" \/ (s[p + 1] = "slash" /\ BeforeQuote(s, p + 1))
    <3>1. p \in 1 .. Len(s) - 1
      BY <2>3
    <3>2. QED
      BY <2>4, <3>1, BeforeIs
  <2>6. q = p + 2 /\ s[p + 1] = "slash" =>
          (BeforeQuote(s, p + 1) <=> s[q] = "quote" \/ (s[q] = "slash" /\ BeforeQuote(s, q)))
    <3>1. q = p + 2 => p + 1 \in 1 .. Len(s) - 1 /\ (p + 1) + 1 = q
      BY <2>3
    <3>2. QED
      BY <3>1, BeforeIs
  <2>7. Doubled(arg, i) <=> \/ i = n \/ arg[i + 1] = "quote"
                            \/ arg[i + 1] = "slash" /\ Doubled(arg, i + 1)
    BY <1>4, DoubledIs
  <2>8. CASE i = n
    <3>1. s[q] = "quote" /\ Doubled(arg, i)
      BY <1>3, <2>2, <2>7, <2>8
    <3>2. QED
      BY <2>1, <2>4, <2>5, <2>6, <3>1
  <2>9. CASE i # n
    <3>0. i + 1 \in 1 .. n
      BY <1>0, <2>9
    <3>1. Spelled(s, q, at[(i + 1) + 1], arg, i + 1)
      BY <1>3, <2>2, <3>0
    <3>2. CASE arg[i + 1] = "quote"
      <4>1. s[q] = "slash" /\ s[q + 1] = "quote" /\ at[(i + 1) + 1] = q + 2
        BY <3>1, <3>2 DEF Spelled
      <4>2. q \in 1 .. Len(s) - 1
        <5>1. (i + 1) + 1 \in 1 .. n + 1 /\ n + 1 \in 1 .. n + 1
          BY <1>0, <3>0
        <5>2. q + 2 <= at[n + 1] /\ at[n + 1] \in Nat
          BY <1>2, <4>1, <5>1
        <5>3. QED
          BY <1>3, <2>3, <5>2
      <4>3. BeforeQuote(s, q)
        BY <4>1, <4>2, BeforeIs
      <4>4. QED
        BY <2>1, <2>4, <2>5, <2>6, <2>7, <3>2, <4>1, <4>3
    <3>3. CASE arg[i + 1] = "slash"
      <4>1. s[q] = "slash"
        BY <3>1, <3>3 DEF Spelled
      <4>2. BeforeQuote(s, q) <=> Doubled(arg, i + 1)
        BY <1>4, <2>2, <2>9, <3>3
      <4>3. Doubled(arg, i) <=> Doubled(arg, i + 1)
        BY <2>7, <2>9, <3>3
      <4>4. CASE Doubled(arg, i)
        BY <2>1, <2>4, <2>5, <2>6, <4>1, <4>2, <4>3, <4>4
      <4>5. CASE ~Doubled(arg, i)
        BY <2>1, <2>4, <2>5, <4>1, <4>2, <4>3, <4>5
      <4>6. QED
        BY <4>4, <4>5
    <3>4. CASE arg[i + 1] \notin {"quote", "slash"}
      <4>1. s[q] = arg[i + 1]
        BY <3>1, <3>4 DEF Spelled
      <4>2. ~Doubled(arg, i)
        BY <2>7, <2>9, <3>4
      <4>3. QED
        BY <2>1, <2>4, <2>5, <3>4, <4>1, <4>2
    <3>5. QED
      BY <3>2, <3>3, <3>4
  <2>10. QED
    BY <2>8, <2>9
<1>5. ASSUME NEW j \in 1 .. n, j - 1 \in S PROVE j \in S
  <2>1. n + 1 - j \in 1 .. n /\ n + 1 - (j - 1) = (n + 1 - j) + 1
        /\ (n + 1 - j # n => j - 1 # 0)
    BY <1>0
  <2>2. n + 1 - j # n => Agree((n + 1 - j) + 1)
    BY <1>5, <2>1
  <2>3. Agree(n + 1 - j)
    <3> HIDE DEF n
    <3>1. QED
      BY <1>4, <2>1, <2>2
  <2>4. QED
    BY <2>3
<1>6. 0 .. n \subseteq S
  <2> HIDE DEF S
  <2>1. QED
    BY <1>0, <1>1, <1>5, Climb
<1>7. ASSUME NEW i \in 1 .. n PROVE Agree(i)
  <2>1. n + 1 - i \in 0 .. n /\ n + 1 - i # 0 /\ n + 1 - (n + 1 - i) = i
    BY <1>0
  <2>2. Agree(n + 1 - (n + 1 - i))
    BY <1>6, <2>1
  <2>3. QED
    BY <2>1, <2>2
<1>8. QED
  BY <1>7

(* Where a doubled run is left off, the backslashes behind are even.       *)
LEMMA EvenBehind ==
  ASSUME NEW s, Len(s) \in Nat, NEW b \in Nat \ {0}, NEW arg \in Seq(Char), NEW at,
         Shown(s, b, arg, at)
  PROVE  \A i \in 1 .. Len(arg) + 1 :
           \/ Behind(s, at[i]) % 2 = 0
           \/ i # 1 /\ arg[i - 1] = "slash" /\ ~Doubled(arg, i - 1)
<1> DEFINE n == Len(arg)
           Even(i) == \/ Behind(s, at[i]) % 2 = 0
                      \/ i # 1 /\ arg[i - 1] = "slash" /\ ~Doubled(arg, i - 1)
           S == {i \in Nat : Even(i + 1)}
<1>0. n \in Nat
  OBVIOUS
<1>1. /\ \A i \in 1 .. n + 1 : at[i] \in Nat /\ b + 1 <= at[i]
      /\ \A i \in 1 .. n : Spelled(s, at[i], at[i + 1], arg, i)
      /\ at[1] = b + 1 /\ s[b] = "quote"
  BY PlacesRise DEF Shown
<1>2. 0 \in S
  <2>1. b + 1 \in Nat \ {0} /\ (b + 1) - 1 = b
    OBVIOUS
  <2>2. Behind(s, b + 1) = 0
    BY <1>1, <2>1, BehindNone
  <2>3. 0 % 2 = 0
    OBVIOUS
  <2>4. Behind(s, at[1]) % 2 = 0
    BY <1>1, <2>2, <2>3
  <2>5. QED
    BY <2>4
<1>3. ASSUME NEW i \in 1 .. n, Even(i)
      PROVE  Even(i + 1)
  <2>0. i + 1 # 1 /\ (i + 1) - 1 = i /\ i \in 1 .. n + 1 /\ i + 1 \in 1 .. n + 1
    BY <1>0
  <2>1. PICK p \in Nat : p = at[i] /\ b + 1 <= p
    BY <1>1, <2>0
  <2>2. PICK q \in Nat : q = at[i + 1]
    BY <1>1, <2>0
  <2>3. Spelled(s, p, q, arg, i)
    BY <1>1, <2>1, <2>2
  <2>4. ASSUME q \in Nat \ {0}, s[q - 1] # "slash" PROVE Behind(s, q) % 2 = 0
    <3>1. Behind(s, q) = 0
      BY <2>4, BehindNone
    <3>2. QED
      BY <3>1
  <2>5. CASE arg[i] = "quote"
    <3>1. q = p + 2 /\ s[p + 1] = "quote"
      BY <2>3, <2>5 DEF Spelled
    <3>2. q - 1 = p + 1 /\ q \in Nat \ {0}
      BY <3>1
    <3>3. QED
      BY <2>2, <2>4, <3>1, <3>2
  <2>6. CASE arg[i] = "slash" /\ Doubled(arg, i)
    <3>1. s[p] = "slash" /\ s[p + 1] = "slash" /\ q = p + 2
      BY <2>3, <2>6 DEF Spelled
    <3>2. Behind(s, p) % 2 = 0
      <4>1. ASSUME i # 1, arg[i - 1] = "slash" PROVE Doubled(arg, i - 1)
        <5>1. i - 1 \in 1 .. Len(arg) /\ (i - 1) + 1 = i
          BY <4>1
        <5>2. QED
          BY <2>6, <4>1, <5>1, DoubledIs
      <4>2. QED
        BY <1>3, <2>1, <4>1
    <3>3. Behind(s, p + 1) = Behind(s, p) + 1 /\ Behind(s, p) \in 0 .. p - 1
      <4>1. p \in Nat \ {0} /\ p + 1 \in Nat \ {0} /\ p + 1 # 1 /\ (p + 1) - 1 = p
        BY <2>1
      <4>2. QED
        BY <3>1, <4>1, BehindExists
    <3>4. Behind(s, q) = Behind(s, p + 1) + 1
      <4>1. q \in Nat \ {0} /\ q # 1 /\ q - 1 = p + 1
        BY <3>1
      <4>2. QED
        BY <3>1, <4>1, BehindExists
    <3>5. \A x \in 0 .. p - 1 : x % 2 = 0 => (x + 1 + 1) % 2 = 0
      OBVIOUS
    <3>6. QED
      BY <2>2, <3>2, <3>3, <3>4, <3>5
  <2>7. CASE arg[i] = "slash" /\ ~Doubled(arg, i)
    BY <2>0, <2>7
  <2>8. CASE arg[i] \notin {"quote", "slash"}
    <3>1. s[p] = arg[i] /\ q = p + 1
      BY <2>3, <2>8 DEF Spelled
    <3>2. q - 1 = p /\ q \in Nat \ {0} /\ s[q - 1] # "slash"
      BY <2>8, <3>1
    <3>3. QED
      BY <2>2, <2>4, <3>2
  <2>9. QED
    BY <2>5, <2>6, <2>7, <2>8
<1> HIDE DEF Even
<1>4. ASSUME NEW i \in 1 .. n, i - 1 \in S PROVE i \in S
  <2>1. (i - 1) + 1 = i
    OBVIOUS
  <2>2. Even(i)
    BY <1>4, <2>1
  <2>3. QED
    BY <1>3, <2>2
<1>5. 0 .. n \subseteq S
  <2> HIDE DEF S, n
  <2>1. QED
    BY <1>0, <1>2, <1>4, Climb
<1>6. \A i \in 1 .. n + 1 : Even(i)
  <2>1. ASSUME NEW i \in 1 .. n + 1 PROVE Even(i)
    <3>1. i - 1 \in 0 .. n /\ (i - 1) + 1 = i
      BY <1>0
    <3>2. QED
      BY <1>5, <3>1
  <2>2. QED
    BY <2>1
<1>7. QED
  BY <1>6 DEF Even

(* Of what spells a character the last survives, and it is the character.  *)
LEMMA LastSurvives ==
  ASSUME NEW s, Len(s) \in Nat, NEW b \in Nat \ {0}, NEW arg \in Seq(Char), NEW at,
         Shown(s, b, arg, at), NEW i \in 1 .. Len(arg)
  PROVE  /\ s[at[i + 1] - 1] = arg[i]
         /\ \A p \in at[i] .. at[i + 1] - 1 :
              /\ ~Delimits(s, p)
              /\ Survives(s, p) <=> p = at[i + 1] - 1
<1> DEFINE n == Len(arg)
<1>0. n \in Nat /\ i \in 1 .. n + 1 /\ i + 1 \in 1 .. n + 1
  OBVIOUS
<1>1. PICK p \in Nat : p = at[i] /\ b + 1 <= p
  BY <1>0, PlacesRise
<1>2. PICK q \in Nat : q = at[i + 1] /\ q <= Len(s)
  <2>1. at[i + 1] \in Nat /\ at[i + 1] <= at[n + 1] /\ at[n + 1] \in Nat
    BY <1>0, PlacesRise
  <2>2. at[n + 1] <= Len(s)
    BY DEF Shown
  <2>3. QED
    BY <2>1, <2>2
<1>3. Spelled(s, p, q, arg, i)
  BY <1>1, <1>2 DEF Shown
<1>4. \/ Behind(s, p) % 2 = 0
      \/ i # 1 /\ arg[i - 1] = "slash" /\ ~Doubled(arg, i - 1)
  BY <1>0, <1>1, EvenBehind
<1>5. ASSUME i # 1, arg[i - 1] = "slash",
             arg[i] = "quote" \/ (arg[i] = "slash" /\ Doubled(arg, i))
      PROVE  Doubled(arg, i - 1)
  <2>1. i - 1 \in 1 .. Len(arg) /\ (i - 1) + 1 = i
    BY <1>5
  <2>2. QED
    BY <1>5, <2>1, DoubledIs
<1> DEFINE Goal == /\ s[q - 1] = arg[i]
                   /\ \A x \in p .. q - 1 : ~Delimits(s, x) /\ (Survives(s, x) <=> x = q - 1)
<1>6. ASSUME s[p] = "slash", q = p + 2, s[p + 1] \in {"slash", "quote"}, s[p + 1] = arg[i],
             Behind(s, p) % 2 = 0, s[p + 1] = "slash" => BeforeQuote(s, p)
      PROVE  Goal
  <2>1. Behind(s, p + 1) = Behind(s, p) + 1 /\ Behind(s, p) \in 0 .. p - 1
    <3>1. p \in Nat \ {0} /\ p + 1 \in Nat \ {0} /\ p + 1 # 1 /\ (p + 1) - 1 = p
      BY <1>1
    <3>2. QED
      BY <1>6, <3>1, BehindExists
  <2>2. \A x \in 0 .. p - 1 : x % 2 = 0 => (x + 1) % 2 = 1 /\ (x + 1) % 2 # 0 /\ x % 2 # 1
    OBVIOUS
  <2>3. Behind(s, p + 1) % 2 = 1 /\ Behind(s, p + 1) % 2 # 0 /\ Behind(s, p) % 2 # 1
    BY <1>6, <2>1, <2>2
  <2>4. BeforeQuote(s, p)
    <3>1. p \in 1 .. Len(s) - 1
      BY <1>1, <1>2, <1>6
    <3>2. QED
      BY <1>6, <3>1, BeforeIs
  <2>5. ~Delimits(s, p) /\ ~Delimits(s, p + 1)
    BY <1>6, <2>3 DEF Delimits
  <2>6. ~Survives(s, p) /\ Survives(s, p + 1)
    BY <1>6, <2>3, <2>4, <2>5 DEF Survives
  <2>7. q - 1 = p + 1 /\ \A x \in p .. q - 1 : x = p \/ x = p + 1
    BY <1>6
  <2>8. QED
    BY <1>6, <2>5, <2>6, <2>7
<1>7. CASE arg[i] = "quote"
  <2>1. s[p] = "slash" /\ s[p + 1] = "quote" /\ q = p + 2
    BY <1>3, <1>7 DEF Spelled
  <2>2. Behind(s, p) % 2 = 0
    BY <1>4, <1>5, <1>7
  <2> HIDE DEF Goal
  <2>3. Goal
    BY <1>6, <1>7, <2>1, <2>2
  <2>4. QED
    BY <1>1, <1>2, <2>3 DEF Goal
<1>8. CASE arg[i] = "slash" /\ Doubled(arg, i)
  <2>1. s[p] = "slash" /\ s[p + 1] = "slash" /\ q = p + 2
    BY <1>3, <1>8 DEF Spelled
  <2>2. Behind(s, p) % 2 = 0
    BY <1>4, <1>5, <1>8
  <2>3. BeforeQuote(s, p)
    BY <1>1, <1>8, BeforeDoubled
  <2> HIDE DEF Goal
  <2>4. Goal
    BY <1>6, <1>8, <2>1, <2>2, <2>3
  <2>5. QED
    BY <1>1, <1>2, <2>4 DEF Goal
<1>9. CASE arg[i] # "quote" /\ ~(arg[i] = "slash" /\ Doubled(arg, i))
  <2>1. s[p] = arg[i] /\ q = p + 1
    BY <1>3, <1>9 DEF Spelled
  <2>2. ~Delimits(s, p)
    BY <1>9, <2>1 DEF Delimits
  <2>3. Survives(s, p)
    <3>1. arg[i] = "slash" => ~BeforeQuote(s, p)
      BY <1>1, <1>9, BeforeDoubled
    <3>2. QED
      BY <2>1, <2>2, <3>1 DEF Survives
  <2>4. q - 1 = p /\ \A x \in p .. q - 1 : x = p
    BY <2>1
  <2>5. QED
    BY <1>1, <1>2, <2>1, <2>2, <2>3, <2>4
<1>10. QED
  BY <1>7, <1>8, <1>9

(* The quotes around it delimit. *)
LEMMA QuotesDelimit ==
  ASSUME NEW s, Len(s) \in Nat, NEW b \in Nat \ {0}, NEW arg \in Seq(Char), NEW at,
         Shown(s, b, arg, at)
  PROVE  Delimits(s, b) /\ Delimits(s, at[Len(arg) + 1])
<1> DEFINE n == Len(arg)
<1>0. n \in Nat /\ n + 1 \in 1 .. n + 1
  OBVIOUS
<1>1. Behind(s, b) % 2 = 0
  <2>1. b = 1 \/ s[b - 1] # "slash"
    BY DEF Shown
  <2>2. Behind(s, b) = 0
    BY <2>1, BehindNone
  <2>3. QED
    BY <2>2
<1>2. Behind(s, at[n + 1]) % 2 = 0
  <2>1. \/ Behind(s, at[n + 1]) % 2 = 0
        \/ n + 1 # 1 /\ arg[(n + 1) - 1] = "slash" /\ ~Doubled(arg, (n + 1) - 1)
    BY <1>0, EvenBehind
  <2>2. ASSUME n + 1 # 1, arg[(n + 1) - 1] = "slash" PROVE Doubled(arg, (n + 1) - 1)
    <3>1. n \in 1 .. Len(arg) /\ (n + 1) - 1 = n
      BY <1>0, <2>2
    <3>2. QED
      BY <2>2, <3>1, DoubledIs
  <2>3. QED
    BY <2>1, <2>2
<1>3. QED
  BY <1>1, <1>2 DEF Shown, Delimits

(* Between the quotes every place belongs to one character. *)
LEMMA Covered ==
  ASSUME NEW s, Len(s) \in Nat, NEW b \in Nat \ {0}, NEW arg \in Seq(Char), NEW at,
         Shown(s, b, arg, at)
  PROVE  \A p \in b + 1 .. at[Len(arg) + 1] - 1 :
           \E i \in 1 .. Len(arg) : p \in at[i] .. at[i + 1] - 1
<1> DEFINE n == Len(arg)
           S == {k \in Nat : \A p \in b + 1 .. at[k + 1] - 1 :
                               \E i \in 1 .. n : p \in at[i] .. at[i + 1] - 1}
<1>0. n \in Nat
  OBVIOUS
<1>1. \A i \in 1 .. n + 1 : at[i] \in Nat
  BY PlacesRise
<1>2. 0 \in S
  <2>1. at[0 + 1] = b + 1 /\ b + 1 .. (b + 1) - 1 = {}
    BY DEF Shown
  <2>2. b + 1 .. at[0 + 1] - 1 = {}
    BY <2>1
  <2>3. QED
    BY <2>2
<1>3. ASSUME NEW k \in 1 .. n, k - 1 \in S PROVE k \in S
  <2>1. k \in 1 .. n + 1 /\ k + 1 \in 1 .. n + 1 /\ (k - 1) + 1 = k
    BY <1>0
  <2>2. at[k] \in Nat /\ at[k + 1] \in Nat
    BY <1>1, <2>1
  <2>3. \A p \in b + 1 .. at[k] - 1 : \E i \in 1 .. n : p \in at[i] .. at[i + 1] - 1
    BY <1>3, <2>1
  <2>4. \A p \in b + 1 .. at[k + 1] - 1 :
          p \in b + 1 .. at[k] - 1 \/ p \in at[k] .. at[k + 1] - 1
    BY <2>2
  <2>5. \A p \in b + 1 .. at[k + 1] - 1 : \E i \in 1 .. n : p \in at[i] .. at[i + 1] - 1
    BY <2>3, <2>4
  <2>6. QED
    BY <2>5
<1>4. 0 .. n \subseteq S
  <2> HIDE DEF S, n
  <2>1. QED
    BY <1>0, <1>2, <1>3, Climb
<1>5. n \in 0 .. n
  BY <1>0
<1>6. QED
  BY <1>4, <1>5

(* From the opening quote to the closing one it is inside quotes. *)
LEMMA QuotedInside ==
  ASSUME NEW s, Len(s) \in Nat, NEW b \in Nat \ {0}, NEW arg \in Seq(Char), NEW at,
         Shown(s, b, arg, at), ~Inside(s, b)
  PROVE  /\ \A p \in b + 1 .. at[Len(arg) + 1] : Inside(s, p)
         /\ ~Inside(s, at[Len(arg) + 1] + 1)
<1>1. PICK stop \in Nat : stop = at[Len(arg) + 1] /\ b + 1 <= stop
  <2>1. Len(arg) + 1 \in 1 .. Len(arg) + 1
    OBVIOUS
  <2>2. QED
    BY <2>1, PlacesRise
<1>2. Delimits(s, b) /\ Delimits(s, stop)
  BY <1>1, QuotesDelimit
<1>3. Inside(s, b + 1)
  BY <1>2, InsideNext
<1>4. \A p \in b + 1 .. stop - 1 : ~Delimits(s, p)
  <2>1. ASSUME NEW p \in b + 1 .. stop - 1 PROVE ~Delimits(s, p)
    <3>1. PICK i \in 1 .. Len(arg) : p \in at[i] .. at[i + 1] - 1
      BY <1>1, Covered
    <3>2. QED
      BY <3>1, LastSurvives
  <2>2. QED
    BY <2>1
<1>5. ASSUME NEW p \in b + 1 .. stop PROVE Inside(s, p)
  <2>1. b + 1 \in Nat \ {0} /\ p \in Nat /\ b + 1 <= p
        /\ \A j \in b + 1 .. p - 1 : j \in b + 1 .. stop - 1
    OBVIOUS
  <2>2. \A j \in b + 1 .. p - 1 : ~Delimits(s, j)
    BY <1>4, <2>1
  <2>3. QED
    BY <1>3, <2>1, <2>2, InsideFlat
<1>6. ~Inside(s, stop + 1)
  <2>1. stop \in Nat \ {0} /\ stop \in b + 1 .. stop
    BY <1>1
  <2>2. Inside(s, stop)
    BY <1>5, <2>1
  <2>3. QED
    BY <1>2, <2>1, <2>2, InsideNext
<1>7. QED
  BY <1>1, <1>5, <1>6

(* Only after the closing quote does the line part. *)
LEMMA QuotedWhole ==
  ASSUME NEW s, Len(s) \in Nat, NEW b \in Nat \ {0}, NEW arg \in Seq(Char), NEW at,
         Shown(s, b, arg, at), ~Inside(s, b)
  PROVE  /\ \A p \in b .. at[Len(arg) + 1] : ~Parts(s, p)
         /\ at[Len(arg) + 1] # Len(s) => Parts(s, at[Len(arg) + 1] + 1)
<1>1. at[Len(arg) + 1] \in Nat /\ b + 1 <= at[Len(arg) + 1]
  <2>1. Len(arg) + 1 \in 1 .. Len(arg) + 1
    OBVIOUS
  <2>2. QED
    BY <2>1, PlacesRise
<1>2. ~Parts(s, b)
  BY DEF Shown, Parts, Separator
<1>3. \A p \in b .. at[Len(arg) + 1] : p = b \/ p \in b + 1 .. at[Len(arg) + 1]
  BY <1>1
<1>4. \A p \in b .. at[Len(arg) + 1] : ~Parts(s, p)
  BY <1>2, <1>3, QuotedInside DEF Parts
<1>5. ASSUME at[Len(arg) + 1] # Len(s) PROVE Parts(s, at[Len(arg) + 1] + 1)
  BY <1>5, QuotedInside DEF Shown, Parts, Separator
<1>6. QED
  BY <1>4, <1>5

(* What the rule reads between the quotes is the argument. *)
LEMMA ArgumentBack ==
  ASSUME NEW s, Len(s) \in Nat, NEW b \in Nat \ {0}, NEW arg \in Seq(Char), NEW at,
         Shown(s, b, arg, at), ~Inside(s, b)
  PROVE  Argument(s, b) = arg
<1> DEFINE n == Len(arg)
           stop == at[n + 1]
           kept == {k \in b .. Len(s) : Survives(s, k) /\ \A j \in b .. k : ~Parts(s, j)}
           g == [i \in 1 .. n |-> at[i + 1] - 1]
<1>0. n \in Nat /\ n + 1 \in 1 .. n + 1
      /\ \A i \in 1 .. n : i \in 1 .. n + 1 /\ i + 1 \in 1 .. n + 1
  OBVIOUS
<1>1. /\ \A i \in 1 .. n + 1 : at[i] \in Nat /\ b + 1 <= at[i] /\ at[i] <= stop
      /\ \A i \in 1 .. n : at[i + 1] = at[i] + 1 \/ at[i + 1] = at[i] + 2
      /\ stop <= Len(s)
  <2>1. \A i \in 1 .. n : at[i + 1] \in {at[i] + 1, at[i] + 2}
    BY PlacesRise
  <2>2. \A i \in 1 .. n + 1 : at[i] \in Nat /\ b + 1 <= at[i] /\ at[i] <= stop
    BY PlacesRise
  <2>3. stop <= Len(s)
    BY DEF Shown
  <2>4. QED
    BY <2>1, <2>2, <2>3
<1>2. /\ \A p \in b .. stop : ~Parts(s, p)
      /\ stop # Len(s) => Parts(s, stop + 1)
  BY QuotedWhole
<1>3. ASSUME NEW i \in 1 .. n
      PROVE  /\ g[i] \in at[i] .. at[i + 1] - 1 /\ g[i] \in b + 1 .. stop - 1
             /\ g[i] \in 1 .. Len(s)
  <2>1. /\ at[i] \in Nat /\ b + 1 <= at[i] /\ at[i + 1] \in Nat /\ at[i + 1] <= stop
        /\ at[i + 1] = at[i] + 1 \/ at[i + 1] = at[i] + 2
        /\ stop \in Nat
    BY <1>0, <1>1
  <2>2. g[i] = at[i + 1] - 1
    OBVIOUS
  <2>3. stop <= Len(s)
    BY <1>1
  <2> HIDE DEF g, stop
  <2>4. \A x, y, z \in Nat : \A l \in Nat :
          b + 1 <= x /\ y <= z /\ (y = x + 1 \/ y = x + 2) /\ z <= l =>
            y - 1 \in x .. y - 1 /\ y - 1 \in b + 1 .. z - 1 /\ y - 1 \in 1 .. l
    OBVIOUS
  <2>5. QED
    BY <2>1, <2>2, <2>3, <2>4
<1>4. \A i \in 1 .. n : s[g[i]] = arg[i] /\ Survives(s, g[i])
  BY <1>3, LastSurvives
<1>5. kept = {g[i] : i \in 1 .. n}
  <2>1. ASSUME NEW i \in 1 .. n PROVE g[i] \in kept
    <3>1. stop \in Nat /\ b \in Nat
      BY <1>0, <1>1
    <3>2. g[i] \in b .. Len(s) /\ \A j \in b .. g[i] : j \in b .. stop
      <4> HIDE DEF g, stop
      <4>1. QED
        BY <1>1, <1>3, <3>1
    <3>3. QED
      BY <1>2, <1>4, <3>2
  <2>2. ASSUME NEW k \in kept PROVE \E i \in 1 .. n : k = g[i]
    <3>1. stop \in Nat /\ k \in b .. Len(s) /\ Survives(s, k) /\ \A j \in b .. k : ~Parts(s, j)
      BY <1>0, <1>1
    <3>2. k # b /\ k # stop
      BY <3>1, QuotesDelimit DEF Survives
    <3>3. k <= stop
      <4>1. SUFFICES ASSUME stop < k PROVE FALSE
        <5> HIDE DEF stop, kept
        <5>1. QED
          BY <3>1
      <4>2. stop # Len(s) /\ stop + 1 \in b .. k
        <5>1. b + 1 <= stop
          BY <1>0, <1>1
        <5> HIDE DEF stop, kept
        <5>2. QED
          BY <3>1, <4>1, <5>1
      <4>3. QED
        BY <1>2, <3>1, <4>2
    <3>4. k \in b + 1 .. stop - 1
      <4> HIDE DEF stop, kept
      <4>1. QED
        BY <3>1, <3>2, <3>3
    <3>5. PICK i \in 1 .. n : k \in at[i] .. at[i + 1] - 1
      BY <3>4, Covered
    <3>6. k = at[i + 1] - 1
      BY <3>1, <3>5, LastSurvives
    <3>7. QED
      BY <3>6
  <2>3. QED
    <3> HIDE DEF kept, g
    <3>1. QED
      BY <2>1, <2>2
<1>6. \A i \in 1 .. n : i # 1 => g[i - 1] < g[i]
  <2>1. ASSUME NEW i \in 1 .. n, i # 1 PROVE g[i - 1] < g[i]
    <3>1. i - 1 \in 1 .. n /\ (i - 1) + 1 = i /\ i \in 1 .. n + 1 /\ i + 1 \in 1 .. n + 1
      BY <1>0, <2>1
    <3>2. g[i - 1] = at[i] - 1 /\ g[i] = at[i + 1] - 1
      BY <3>1
    <3>3. at[i] \in Nat /\ at[i + 1] \in Nat /\ (at[i + 1] = at[i] + 1 \/ at[i + 1] = at[i] + 2)
      BY <1>1, <3>1
    <3>4. QED
      BY <3>2, <3>3
  <2>2. QED
    BY <2>1
<1>7. g \in [1 .. n -> 1 .. Len(s)]
  BY <1>3
<1>8. /\ Cardinality(kept) = n
      /\ \A i \in 1 .. n : Ascending(kept)[i] = g[i]
  <2>1. n \in Nat /\ Len(s) \in Nat
    BY <1>0
  <2> HIDE DEF kept, g, n
  <2>2. Rises(Len(s), n, g, kept)
    BY <1>5, <1>6, <1>7 DEF Rises
  <2>3. QED
    BY <2>1, <2>2, RisesIs
<1>9. Argument(s, b) = [i \in 1 .. Cardinality(kept) |-> s[Ascending(kept)[i]]]
  BY DEF Argument
<1>10. Argument(s, b) = [i \in 1 .. n |-> arg[i]]
  <2> HIDE DEF kept, g
  <2>1. QED
    BY <1>4, <1>8, <1>9
<1>11. QED
  BY <1>10

-----------------------------------------------------------------------------
(* What stands between the quotes spells the argument. *)

LEMMA EscapedIs ==
  ASSUME NEW arg \in Seq(Char), NEW i \in 1 .. Len(arg)
  PROVE  Escaped(arg, i) = IF arg[i] = "quote" THEN <<"slash", "quote">>
                           ELSE IF arg[i] = "slash" /\ Doubled(arg, i)
                             THEN <<"slash", "slash">>
                           ELSE <<arg[i]>>
<1> DEFINE t == Append(arg, "quote")
           Closes == \E q \in i + 1 .. Len(arg) + 1 :
                     /\ \A j \in i .. q - 1 : arg[j] = "slash"
                     /\ q = Len(arg) + 1 \/ arg[q] = "quote"
<1>1. /\ Len(arg) \in Nat /\ Len(t) = Len(arg) + 1 /\ t[Len(arg) + 1] = "quote"
      /\ \A j \in 1 .. Len(arg) : t[j] = arg[j]
  OBVIOUS
<1>2. Doubled(arg, i) <=> \E q \in i + 1 .. Len(t) :
                            t[q] = "quote" /\ \A j \in i .. q - 1 : t[j] = "slash"
  BY DEF Doubled, BeforeQuote
<1> HIDE DEF t
<1>3. ASSUME NEW q \in i + 1 .. Len(arg) + 1
      PROVE  /\ t[q] = "quote" <=> q = Len(arg) + 1 \/ arg[q] = "quote"
             /\ \A j \in i .. q - 1 : t[j] = arg[j]
  <2>1. q = Len(arg) + 1 \/ q \in 1 .. Len(arg)
    BY <1>1
  <2>2. \A j \in i .. q - 1 : j \in 1 .. Len(arg)
    BY <1>1
  <2>3. QED
    BY <1>1, <2>1, <2>2
<1>4. Doubled(arg, i) <=> Closes
  BY <1>1, <1>2, <1>3
<1>5. CASE arg[i] = "quote"
  BY <1>5 DEF Escaped
<1>6. CASE arg[i] = "slash" /\ Closes
  <2>1. Escaped(arg, i) = <<"slash", "slash">>
    BY <1>6 DEF Escaped
  <2>2. QED
    BY <1>4, <1>6, <2>1
<1>7. CASE arg[i] # "quote" /\ ~(arg[i] = "slash" /\ Closes)
  <2>1. Escaped(arg, i) = <<arg[i]>>
    BY <1>7 DEF Escaped
  <2>2. QED
    BY <1>4, <1>7, <2>1
<1>8. QED
  BY <1>5, <1>6, <1>7

LEMMA QuotedIs ==
  ASSUME NEW x \in Seq(Char), NEW z, z = <<"quote">> \o x \o <<"quote">>
  PROVE  /\ z \in Seq(Char) /\ Len(x) \in Nat /\ Len(z) = Len(x) + 2
         /\ z[1] = "quote" /\ z[Len(x) + 2] = "quote"
         /\ \A j \in 1 .. Len(x) : z[j + 1] = x[j]
<1>1. <<"quote">> \in Seq(Char) /\ Len(<<"quote">>) = 1 /\ <<"quote">>[1] = "quote"
      /\ Len(x) \in Nat
  BY DEF Char
<1> DEFINE y == <<"quote">> \o x
<1>2. /\ y \in Seq(Char) /\ Len(y) = 1 + Len(x) /\ y[1] = "quote"
      /\ \A j \in 1 .. Len(x) : y[1 + j] = x[j]
  BY <1>1, JoinedIs
<1>3. z = y \o <<"quote">>
  OBVIOUS
<1> HIDE DEF y
<1>4. /\ z \in Seq(Char) /\ Len(z) = Len(y) + 1
      /\ \A j \in 1 .. Len(y) : z[j] = y[j]
      /\ z[Len(y) + 1] = "quote"
  BY <1>1, <1>2, <1>3, JoinedIs
<1>5. \A j \in 1 .. Len(x) : 1 + j \in 1 .. Len(y) /\ 1 + j = j + 1
  BY <1>1, <1>2
<1>6. 1 \in 1 .. Len(y) /\ Len(y) + 1 = Len(x) + 2
  BY <1>1, <1>2
<1>7. QED
  BY <1>1, <1>2, <1>4, <1>5, <1>6

(* Alone on a line, a quoted argument is shown from its first character on. *)
LEMMA QuotedShows ==
  ASSUME NEW arg \in Seq(Char)
  PROVE  /\ Quoted(arg) \in Seq(Char)
         /\ \E at : Shown(Quoted(arg), 1, arg, at) /\ at[Len(arg) + 1] = Len(Quoted(arg))
<1> DEFINE n == Len(arg)
           p == [i \in 1 .. n |-> Escaped(arg, i)]
           x == FlattenSeq(p)
           z == Quoted(arg)
<1>0. n \in Nat /\ DOMAIN arg = 1 .. n /\ \A i \in 1 .. n : arg[i] \in Char
  OBVIOUS
<1>1. ASSUME NEW i \in 1 .. n
      PROVE  /\ p[i] \in Seq(Char)
             /\ \/ arg[i] = "quote" /\ p[i] = <<"slash", "quote">>
                \/ arg[i] = "slash" /\ Doubled(arg, i) /\ p[i] = <<"slash", "slash">>
                \/ /\ arg[i] # "quote" /\ ~(arg[i] = "slash" /\ Doubled(arg, i))
                   /\ p[i] = <<arg[i]>>
  <2>1. arg[i] \in Char /\ "slash" \in Char /\ "quote" \in Char
    BY <1>0 DEF Char
  <2>2. p[i] = Escaped(arg, i)
    OBVIOUS
  <2>3. Escaped(arg, i) = IF arg[i] = "quote" THEN <<"slash", "quote">>
                          ELSE IF arg[i] = "slash" /\ Doubled(arg, i)
                            THEN <<"slash", "slash">>
                          ELSE <<arg[i]>>
    BY EscapedIs
  <2> HIDE DEF p
  <2>4. \A c, d \in Char : <<c, d>> \in Seq(Char) /\ <<c>> \in Seq(Char)
    OBVIOUS
  <2>5. p[i] \in Seq(Char)
    BY <2>1, <2>2, <2>3, <2>4
  <2>6. QED
    BY <2>2, <2>3, <2>5
<1>2. z = <<"quote">> \o x \o <<"quote">>
  BY <1>0 DEF Quoted
<1>3. p = [i \in 1 .. n |-> p[i]]
  OBVIOUS
<1>4. PICK O : Laid(Char, n, p, x, O)
  <2>1. \A k \in 1 .. n : p[k] \in Seq(Char)
    BY <1>1
  <2> HIDE DEF n, p
  <2>2. QED
    BY <1>0, <1>3, <2>1, Layout
<1> HIDE DEF p, x, z
<1>5. /\ z \in Seq(Char) /\ Len(x) \in Nat /\ Len(z) = Len(x) + 2
      /\ z[1] = "quote" /\ z[Len(x) + 2] = "quote"
      /\ \A j \in 1 .. Len(x) : z[j + 1] = x[j]
  BY <1>2, <1>4, QuotedIs DEF Laid
<1> DEFINE at == [i \in 1 .. n + 1 |-> O[i] + 1]
<1>6. /\ at \in [1 .. n + 1 -> Nat \ {0}] /\ at[1] = 2 /\ at[n + 1] = Len(z)
  <2>1. O \in [1 .. n + 1 -> Nat \ {0}] /\ O[1] = 1 /\ O[n + 1] = Len(x) + 1
    BY <1>4 DEF Laid
  <2>2. 1 \in 1 .. n + 1 /\ n + 1 \in 1 .. n + 1
    BY <1>0
  <2>3. QED
    BY <1>5, <2>1, <2>2
<1>7. ASSUME NEW i \in 1 .. n PROVE Spelled(z, at[i], at[i + 1], arg, i)
  <2>1. i \in 1 .. n + 1 /\ i + 1 \in 1 .. n + 1
    BY <1>0
  <2>2. PICK o \in Nat \ {0} : o = O[i]
    BY <1>4, <2>1 DEF Laid
  <2>3. /\ O[i + 1] = o + Len(p[i]) /\ O[i + 1] <= Len(x) + 1
        /\ \A j \in 1 .. Len(p[i]) : x[o + j - 1] = p[i][j]
    BY <1>4, <2>2 DEF Laid
  <2>4. at[i] = o + 1 /\ at[i + 1] = O[i + 1] + 1
    BY <2>1, <2>2
  <2> HIDE DEF at, n
  <2>5. ASSUME NEW c, NEW d, p[i] = <<c, d>>
        PROVE  z[at[i]] = c /\ z[at[i] + 1] = d /\ at[i + 1] = at[i] + 2
    <3>1. Len(p[i]) = 2 /\ p[i][1] = c /\ p[i][2] = d
      BY <2>5
    <3>2. O[i + 1] = o + 2 /\ o \in 1 .. Len(x) /\ o + 1 \in 1 .. Len(x)
      BY <1>5, <2>3, <3>1
    <3>3. x[o + 1 - 1] = c /\ x[o + 2 - 1] = d /\ o + 1 - 1 = o /\ o + 2 - 1 = o + 1
      BY <2>3, <3>1
    <3>4. QED
      BY <1>5, <2>4, <3>2, <3>3
  <2>6. ASSUME NEW c, p[i] = <<c>>
        PROVE  z[at[i]] = c /\ at[i + 1] = at[i] + 1
    <3>1. Len(p[i]) = 1 /\ p[i][1] = c
      BY <2>6
    <3>2. O[i + 1] = o + 1 /\ o \in 1 .. Len(x)
      BY <1>5, <2>3, <3>1
    <3>3. x[o + 1 - 1] = c /\ o + 1 - 1 = o
      BY <2>3, <3>1
    <3>4. QED
      BY <1>5, <2>4, <3>2, <3>3
  <2>7. CASE arg[i] = "quote" /\ p[i] = <<"slash", "quote">>
    BY <2>5, <2>7 DEF Spelled
  <2>8. CASE arg[i] = "slash" /\ Doubled(arg, i) /\ p[i] = <<"slash", "slash">>
    BY <2>5, <2>8 DEF Spelled
  <2>9. CASE /\ arg[i] # "quote" /\ ~(arg[i] = "slash" /\ Doubled(arg, i))
             /\ p[i] = <<arg[i]>>
    BY <2>6, <2>9 DEF Spelled
  <2>10. QED
    BY <1>1, <2>7, <2>8, <2>9
<1> HIDE DEF at
<1>8. Shown(z, 1, arg, at)
  <2>1. Len(z) \in Nat
    BY <1>5
  <2>2. QED
    BY <1>5, <1>6, <1>7, <2>1 DEF Shown
<1>9. QED
  BY <1>5, <1>6, <1>8 DEF z

(* z stands in s after the first d characters, between spaces. *)
Stands(z, s, d) ==
  /\ d + Len(z) <= Len(s)
  /\ \A j \in 1 .. Len(z) : s[d + j] = z[j]
  /\ d = 0 \/ s[d] = "space"
  /\ d + Len(z) = Len(s) \/ s[d + Len(z) + 1] = "space"

LEMMA ShownOn ==
  ASSUME NEW z, Len(z) \in Nat, NEW arg \in Seq(Char), NEW at,
         Shown(z, 1, arg, at), at[Len(arg) + 1] = Len(z),
         NEW s, Len(s) \in Nat, NEW d \in Nat, Stands(z, s, d)
  PROVE  \E on : Shown(s, d + 1, arg, on) /\ on[Len(arg) + 1] = d + Len(z)
<1> USE DEF Stands
<1> DEFINE n == Len(arg)
           on == [i \in 1 .. n + 1 |-> d + at[i]]
<1>0. n \in Nat /\ n + 1 \in 1 .. n + 1 /\ 1 \in 1 .. n + 1
  OBVIOUS
<1>1. /\ \A i \in 1 .. n + 1 : at[i] \in Nat /\ 2 <= at[i] /\ at[i] <= Len(z)
      /\ at[1] = 2 /\ z[1] = "quote" /\ z[Len(z)] = "quote"
  <2>1. 1 \in Nat \ {0} /\ 1 + 1 = 2
    OBVIOUS
  <2>2. \A i \in 1 .. n + 1 : at[i] \in Nat /\ 1 + 1 <= at[i] /\ at[i] <= at[n + 1]
    BY <2>1, PlacesRise
  <2>3. at[1] = 1 + 1 /\ z[1] = "quote" /\ z[at[n + 1]] = "quote"
    BY DEF Shown
  <2>4. QED
    BY <2>1, <2>2, <2>3
<1>2. ASSUME NEW i \in 1 .. n PROVE Spelled(s, on[i], on[i + 1], arg, i)
  <2>1. i \in 1 .. n + 1 /\ i + 1 \in 1 .. n + 1
    BY <1>0
  <2>2. PICK p \in Nat : p = at[i] /\ 2 <= p
    BY <1>1, <2>1
  <2>3. PICK q \in Nat : q = at[i + 1] /\ q <= Len(z)
    BY <1>1, <2>1
  <2>4. Spelled(z, p, q, arg, i)
    BY <2>2, <2>3 DEF Shown
  <2>5. on[i] = d + p /\ on[i + 1] = d + q
    BY <2>1, <2>2, <2>3
  <2>6. q = p + 1 \/ q = p + 2
    BY <2>4 DEF Spelled
  <2>7. p \in 1 .. Len(z) /\ (q = p + 2 => p + 1 \in 1 .. Len(z))
    <3>1. \A l, x, y \in Nat : /\ 2 <= x /\ y <= l /\ (y = x + 1 \/ y = x + 2)
                             => x \in 1 .. l /\ (y = x + 2 => x + 1 \in 1 .. l)
      OBVIOUS
    <3>2. QED
      BY <2>2, <2>3, <2>6, <3>1
  <2>8. s[d + p] = z[p] /\ (q = p + 2 => s[(d + p) + 1] = z[p + 1])
    <3>1. d + (p + 1) = (d + p) + 1
      OBVIOUS
    <3>2. q = p + 2 => s[d + (p + 1)] = z[p + 1]
      BY <2>7
    <3>3. QED
      BY <2>7, <3>1, <3>2
  <2>9. d + (p + 2) = (d + p) + 2 /\ d + (p + 1) = (d + p) + 1
    OBVIOUS
  <2>10. Spelled(s, d + p, d + q, arg, i)
    BY <2>4, <2>8, <2>9 DEF Spelled
  <2>11. QED
    BY <2>5, <2>10
<1>3. on \in [1 .. n + 1 -> Nat \ {0}] /\ on[1] = (d + 1) + 1 /\ on[n + 1] = d + Len(z)
  <2>1. \A x \in Nat : 2 <= x => d + x \in Nat \ {0}
    OBVIOUS
  <2>2. \A i \in 1 .. n + 1 : d + at[i] \in Nat \ {0}
    BY <1>1, <2>1
  <2>7. \A i \in 1 .. n + 1 : on[i] = d + at[i]
    OBVIOUS
  <2>8. d + 2 = (d + 1) + 1
    OBVIOUS
  <2>3. on[1] = d + at[1] /\ on[n + 1] = d + at[n + 1] /\ d + 2 = (d + 1) + 1
    <3> HIDE DEF on
    <3>1. QED
      BY <1>0, <2>7, <2>8
  <2>4. at[1] = 2 /\ at[n + 1] = Len(z)
    BY <1>1
  <2>5. on \in [1 .. n + 1 -> Nat \ {0}]
    BY <2>2
  <2>6. QED
    BY <2>3, <2>4, <2>5
<1>4. (d + 1) - 1 = d /\ d + Len(z) + 1 = (d + Len(z)) + 1
  OBVIOUS
<1>5. s[d + 1] = "quote" /\ s[d + Len(z)] = "quote"
  <2>1. 1 \in 1 .. Len(z) /\ Len(z) \in 1 .. Len(z)
    BY <1>0, <1>1
  <2>2. QED
    BY <1>1, <2>1
<1>6. d + 1 = 1 \/ s[(d + 1) - 1] = "space"
  BY <1>4
<1> HIDE DEF on
<1>7. Shown(s, d + 1, arg, on)
  BY <1>2, <1>3, <1>5, <1>6 DEF Shown
<1>8. QED
  BY <1>3, <1>7

-----------------------------------------------------------------------------
(* A line of arguments: argument k from B[k] to E[k], a space between two. *)
Lined(s, args, B, E) ==
  /\ B \in [1 .. Len(args) -> Nat \ {0}] /\ E \in [1 .. Len(args) -> Nat \ {0}]
  /\ \A k \in 1 .. Len(args) :
       /\ B[k] <= E[k] /\ E[k] <= Len(s)
       /\ \E at : Shown(s, B[k], args[k], at) /\ at[Len(args[k]) + 1] = E[k]
       /\ k = 1 => B[k] = 1
       /\ k # 1 => B[k] = E[k - 1] + 2 /\ s[E[k - 1] + 1] = "space"
       /\ k = Len(args) => E[k] = Len(s)
  /\ Len(args) = 0 => Len(s) = 0

(* No argument is begun inside quotes. *)
LEMMA BegunOutside ==
  ASSUME NEW s, Len(s) \in Nat, NEW args, args \in Seq(Seq(Char)), NEW B, NEW E,
         Lined(s, args, B, E)
  PROVE  \A k \in 1 .. Len(args) : ~Inside(s, B[k])
<1> DEFINE n == Len(args)
           S == {k \in Nat : k = 0 \/ ~Inside(s, B[k])}
<1>0. n \in Nat
  OBVIOUS
<1>1. 0 \in S
  OBVIOUS
<1>2. ASSUME NEW k \in 1 .. n, k - 1 \in S PROVE k \in S
  <2>1. CASE k = 1
    <3>1. B[k] = 1
      BY <2>1 DEF Lined
    <3>2. ~Inside(s, 1)
      BY InsideFirst
    <3>3. QED
      BY <3>1, <3>2
  <2>2. CASE k # 1
    <3>1. k - 1 \in 1 .. n
      BY <2>2
    <3>2. PICK at : Shown(s, B[k - 1], args[k - 1], at) /\ at[Len(args[k - 1]) + 1] = E[k - 1]
      BY <3>1 DEF Lined
    <3>3. PICK b \in Nat \ {0} : b = B[k - 1]
      BY <3>1 DEF Lined
    <3>4. PICK e \in Nat \ {0} : e = E[k - 1]
      BY <3>1 DEF Lined
    <3>5. PICK arg \in Seq(Char) : arg = args[k - 1]
      BY <3>1
    <3>6. ~Inside(s, b)
      BY <1>2, <2>2, <3>3
    <3>7. Shown(s, b, arg, at) /\ at[Len(arg) + 1] = e
      BY <3>2, <3>3, <3>4, <3>5
    <3>8. ~Inside(s, e + 1)
      BY <3>6, <3>7, QuotedInside
    <3>9. B[k] = e + 2 /\ s[e + 1] = "space"
      BY <2>2, <3>4 DEF Lined
    <3>10. ~Delimits(s, e + 1)
      BY <3>9 DEF Delimits
    <3>11. e + 1 \in Nat \ {0} /\ (e + 1) + 1 = e + 2
      OBVIOUS
    <3>12. ~Inside(s, e + 2)
      BY <3>8, <3>10, <3>11, InsideNext
    <3>13. QED
      BY <3>9, <3>12
  <2>3. QED
    BY <2>1, <2>2
<1>3. 0 .. n \subseteq S
  <2> HIDE DEF S, n
  <2>1. QED
    BY <1>0, <1>1, <1>2, Climb
<1>4. \A k \in 1 .. n : k \in 0 .. n /\ k # 0
  OBVIOUS
<1>5. QED
  BY <1>3, <1>4

(* One argument of a line: it holds no parting character but the one after. *)
LEMMA OneOfLine ==
  ASSUME NEW s, Len(s) \in Nat, NEW args, args \in Seq(Seq(Char)), NEW B, NEW E,
         Lined(s, args, B, E), NEW k \in 1 .. Len(args)
  PROVE  /\ \A p \in B[k] .. E[k] : ~Parts(s, p)
         /\ k # Len(args) => Parts(s, E[k] + 1)
         /\ Argument(s, B[k]) = args[k]
<1>1. PICK at : Shown(s, B[k], args[k], at) /\ at[Len(args[k]) + 1] = E[k]
  BY DEF Lined
<1>2. PICK b \in Nat \ {0} : b = B[k]
  BY DEF Lined
<1>3. PICK e \in Nat \ {0} : e = E[k]
  BY DEF Lined
<1>4. PICK arg \in Seq(Char) : arg = args[k]
  OBVIOUS
<1>5. ~Inside(s, b)
  BY <1>2, BegunOutside
<1>6. Shown(s, b, arg, at) /\ at[Len(arg) + 1] = e
  BY <1>1, <1>2, <1>3, <1>4
<1>7. \A p \in b .. e : ~Parts(s, p)
  BY <1>5, <1>6, QuotedWhole
<1>8. e # Len(s) => Parts(s, e + 1)
  BY <1>5, <1>6, QuotedWhole
<1>9. Argument(s, b) = arg
  BY <1>5, <1>6, ArgumentBack
<1>10. k # Len(args) => e # Len(s)
  <2>1. ASSUME k # Len(args), e = Len(s) PROVE FALSE
    <3>1. Len(args) \in Nat /\ k + 1 \in 1 .. Len(args) /\ k + 1 # 1 /\ (k + 1) - 1 = k
      BY <2>1
    <3>2. B[k + 1] = e + 2
      BY <1>3, <3>1 DEF Lined
    <3>3. B[k + 1] <= E[k + 1] /\ E[k + 1] <= Len(s) /\ E[k + 1] \in Nat
      BY <3>1 DEF Lined
    <3>4. QED
      BY <2>1, <3>2, <3>3
  <2>2. QED
    BY <2>1
<1>11. QED
  BY <1>2, <1>3, <1>4, <1>7, <1>8, <1>9, <1>10

(* Every place of a line is in an argument or follows one. *)
LEMMA LineCovered ==
  ASSUME NEW s, Len(s) \in Nat, NEW args, args \in Seq(Seq(Char)), NEW B, NEW E,
         Lined(s, args, B, E)
  PROVE  \A p \in 1 .. Len(s) : \E k \in 1 .. Len(args) :
           \/ p \in B[k] .. E[k]
           \/ k # Len(args) /\ p = E[k] + 1
<1> DEFINE n == Len(args)
           In(p, k) == p \in B[k] .. E[k] \/ (k # n /\ p = E[k] + 1)
           S == {k \in Nat : k = 0 \/ \A p \in 1 .. E[k] : \E j \in 1 .. n : In(p, j)}
<1>0. n \in Nat
  OBVIOUS
<1>1. 0 \in S
  OBVIOUS
<1>2. ASSUME NEW k \in 1 .. n, k - 1 \in S PROVE k \in S
  <2>1. B[k] \in Nat /\ E[k] \in Nat
    BY DEF Lined
  <2>2. CASE k = 1
    <3>1. B[k] = 1
      BY <2>2 DEF Lined
    <3>2. \A p \in 1 .. E[k] : In(p, k)
      BY <3>1
    <3>3. \A p \in 1 .. E[k] : \E j \in 1 .. n : In(p, j)
      BY <3>2
    <3>4. QED
      BY <3>3
  <2>3. CASE k # 1
    <3>1. k - 1 \in 1 .. n /\ k - 1 # n
      BY <1>0, <2>3
    <3>2. PICK e \in Nat : e = E[k - 1]
      BY <3>1 DEF Lined
    <3>3. B[k] = e + 2
      BY <2>3, <3>2 DEF Lined
    <3>4. \A p \in 1 .. e : \E j \in 1 .. n : In(p, j)
      BY <1>2, <2>3, <3>2
    <3>5. In(e + 1, k - 1)
      BY <3>1, <3>2
    <3>6. \A p \in 1 .. E[k] : p \in 1 .. e \/ p = e + 1 \/ p \in B[k] .. E[k]
      BY <2>1, <3>3
    <3>7. \A p \in B[k] .. E[k] : In(p, k)
      OBVIOUS
    <3>8. \A p \in 1 .. E[k] : \E j \in 1 .. n : In(p, j)
      <4> HIDE DEF In
      <4>1. QED
        BY <3>1, <3>4, <3>5, <3>6, <3>7
    <3>9. QED
      BY <3>8
  <2>4. QED
    BY <2>2, <2>3
<1>3. 0 .. n \subseteq S
  <2> HIDE DEF S, n
  <2>1. QED
    BY <1>0, <1>1, <1>2, Climb
<1>4. CASE n = 0
  BY <1>4 DEF Lined
<1>5. CASE n # 0
  <2>1. n \in 0 .. n /\ n \in 1 .. n /\ n # 0
    BY <1>0, <1>5
  <2>2. E[n] = Len(s)
    BY <2>1 DEF Lined
  <2>3. \A p \in 1 .. E[n] : \E j \in 1 .. n : In(p, j)
    BY <1>3, <2>1
  <2>4. QED
    BY <2>2, <2>3
<1>6. QED
  BY <1>4, <1>5

(* The rule reads the arguments of a line back. *)
LEMMA ArgvBack ==
  ASSUME NEW s, Len(s) \in Nat, NEW args, args \in Seq(Seq(Char)), NEW B, NEW E,
         Lined(s, args, B, E), DOMAIN s = 1 .. Len(s)
  PROVE  Argv(s) = args
<1> DEFINE n == Len(args)
           F == Firsts(s)
<1>0. n \in Nat
  OBVIOUS
<1>1. ASSUME NEW k \in 1 .. n
      PROVE  /\ B[k] \in Nat \ {0} /\ E[k] \in Nat \ {0}
             /\ B[k] <= E[k] /\ E[k] <= Len(s) /\ B[k] \in 1 .. Len(s)
  <2>1. B[k] \in Nat \ {0} /\ E[k] \in Nat \ {0} /\ B[k] <= E[k] /\ E[k] <= Len(s)
    BY DEF Lined
  <2>2. QED
    BY <2>1
<1>2. ASSUME NEW k \in 1 .. n PROVE B[k] \in F
  <2>1. ~Parts(s, B[k])
    <3>1. B[k] \in B[k] .. E[k]
      BY <1>1
    <3>2. QED
      BY <3>1, OneOfLine
  <2>2. k # 1 => Parts(s, B[k] - 1)
    <3>1. ASSUME k # 1 PROVE Parts(s, B[k] - 1)
      <4>1. k - 1 \in 1 .. n /\ k - 1 # n
        BY <1>0, <3>1
      <4>2. Parts(s, E[k - 1] + 1)
        BY <4>1, OneOfLine
      <4>3. B[k] = E[k - 1] + 2 /\ E[k - 1] \in Nat
        BY <1>1, <3>1, <4>1 DEF Lined
      <4>4. B[k] - 1 = E[k - 1] + 1
        BY <4>3
      <4>5. QED
        BY <4>2, <4>4
    <3>2. QED
      BY <3>1
  <2>3. k = 1 => B[k] = 1
    BY DEF Lined
  <2>4. B[k] \in DOMAIN s
    BY <1>1
  <2>5. QED
    BY <2>1, <2>2, <2>3, <2>4 DEF Firsts
<1>3. ASSUME NEW p \in F PROVE \E k \in 1 .. n : p = B[k]
  <2>1. p \in 1 .. Len(s) /\ ~Parts(s, p) /\ (p = 1 \/ Parts(s, p - 1))
    BY DEF Firsts
  <2>2. PICK k \in 1 .. n : p \in B[k] .. E[k] \/ (k # n /\ p = E[k] + 1)
    BY <2>1, LineCovered
  <2>3. p \in B[k] .. E[k]
    <3>1. k # n => Parts(s, E[k] + 1)
      BY OneOfLine
    <3>2. QED
      BY <2>1, <2>2, <3>1
  <2>4. ASSUME p # B[k] PROVE FALSE
    <3>1. p # 1 /\ p - 1 \in B[k] .. E[k]
      BY <1>1, <2>1, <2>3, <2>4
    <3>2. ~Parts(s, p - 1)
      BY <3>1, OneOfLine
    <3>3. QED
      BY <2>1, <3>1, <3>2
  <2>5. QED
    BY <2>4
<1>4. ASSUME NEW k \in 1 .. n, k # 1 PROVE B[k - 1] < B[k]
  <2>1. k - 1 \in 1 .. n
    BY <1>4
  <2>2. B[k] = E[k - 1] + 2
    BY <1>4 DEF Lined
  <2>3. B[k - 1] \in Nat /\ E[k - 1] \in Nat /\ B[k - 1] <= E[k - 1]
    BY <1>1, <2>1
  <2>4. QED
    BY <2>2, <2>3
<1>5. B \in [1 .. n -> 1 .. Len(s)]
  BY <1>1 DEF Lined
<1>6. F = {B[k] : k \in 1 .. n}
  <2> HIDE DEF F
  <2>1. QED
    BY <1>2, <1>3
<1> HIDE DEF F, n
<1>7. Rises(Len(s), n, B, F)
  BY <1>4, <1>5, <1>6 DEF Rises
<1>8. Cardinality(F) = n /\ \A k \in 1 .. n : Ascending(F)[k] = B[k]
  <2>1. n \in Nat /\ Len(s) \in Nat
    BY <1>0
  <2>2. QED
    BY <1>7, <2>1, RisesIs
<1>9. DOMAIN Ascending(F) = 1 .. n
  BY <1>8 DEF Ascending
<1>10. Argv(s) = [k \in 1 .. n |-> Argument(s, Ascending(F)[k])]
  BY <1>9 DEF Argv, F
<1>11. \A k \in 1 .. n : Argument(s, B[k]) = args[k]
  BY OneOfLine DEF n
<1>12. Argv(s) = [k \in 1 .. n |-> args[k]]
  BY <1>8, <1>10, <1>11
<1>13. args = [k \in 1 .. n |-> args[k]]
  BY DEF n
<1>14. QED
  BY <1>12, <1>13

(* What Join puts together is a line of arguments. *)
LEMMA JoinLines ==
  ASSUME NEW args, args \in Seq(Seq(Char))
  PROVE  /\ Join(args) \in Seq(Char)
         /\ \E B, E : Lined(Join(args), args, B, E)
<1> DEFINE n == Len(args)
           lead(k) == IF k = 1 THEN 0 ELSE 1
           P == [k \in 1 .. n |-> IF k = 1 THEN Quoted(args[k])
                                  ELSE <<"space">> \o Quoted(args[k])]
           s == FlattenSeq(P)
<1>0. n \in Nat /\ DOMAIN args = 1 .. n /\ \A k \in 1 .. n : args[k] \in Seq(Char)
  OBVIOUS
<1>1. Join(args) = s
  BY <1>0 DEF Join
<1>2. ASSUME NEW k \in 1 .. n, NEW z, z = Quoted(args[k])
      PROVE  /\ P[k] \in Seq(Char) /\ z \in Seq(Char)
             /\ Len(P[k]) = lead(k) + Len(z)
             /\ k # 1 => P[k][1] = "space"
             /\ \A j \in 1 .. Len(z) : P[k][lead(k) + j] = z[j]
  <2>1. z \in Seq(Char)
    <3>1. PICK arg \in Seq(Char) : arg = args[k]
      BY <1>0
    <3>2. QED
      BY <1>2, <3>1, QuotedShows
  <2>2. P[k] = IF k = 1 THEN z ELSE <<"space">> \o z
    BY <1>2
  <2>3. <<"space">> \in Seq(Char) /\ Len(<<"space">>) = 1 /\ <<"space">>[1] = "space"
    BY DEF Char
  <2> HIDE DEF P
  <2>4. CASE k = 1
    <3>1. \A j \in 1 .. Len(z) : 0 + j = j
      BY <2>1
    <3>2. 0 + Len(z) = Len(z)
      BY <2>1
    <3>3. QED
      BY <2>1, <2>2, <2>4, <3>1, <3>2
  <2>5. CASE k # 1
    <3>1. P[k] = <<"space">> \o z
      BY <2>2, <2>5
    <3>2. /\ P[k] \in Seq(Char) /\ Len(P[k]) = Len(<<"space">>) + Len(z)
          /\ \A i \in 1 .. Len(<<"space">>) : P[k][i] = <<"space">>[i]
          /\ \A i \in 1 .. Len(z) : P[k][Len(<<"space">>) + i] = z[i]
      BY <2>1, <2>3, <3>1, JoinedIs
    <3>3. QED
      BY <2>1, <2>3, <2>5, <3>2
  <2>6. QED
    BY <2>4, <2>5
<1>3. P = [k \in 1 .. n |-> P[k]]
  OBVIOUS
<1>4. PICK O : Laid(Char, n, P, s, O)
  <2>1. \A k \in 1 .. n : P[k] \in Seq(Char)
    BY <1>2
  <2> HIDE DEF n, P
  <2>2. QED
    BY <1>0, <1>3, <2>1, Layout
<1> HIDE DEF P, s
<1>5. /\ s \in Seq(Char) /\ Len(s) \in Nat /\ O[1] = 1 /\ O[n + 1] = Len(s) + 1
      /\ \A k \in 1 .. n + 1 : O[k] \in Nat \ {0}
  <2>1. s \in Seq(Char) /\ O \in [1 .. n + 1 -> Nat \ {0}]
        /\ O[1] = 1 /\ O[n + 1] = Len(s) + 1
    BY <1>4 DEF Laid
  <2>2. QED
    BY <2>1
<1> DEFINE B == [k \in 1 .. n |-> O[k] + lead(k)]
           E == [k \in 1 .. n |-> O[k + 1] - 1]
<1>6. ASSUME NEW k \in 1 .. n
      PROVE  /\ s[O[k]] = "space" \/ k = 1
             /\ E[k] \in Nat /\ B[k] \in Nat \ {0} /\ B[k] <= E[k] /\ E[k] <= Len(s)
             /\ (k = n \/ s[O[k + 1]] = "space") =>
                  \E at : Shown(s, B[k], args[k], at) /\ at[Len(args[k]) + 1] = E[k]
  <2>1. PICK arg \in Seq(Char) : arg = args[k]
    BY <1>0
  <2>2. PICK z : z = Quoted(args[k])
    OBVIOUS
  <2>3. PICK at : Shown(z, 1, arg, at) /\ at[Len(arg) + 1] = Len(z)
    BY <2>1, <2>2, QuotedShows
  <2>4. /\ Len(z) \in Nat /\ Len(P[k]) = lead(k) + Len(z)
        /\ k # 1 => P[k][1] = "space"
        /\ \A j \in 1 .. Len(z) : P[k][lead(k) + j] = z[j]
    BY <1>2, <2>2
  <2>5. k \in 1 .. n + 1 /\ k + 1 \in 1 .. n + 1
    BY <1>0
  <2>6. PICK o \in Nat \ {0} : o = O[k]
    BY <1>5, <2>5
  <2>7. PICK e \in Nat \ {0} : e = O[k + 1]
    BY <1>5, <2>5
  <2>8. /\ e = o + Len(P[k]) /\ e <= Len(s) + 1
        /\ \A i \in 1 .. Len(P[k]) : s[o + i - 1] = P[k][i]
    BY <1>4, <2>6, <2>7 DEF Laid
  <2>9. PICK l \in {0, 1} : l = lead(k)
    OBVIOUS
  <2>10. PICK d \in Nat : d = o + l - 1
    OBVIOUS
  <2>11. B[k] = d + 1 /\ E[k] = e - 1 /\ E[k] = d + Len(z) /\ d + Len(z) <= Len(s)
    <3>1. B[k] = o + l /\ E[k] = e - 1
      BY <2>6, <2>7, <2>9
    <3>2. e = o + (l + Len(z))
      BY <2>4, <2>8, <2>9
    <3> HIDE DEF B, E
    <3>3. QED
      BY <1>5, <2>4, <2>8, <2>10, <3>1, <3>2
  <2>12. 2 <= Len(z)
    <3>1. 1 \in Nat \ {0} /\ Len(arg) + 1 \in 1 .. Len(arg) + 1 /\ 1 + 1 = 2
      OBVIOUS
    <3>2. 1 + 1 <= at[Len(arg) + 1]
      BY <2>3, <2>4, <3>1, PlacesRise
    <3>3. QED
      BY <2>3, <3>1, <3>2
  <2>13. \A j \in 1 .. Len(z) : s[d + j] = z[j]
    <3>1. ASSUME NEW j \in 1 .. Len(z) PROVE s[d + j] = z[j]
      <4>1. l + j \in 1 .. Len(P[k]) /\ o + (l + j) - 1 = d + j
        BY <2>4, <2>9, <2>10
      <4>2. s[o + (l + j) - 1] = P[k][l + j]
        BY <2>8, <4>1
      <4>3. P[k][l + j] = z[j]
        BY <2>4, <2>9
      <4>4. QED
        BY <4>1, <4>2, <4>3
    <3>2. QED
      BY <3>1
  <2>14. k # 1 => s[o] = "space" /\ d = o
    <3>1. ASSUME k # 1 PROVE s[o] = "space" /\ d = o
      <4>1. l = 1
        BY <2>9, <3>1
      <4>2. 1 \in 1 .. Len(P[k]) /\ o + 1 - 1 = o
        BY <2>4, <2>9, <4>1
      <4>3. s[o + 1 - 1] = P[k][1]
        BY <2>8, <4>2
      <4>4. QED
        BY <2>4, <2>10, <3>1, <4>1, <4>2, <4>3
    <3>2. QED
      BY <3>1
  <2>15. k = 1 => d = 0
    <3>1. k = 1 => l = 0 /\ o = 1
      BY <1>5, <2>6, <2>9
    <3>2. QED
      BY <2>10, <3>1
  <2>16. ASSUME k = n \/ s[O[k + 1]] = "space"
         PROVE  d + Len(z) = Len(s) \/ s[d + Len(z) + 1] = "space"
    <3>1. d + Len(z) + 1 = e
      <4>1. e - 1 = d + Len(z)
        BY <2>11
      <4> HIDE DEF B, E
      <4>2. QED
        BY <2>4, <4>1
    <3>2. k = n => e = Len(s) + 1
      BY <1>5, <2>7
    <3>3. QED
      BY <1>5, <2>4, <2>7, <2>16, <3>1, <3>2
  <2> HIDE DEF B, E, lead
  <2>17. ASSUME k = n \/ s[O[k + 1]] = "space"
         PROVE  \E on : Shown(s, d + 1, arg, on) /\ on[Len(arg) + 1] = d + Len(z)
    <3>1. d = 0 \/ s[d] = "space"
      BY <2>14, <2>15
    <3>2. d + Len(z) = Len(s) \/ s[d + Len(z) + 1] = "space"
      BY <2>16, <2>17
    <3>3. Stands(z, s, d)
      BY <2>11, <2>13, <3>1, <3>2 DEF Stands
    <3>4. Len(s) \in Nat /\ Len(z) \in Nat
      BY <1>5, <2>4
    <3>5. QED
      BY <2>3, <3>3, <3>4, ShownOn
  <2>18. (k = n \/ s[O[k + 1]] = "space") =>
           \E on : Shown(s, B[k], args[k], on) /\ on[Len(args[k]) + 1] = E[k]
    BY <2>1, <2>11, <2>17
  <2>19. E[k] \in Nat /\ B[k] \in Nat \ {0} /\ B[k] <= E[k] /\ E[k] <= Len(s)
    BY <2>4, <2>11, <2>12
  <2>20. QED
    BY <2>6, <2>14, <2>18, <2>19
<1>7. ASSUME NEW k \in 1 .. n
      PROVE  /\ \E at : Shown(s, B[k], args[k], at) /\ at[Len(args[k]) + 1] = E[k]
             /\ k = 1 => B[k] = 1
             /\ k # 1 => B[k] = E[k - 1] + 2 /\ s[E[k - 1] + 1] = "space"
             /\ k = n => E[k] = Len(s)
  <2>1. k = n \/ s[O[k + 1]] = "space"
    <3>1. ASSUME k # n PROVE s[O[k + 1]] = "space"
      <4> HIDE DEF B, E, n
      <4>1. k + 1 \in 1 .. n /\ k + 1 # 1
        BY <1>0, <3>1
      <4>2. QED
        BY <1>6, <4>1
    <3>2. QED
      BY <3>1
  <2>2. k = 1 => B[k] = 1
    BY <1>5
  <2>3. ASSUME k # 1 PROVE B[k] = E[k - 1] + 2 /\ s[E[k - 1] + 1] = "space"
    <3>1. k - 1 \in 1 .. n /\ (k - 1) + 1 = k /\ k \in 1 .. n + 1
      BY <1>0, <2>3
    <3>2. O[k] \in Nat /\ B[k] = O[k] + 1 /\ E[k - 1] = O[k] - 1
      BY <1>5, <2>3, <3>1
    <3>3. s[O[k]] = "space"
      BY <1>6, <2>3
    <3> HIDE DEF B, E
    <3>4. \A x \in Nat : x + 1 = (x - 1) + 2 /\ (x - 1) + 1 = x
      OBVIOUS
    <3>5. B[k] = E[k - 1] + 2 /\ E[k - 1] + 1 = O[k]
      BY <3>2, <3>4
    <3>6. QED
      BY <3>3, <3>5
  <2>4. k = n => E[k] = Len(s)
    <3>1. E[k] = O[k + 1] - 1
      OBVIOUS
    <3> HIDE DEF E
    <3>2. QED
      BY <1>5, <3>1
  <2> HIDE DEF B, E
  <2>5. QED
    BY <1>6, <2>1, <2>2, <2>3, <2>4
<1>8. B \in [1 .. n -> Nat \ {0}] /\ E \in [1 .. n -> Nat \ {0}]
  <2>1. \A k \in 1 .. n : B[k] \in Nat \ {0} /\ E[k] \in Nat \ {0}
    <3> HIDE DEF B, E
    <3>1. QED
      BY <1>6
  <2>2. QED
    BY <2>1
<1>9. n = 0 => Len(s) = 0
  BY <1>5
<1> HIDE DEF B, E
<1>10. Lined(s, args, B, E)
  BY <1>6, <1>7, <1>8, <1>9 DEF Lined
<1>11. QED
  BY <1>1, <1>5, <1>10

(* Joined and split by the rule, the arguments are what they were.         *)
LEMMA JoinSplits ==
  ASSUME NEW args, args \in Seq(Seq(Char))
  PROVE  Argv(Join(args)) = args
<1>1. PICK s : s = Join(args)
  OBVIOUS
<1>2. s \in Seq(Char)
  BY <1>1, JoinLines
<1>3. PICK B, E : Lined(s, args, B, E)
  BY <1>1, JoinLines
<1>4. Len(s) \in Nat /\ DOMAIN s = 1 .. Len(s)
  BY <1>2
<1>5. Argv(s) = args
  BY <1>3, <1>4, ArgvBack
<1>6. QED
  BY <1>1, <1>5

(* "Both halves follow CommandLineToArgvW, so an argument survives         *)
(* whatever is in it" (README): whatever argument list __spawn joins, the  *)
(* shared next_token returns.                                              *)
THEOREM WhatIsJoinedArrives == Spec => []SpawnRoundTrip
<1>1. ArgvIsRight => SpawnRoundTrip
  <2> SUFFICES ASSUME ArgvIsRight, pc = "end", version.escapes,
                      NEW args \in ArgLists, line = Joined[args]
               PROVE  Arguments = args
    BY DEF SpawnRoundTrip
  <2>1. args \in Seq(Seq(Char))
    BY ArgListAssumption
  <2>2. line = Join(args)
    BY DEF Joined
  <2>3. Arguments = Argv(line)
    BY DEF ArgvIsRight
  <2>4. QED
    BY <2>1, <2>2, <2>3, JoinSplits
<1>2. QED
  BY <1>1, ArgumentsAreTheRules, PTL
==============================================================================
