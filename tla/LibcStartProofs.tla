--------------------------- MODULE LibcStartProofs ---------------------------
(***************************************************************************)
(* The areas past the image keep apart, for any layout, command line,      *)
(* environment, paths and blocks, as far as each area's own limit goes.    *)
(*                                                                         *)
(* The argument: a Put or a Fill changes only the bytes it names (FillAt), *)
(* what is stored in untouched bytes stays stored (StoredKept), and a Put  *)
(* past the strings so far stores one more (PutStores).  The invariant     *)
(* follows the cursors through the two loops.                              *)
(***************************************************************************)
EXTENDS LibcStart, TLAPS

(* The heap's bytes, as they were written. *)
HeapHolds == \A a \in HEAP .. brk - 1 : a <= Top => mem[a] = Heap

(* The loop over the arguments, while it is inside its two areas. *)
ArgumentsSoFar ==
  pc = "args" =>
    /\ edi >= STRINGS
    /\ WORD * ecx <= STRINGS /\ edi <= PATH =>
         /\ Stored(mem, 0, args, ecx, "argument", STRINGS, edi)
         /\ HeapHolds

ArgumentsSet == pc \in {"env", "main"} /\ ArgumentsFit => ArgvHolds

(* The loop over the environment. *)
EntriesSoFar ==
  pc = "env" =>
    /\ edi >= ENVSTRINGS
    /\ WORD * esi <= ENVSTRINGS - ENVP /\ edi <= HEAP =>
         /\ Stored(mem, ENVP, env, esi, "entry", ENVSTRINGS, edi)
         /\ ArgumentsFit => HeapHolds

IInv ==
  /\ TypeOK
  /\ pc \in {"env", "main"} => ecx = Len(args)
  /\ ArgumentsSoFar /\ ArgumentsSet /\ EntriesSoFar
  /\ EnvironmentIntact
  /\ pc = "main" /\ ArgumentsFit /\ EnvironmentFits /\ PathsFit => HeapHolds

Memory == [0 .. Top -> Tag]

-----------------------------------------------------------------------------
(* Memory. *)

(* What a Fill leaves: the bytes it names changed, and no others. *)
FillLeaves(m2, m, lo, n, what) ==
  /\ m2 \in Memory
  /\ \A a \in 0 .. Top : lo <= a /\ a < lo + n => m2[a] = what
  /\ \A a \in 0 .. Top : ~(lo <= a /\ a < lo + n) => m2[a] = m[a]

LEMMA FillAt ==
  ASSUME NEW m \in Memory, NEW lo \in Nat, NEW n \in Nat, NEW what \in Tag
  PROVE  FillLeaves(Fill(m, lo, n, what), m, lo, n, what)
BY DEF Fill, Memory, FillLeaves

(* What a Put leaves in the pointer's slot, the string and everywhere else. *)
PutLeaves(m2, m, slot, to, n, what) ==
  /\ m2 \in Memory
  /\ \A a \in 0 .. Top : slot <= a /\ a < slot + WORD => m2[a] = At(to)
  /\ \A a \in 0 .. Top : to <= a /\ a < to + n => m2[a] = what
  /\ to + n <= Top => m2[to + n] = Zero
  /\ \A a \in 0 .. Top :
       ~(slot <= a /\ a < slot + WORD) /\ ~(to <= a /\ a <= to + n) => m2[a] = m[a]

LEMMA PutAt ==
  ASSUME NEW m \in Memory, NEW slot \in Nat, NEW to \in Nat, NEW n \in Nat,
         NEW what \in Tag, slot + WORD <= to
  PROVE  PutLeaves(Put(m, slot, to, n, what), m, slot, to, n, what)
<1>1. At(to) \in Tag /\ Zero \in Tag /\ WORD \in Nat /\ to + n \in Nat
  BY DEF At, Zero, Byte, Tag, WORD
<1> DEFINE m1 == Fill(m, slot, WORD, At(to))
           m2 == Fill(m1, to, n, what)
           m3 == Fill(m2, to + n, 1, Zero)
<1>2. /\ m1 \in Memory
      /\ \A a \in 0 .. Top : slot <= a /\ a < slot + WORD => m1[a] = At(to)
      /\ \A a \in 0 .. Top : ~(slot <= a /\ a < slot + WORD) => m1[a] = m[a]
  <2>1. FillLeaves(m1, m, slot, WORD, At(to))
    BY <1>1, FillAt
  <2>2. QED
    BY <2>1 DEF FillLeaves
<1>a. m1 = Fill(m, slot, WORD, At(to))
  OBVIOUS
<1> HIDE DEF m1
<1>3. /\ m2 \in Memory
      /\ \A a \in 0 .. Top : to <= a /\ a < to + n => m2[a] = what
      /\ \A a \in 0 .. Top : ~(to <= a /\ a < to + n) => m2[a] = m1[a]
  <2>1. FillLeaves(m2, m1, to, n, what)
    BY <1>2, FillAt
  <2>2. QED
    BY <2>1 DEF FillLeaves
<1>b. m2 = Fill(m1, to, n, what)
  OBVIOUS
<1> HIDE DEF m2
<1>4. /\ m3 \in Memory
      /\ \A a \in 0 .. Top : to + n <= a /\ a < to + n + 1 => m3[a] = Zero
      /\ \A a \in 0 .. Top : ~(to + n <= a /\ a < to + n + 1) => m3[a] = m2[a]
  <2>1. 1 \in Nat /\ m2 \in Memory /\ to + n \in Nat /\ Zero \in Tag
    BY <1>1, <1>3
  <2>2. m3 = Fill(m2, to + n, 1, Zero)
    OBVIOUS
  <2> HIDE DEF m3
  <2>3. FillLeaves(m3, m2, to + n, 1, Zero)
    BY <2>1, <2>2, FillAt
  <2>4. QED
    BY <2>3 DEF FillLeaves
<1>5. Put(m, slot, to, n, what) = m3
  BY <1>a, <1>b DEF Put
<1> HIDE DEF m3
<1>6. Top \in Nat /\ slot + WORD \in Nat
  BY <1>1, LayoutAssumption
<1>7. \A a \in 0 .. Top : slot <= a /\ a < slot + WORD => m3[a] = At(to)
  <2>1. \A a \in 0 .. Top : a < slot + WORD => a < to
    BY <1>1, <1>6
  <2>2. \A a \in 0 .. Top : a < to => m3[a] = m1[a]
    BY <1>3, <1>4
  <2>3. QED
    BY <1>2, <2>1, <2>2
<1>8. \A a \in 0 .. Top : to <= a /\ a < to + n => m3[a] = what
  BY <1>3, <1>4
<1>9. to + n <= Top => m3[to + n] = Zero
  BY <1>1, <1>4, <1>6
<1>10. \A a \in 0 .. Top :
         ~(slot <= a /\ a < slot + WORD) /\ ~(to <= a /\ a <= to + n) => m3[a] = m[a]
  BY <1>2, <1>3, <1>4
<1>11. QED
  BY <1>4, <1>5, <1>7, <1>8, <1>9, <1>10 DEF PutLeaves

Same(m, m2, lo, hi) == \A a \in lo .. hi - 1 : m2[a] = m[a]

(* Strings whose slots and bytes are left alone stay stored.               *)
LEMMA StoredKept ==
  ASSUME NEW m, NEW m2, NEW base \in Nat, NEW lo \in Nat, NEW hi \in Nat,
         NEW strings \in Seq(Nat), NEW n \in 0 .. Len(strings), NEW kind,
         Stored(m, base, strings, n, kind, lo, hi),
         NEW end \in Nat, end = base + WORD * n, Same(m, m2, base, end),
         Same(m, m2, lo, hi), NEW hi2 \in Nat, hi <= hi2
  PROVE  Stored(m2, base, strings, n, kind, lo, hi2)
<1> SUFFICES ASSUME NEW k \in 1 .. n
             PROVE  \E a \in lo .. hi2 - 1 :
                      /\ a + strings[k] < hi2
                      /\ Points(m2, base + WORD * (k - 1), a)
                      /\ IsString(m2, a, strings[k], Byte(kind, k))
  BY DEF Stored
<1>1. PICK a \in lo .. hi - 1 :
        /\ a + strings[k] < hi
        /\ Points(m, base + WORD * (k - 1), a)
        /\ IsString(m, a, strings[k], Byte(kind, k))
  BY DEF Stored
<1>2. strings[k] \in Nat /\ k \in Nat
  OBVIOUS
<1>3. Points(m2, base + WORD * (k - 1), a)
  <2>1. \A i \in base + WORD * (k - 1) .. base + WORD * (k - 1) + WORD - 1 :
          i \in base .. end - 1
    BY <1>2 DEF WORD
  <2>2. QED
    <3>1. \A i \in base .. end - 1 : m2[i] = m[i]
      BY DEF Same
    <3>2. QED
      BY ONLY <1>1, <2>1, <3>1 DEF Points
<1>4. IsString(m2, a, strings[k], Byte(kind, k))
  <2>1. \A i \in a .. a + strings[k] - 1 : i \in lo .. hi - 1
    <3>1. \A x \in lo .. hi - 1 : \A size \in Nat :
            x + size < hi => \A i \in x .. x + size - 1 : i \in lo .. hi - 1
      OBVIOUS
    <3>2. QED
      BY ONLY <1>1, <1>2, <3>1
  <2>2. a + strings[k] \in lo .. hi - 1
    <3>1. \A x \in lo .. hi - 1 : \A size \in Nat : x + size < hi => x + size \in lo .. hi - 1
      OBVIOUS
    <3>2. QED
      BY ONLY <1>1, <1>2, <3>1
  <2>3. QED
    BY <1>1, <2>1, <2>2 DEF IsString, Same
<1>5. a \in lo .. hi2 - 1 /\ a + strings[k] < hi2
  BY <1>1, <1>2
<1>6. QED
  BY <1>3, <1>4, <1>5

(* A Put after the strings so far stores one more. *)
LEMMA PutStores ==
  ASSUME NEW m \in Memory, NEW base \in Nat, NEW lo \in Nat, NEW to \in Nat,
         NEW strings \in Seq(Nat), NEW n \in Nat, n < Len(strings), NEW kind,
         NEW size \in Nat, size = strings[n + 1],
         NEW slot \in Nat, slot = base + WORD * n,
         NEW what \in Tag, what = Byte(kind, n + 1),
         Stored(m, base, strings, n, kind, lo, to),
         slot + WORD <= lo, lo <= to, to + size <= Top
  PROVE  Stored(Put(m, slot, to, size, what), base, strings, n + 1, kind,
                lo, to + size + 1)
<1>1. Top \in Nat /\ n \in 0 .. Len(strings) /\ slot + WORD <= to
      /\ to + size + 1 \in Nat /\ to <= to + size + 1
  BY LayoutAssumption DEF WORD
<1> DEFINE m2 == Put(m, slot, to, size, what)
<1>3. /\ \A a \in 0 .. Top : slot <= a /\ a < slot + WORD => m2[a] = At(to)
      /\ \A a \in 0 .. Top : to <= a /\ a < to + size => m2[a] = what
      /\ m2[to + size] = Zero
      /\ \A a \in 0 .. Top :
           ~(slot <= a /\ a < slot + WORD) /\ ~(to <= a /\ a <= to + size) =>
           m2[a] = m[a]
  <2>1. PutLeaves(m2, m, slot, to, size, what)
    BY <1>1, PutAt
  <2>2. QED
    BY <2>1 DEF PutLeaves
<1> HIDE DEF m2
<1>4. Stored(m2, base, strings, n, kind, lo, to + size + 1)
  <2>1. Same(m, m2, base, slot)
    <3>1. \A a \in base .. slot - 1 : a \in 0 .. Top /\ ~(slot <= a) /\ ~(to <= a)
      BY <1>1 DEF WORD
    <3>2. \A a \in base .. slot - 1 : m2[a] = m[a]
      BY ONLY <1>3, <3>1
    <3>3. QED
      BY <3>2 DEF Same
  <2>2. Same(m, m2, lo, to)
    <3>1. \A a \in lo .. to - 1 : a \in 0 .. Top /\ ~(a < slot + WORD) /\ ~(to <= a)
      BY <1>1 DEF WORD
    <3>2. QED
      BY <1>3, <3>1 DEF Same
  <2>3. QED
    BY <1>1, <2>1, <2>2, StoredKept
<1>5. to \in lo .. to + size + 1 - 1 /\ to + size < to + size + 1
  OBVIOUS
<1>6. Points(m2, base + WORD * (n + 1 - 1), to)
  <2>1. base + WORD * (n + 1 - 1) = slot
    OBVIOUS
  <2>2. \A i \in slot .. slot + WORD - 1 : i \in 0 .. Top /\ slot <= i /\ i < slot + WORD
    BY <1>1 DEF WORD
  <2>3. QED
    BY <1>3, <2>1, <2>2 DEF Points
<1>7. IsString(m2, to, size, what)
  <2>1. \A i \in to .. to + size - 1 : i \in 0 .. Top /\ to <= i /\ i < to + size
    <3>1. to \in Nat /\ size \in Nat /\ Top \in Nat /\ to + size <= Top
      BY <1>1
    <3>2. QED
      BY ONLY <3>1
  <2>2. QED
    BY <1>3, <2>1 DEF IsString
<1>8. ASSUME NEW k \in 1 .. n + 1
      PROVE  \E a \in lo .. to + size + 1 - 1 :
               /\ a + strings[k] < to + size + 1
               /\ Points(m2, base + WORD * (k - 1), a)
               /\ IsString(m2, a, strings[k], Byte(kind, k))
  <2>1. CASE k \in 1 .. n
    BY ONLY <1>4, <2>1 DEF Stored
  <2>2. CASE k = n + 1
    BY <1>5, <1>6, <1>7, <2>2
  <2>3. QED
    BY <2>1, <2>2
<1>9. Stored(m2, base, strings, n + 1, kind, lo, to + size + 1)
  BY ONLY <1>8 DEF Stored
<1>10. QED
  BY <1>9 DEF m2

KeptBelow(m, m2, x) ==
  m2 \in Memory /\ \A a \in 0 .. Top : a < x => m2[a] = m[a]

(* The bytes a Fill or a Put leaves alone, wherever its slot and string are. *)
LEMMA FillAfter ==
  ASSUME NEW m \in Memory, NEW l \in Nat, NEW c \in Nat, NEW w \in Tag,
         NEW x \in Nat, x <= l
  PROVE  KeptBelow(m, Fill(m, l, c, w), x)
<1>1. FillLeaves(Fill(m, l, c, w), m, l, c, w)
  BY FillAt
<1>2. \A a \in 0 .. Top : a < x => ~(l <= a)
  BY LayoutAssumption
<1>3. QED
  BY <1>1, <1>2 DEF FillLeaves, KeptBelow

LEMMA PutAfter ==
  ASSUME NEW m \in Memory, NEW slot \in Nat, NEW to \in Nat, NEW n \in Nat,
         NEW what \in Tag, NEW x \in Nat, x <= slot, x <= to
  PROVE  KeptBelow(m, Put(m, slot, to, n, what), x)
<1>1. At(to) \in Tag /\ Zero \in Tag /\ WORD \in Nat
  BY DEF At, Zero, Byte, Tag, WORD
<1>2. PICK end \in Nat, one \in Nat : end = to + n /\ one = 1
  OBVIOUS
<1>3. x <= end
  BY <1>2
<1> DEFINE m1 == Fill(m, slot, WORD, At(to))
           m2 == Fill(m1, to, n, what)
           m3 == Fill(m2, end, one, Zero)
<1>4. KeptBelow(m, m1, x)
  BY <1>1, FillAfter
<1>5. Put(m, slot, to, n, what) = m3
  BY <1>2 DEF Put
<1> HIDE DEF m1
<1>6. KeptBelow(m1, m2, x)
  BY <1>4, FillAfter DEF KeptBelow
<1> HIDE DEF m2
<1>7. KeptBelow(m2, m3, x)
  <2>1. m2 \in Memory
    BY <1>6 DEF KeptBelow
  <2>2. QED
    BY <1>1, <1>3, <2>1, FillAfter
<1> HIDE DEF m3
<1>8. QED
  BY <1>4, <1>5, <1>6, <1>7 DEF KeptBelow

-----------------------------------------------------------------------------
(* Arrays: the strings and the NULL after their pointers. *)

Array(m, base, strings, kind, lo, hi) ==
  /\ Stored(m, base, strings, Len(strings), kind, lo, hi)
  /\ Null(m, base + WORD * Len(strings))

LEMMA ArrayKept ==
  ASSUME NEW m, NEW m2, NEW base \in Nat, NEW lo \in Nat, NEW hi \in Nat,
         NEW strings \in Seq(Nat), NEW kind, lo <= hi,
         base + WORD * (Len(strings) + 1) <= lo,
         Array(m, base, strings, kind, lo, hi), Same(m, m2, base, hi)
  PROVE  Array(m2, base, strings, kind, lo, hi)
<1>1. PICK n \in Nat : n = Len(strings)
  OBVIOUS
<1>2. PICK end \in Nat : end = base + WORD * n
  BY <1>1 DEF WORD
<1>3. end + WORD <= lo
  BY <1>1, <1>2 DEF WORD
<1>4. Same(m, m2, base, end) /\ Same(m, m2, lo, hi)
  <2>1. /\ \A a \in base .. end - 1 : a \in base .. hi - 1
        /\ \A a \in lo .. hi - 1 : a \in base .. hi - 1
    BY <1>2, <1>3 DEF WORD
  <2>2. QED
    BY <2>1 DEF Same
<1>5. Stored(m2, base, strings, n, kind, lo, hi)
  <2>1. Stored(m, base, strings, n, kind, lo, hi)
    BY <1>1 DEF Array
  <2>2. n \in 0 .. Len(strings) /\ hi <= hi
    BY <1>1
  <2>3. QED
    BY <1>2, <1>4, <2>1, <2>2, StoredKept
<1>6. Null(m2, end)
  <2>1. Null(m, end)
    BY <1>1, <1>2 DEF Array
  <2>2. \A i \in end .. end + WORD - 1 : i \in base .. hi - 1
    BY <1>2, <1>3 DEF WORD
  <2>3. QED
    BY <2>1, <2>2 DEF Null, Same
<1>7. QED
  BY <1>1, <1>2, <1>5, <1>6 DEF Array

(* The NULL after the last pointer, where there is room for it. *)
LEMMA ArrayDone ==
  ASSUME NEW m \in Memory, NEW base \in Nat, NEW lo \in Nat, NEW to \in Nat,
         NEW hi \in Nat, NEW strings \in Seq(Nat), NEW kind,
         NEW slot \in Nat, slot = base + WORD * Len(strings),
         slot + WORD <= lo, lo <= hi, to <= hi, hi <= Top,
         Stored(m, base, strings, Len(strings), kind, lo, to)
  PROVE  Array(Fill(m, slot, WORD, Zero), base, strings, kind, lo, hi)
<1>1. /\ Zero \in Tag /\ WORD \in Nat /\ Top \in Nat /\ Len(strings) \in Nat
      /\ Len(strings) \in 0 .. Len(strings)
  BY LayoutAssumption DEF Zero, Byte, Tag, WORD
<1> DEFINE m2 == Fill(m, slot, WORD, Zero)
<1>2. /\ \A a \in 0 .. Top : slot <= a /\ a < slot + WORD => m2[a] = Zero
      /\ \A a \in 0 .. Top : ~(slot <= a /\ a < slot + WORD) => m2[a] = m[a]
  <2>1. FillLeaves(m2, m, slot, WORD, Zero)
    BY <1>1, FillAt
  <2>2. QED
    BY <2>1 DEF FillLeaves
<1> HIDE DEF m2
<1>3. /\ \A a \in base .. slot - 1 : a \in 0 .. Top /\ ~(slot <= a)
      /\ \A a \in lo .. to - 1 : a \in 0 .. Top /\ ~(a < slot + WORD)
      /\ \A a \in slot .. slot + WORD - 1 : a \in 0 .. Top /\ slot <= a /\ a < slot + WORD
  BY <1>1 DEF WORD
<1>4. Same(m, m2, base, slot) /\ Same(m, m2, lo, to) /\ Null(m2, slot)
  BY <1>2, <1>3 DEF Same, Null
<1>5. Stored(m2, base, strings, Len(strings), kind, lo, hi)
  BY <1>1, <1>4, StoredKept
<1>6. QED
  BY <1>4, <1>5 DEF Array, m2

-----------------------------------------------------------------------------
(* The state's types. *)

LEMMA InitType == Init => TypeOK
<1> SUFFICES ASSUME Init PROVE TypeOK
  OBVIOUS
<1>1. args \in Seq(Nat) /\ env \in Seq(Nat \ {0}) /\ Zero \in Tag
  BY InputAssumption DEF Init, Zero, Byte, Tag
<1>2. mem \in [0 .. Top -> Tag]
  BY <1>1 DEF Init
<1>3. QED
  BY <1>1, <1>2, LayoutAssumption DEF Init, TypeOK

LEMMA Naturals ==
  /\ STRINGS \in Nat /\ PATH \in Nat /\ ENVP \in Nat /\ ENVSTRINGS \in Nat
  /\ HEAP \in Nat /\ Top \in Nat /\ WORD \in Nat /\ WORD = 4
  /\ STRINGS < PATH /\ PATH < ENVP /\ ENVP < ENVSTRINGS
  /\ ENVSTRINGS < HEAP /\ HEAP <= Top
  /\ Zero \in Tag /\ Heap \in Tag /\ Path \in Tag
BY LayoutAssumption DEF WORD, Zero, Heap, Path, Byte, Tag

LEMMA Entries == TypeOK => env \in Seq(Nat)
BY DEF TypeOK

LEMMA TypeInductive == TypeOK /\ [Next]_vars => TypeOK'
<1> SUFFICES ASSUME TypeOK, [Next]_vars PROVE TypeOK'
  OBVIOUS
<1> USE Naturals
<1>m. mem \in Memory
  BY DEF TypeOK, Memory
<1>f. \A m \in Memory : \A l, n \in Nat : \A w \in Tag : Fill(m, l, n, w) \in Memory
  <2>1. SUFFICES ASSUME NEW m \in Memory, NEW l \in Nat, NEW n \in Nat, NEW w \in Tag
                 PROVE  Fill(m, l, n, w) \in Memory
    OBVIOUS
  <2>2. FillLeaves(Fill(m, l, n, w), m, l, n, w)
    BY ONLY <2>1, FillAt
  <2>3. QED
    BY <2>2 DEF FillLeaves
<1>p. \A s, t, n \in Nat : \A w \in Tag : Put(mem, s, t, n, w) \in Memory
  <2>1. \A t \in Nat : At(t) \in Tag
    BY DEF At, Byte, Tag
  <2>2. \A t, n \in Nat : t + n \in Nat /\ 1 \in Nat
    OBVIOUS
  <2>3. QED
    BY <1>f, <1>m, <2>1, <2>2 DEF Put
<1>1. CASE LibcInit
  <2>1. PICK size \in Nat : mem' = Fill(mem, HEAP, size, Heap) /\ brk' = HEAP + size
    BY <1>1, InputAssumption DEF LibcInit, HeapStart
  <2>2. mem' \in Memory
    BY <2>1, <1>f, <1>m
  <2>3. QED
    BY <1>1, <2>1, <2>2 DEF LibcInit, TypeOK, Memory, given, ends
<1>2. CASE StoreArgument
  <2>1. args[ecx + 1] \in Nat /\ ecx + 1 \in 0 .. Len(args) /\ ebx = WORD * ecx /\ ecx \in Nat
    BY <1>2 DEF StoreArgument, TypeOK
  <2>2. mem' \in Memory
    <3>1. Byte("argument", ecx + 1) \in Tag
      BY <2>1 DEF Byte, Tag
    <3>2. QED
      BY <1>2, <1>p, <2>1, <3>1 DEF StoreArgument, TypeOK
  <2>3. QED
    BY <1>2, <2>1, <2>2 DEF StoreArgument, TypeOK, Memory, given, ends, NextSlot
<1>3. CASE ArgumentsDone
  <2>1. mem' \in Memory
    BY <1>3, <1>f, <1>m DEF ArgumentsDone, TypeOK
  <2>2. QED
    BY <1>3, <2>1 DEF ArgumentsDone, TypeOK, Memory, given, EnvStringsStart
<1>4. CASE StoreEntry
  <2>1. env[esi + 1] \in Nat /\ esi + 1 \in 0 .. Len(env) /\ esi \in Nat
    BY <1>4 DEF StoreEntry, TypeOK
  <2>2. mem' \in Memory
    <3>1. Byte("entry", esi + 1) \in Tag
      BY <2>1 DEF Byte, Tag
    <3>2. QED
      BY <1>4, <1>p, <2>1, <3>1 DEF StoreEntry, TypeOK
  <2>3. QED
    BY <1>4, <2>1, <2>2 DEF StoreEntry, TypeOK, Memory, given, ends, NextSlot
<1>5. CASE EnvironmentDone
  <2>1. mem' \in Memory
    BY <1>5, <1>f, <1>m DEF EnvironmentDone, TypeOK
  <2>2. QED
    BY <1>5, <2>1 DEF EnvironmentDone, TypeOK, Memory, given
<1>6. ASSUME NEW length \in Paths, Open(length) PROVE TypeOK'
  <2>1. length \in Nat /\ 2 * (length + 1) \in Nat
    BY InputAssumption
  <2>2. mem' \in Memory
    BY <1>6, <1>f, <1>m, <2>1 DEF Open, WidenAt
  <2>3. QED
    BY <1>6, <2>1, <2>2 DEF Open, TypeOK, Memory, given, WidenAt
<1>7. ASSUME NEW size \in Blocks, Malloc(size) PROVE TypeOK'
  <2>1. size \in Nat
    BY InputAssumption
  <2>2. mem' \in Memory
    BY <1>7, <1>f, <1>m, <2>1 DEF Malloc, TypeOK
  <2>3. QED
    BY <1>7, <2>1, <2>2 DEF Malloc, TypeOK, Memory, given, ends
<1>8. CASE UNCHANGED vars
  BY <1>8 DEF vars, TypeOK, given, ends
<1>9. QED
  BY <1>1, <1>2, <1>3, <1>4, <1>5, <1>6, <1>7, <1>8 DEF Next

-----------------------------------------------------------------------------
(* What a write leaves of the arrays and of the heap's blocks. *)

LEMMA FillElsewhere ==
  ASSUME NEW m \in Memory, NEW lo \in Nat, NEW n \in Nat, NEW what \in Tag
  PROVE  \A a \in 0 .. Top : a < lo \/ lo + n <= a => Fill(m, lo, n, what)[a] = m[a]
<1>1. FillLeaves(Fill(m, lo, n, what), m, lo, n, what)
  BY FillAt
<1>2. \A a \in 0 .. Top : a < lo \/ lo + n <= a => ~(lo <= a /\ a < lo + n)
  BY Naturals
<1>3. QED
  BY <1>1, <1>2 DEF FillLeaves

LEMMA ArgvKept ==
  ASSUME TypeOK, ArgumentsFit, ArgvHolds, NEW m2,
         \A a \in 0 .. Top : a < PATH => m2[a] = mem[a]
  PROVE  Array(m2, 0, args, "argument", STRINGS, PATH)
<1>1. Array(mem, 0, args, "argument", STRINGS, PATH)
  <2>1. 0 + WORD * Len(args) = WORD * Len(args)
    BY Naturals DEF TypeOK
  <2>2. QED
    BY <2>1 DEF ArgvHolds, Array
<1>2. Same(mem, m2, 0, PATH)
  <2>1. \A a \in 0 .. PATH - 1 : a \in 0 .. Top /\ a < PATH
    BY Naturals
  <2>2. QED
    BY <2>1 DEF Same
<1>3. 0 + WORD * (Len(args) + 1) <= STRINGS /\ args \in Seq(Nat) /\ STRINGS <= PATH
  BY Naturals DEF TypeOK, ArgumentsFit
<1>4. QED
  BY <1>1, <1>2, <1>3, Naturals, ArrayKept

LEMMA EnvpKept ==
  ASSUME TypeOK, EnvironmentFits, EnvpHolds, NEW m2,
         \A a \in 0 .. Top : ENVP <= a /\ a < HEAP => m2[a] = mem[a]
  PROVE  Array(m2, ENVP, env, "entry", ENVSTRINGS, HEAP)
<1>1. Array(mem, ENVP, env, "entry", ENVSTRINGS, HEAP)
  BY DEF EnvpHolds, Array
<1>2. Same(mem, m2, ENVP, HEAP)
  <2>1. \A a \in ENVP .. HEAP - 1 : a \in 0 .. Top /\ ENVP <= a /\ a < HEAP
    BY Naturals
  <2>2. QED
    BY <2>1 DEF Same
<1>3. /\ ENVP + WORD * (Len(env) + 1) <= ENVSTRINGS
      /\ env \in Seq(Nat) /\ ENVSTRINGS <= HEAP
  BY Naturals DEF TypeOK, EnvironmentFits
<1>4. QED
  BY <1>1, <1>2, <1>3, Naturals, ArrayKept

-----------------------------------------------------------------------------
(* The invariant. *)

LEMMA InitInductive == Init => IInv
<1> SUFFICES ASSUME Init PROVE IInv
  OBVIOUS
<1>1. pc = "init" /\ brk = HEAP
  BY DEF Init
<1>2. QED
  BY <1>1, InitType DEF IInv, ArgumentsSoFar, ArgumentsSet, EntriesSoFar,
       EnvironmentIntact

LEMMA LibcInitKeeps == IInv /\ LibcInit => IInv'
<1> SUFFICES ASSUME IInv, LibcInit PROVE IInv'
  OBVIOUS
<1>1. TypeOK /\ TypeOK'
  BY TypeInductive DEF IInv, Next
<1>2. pc' = "args" /\ edi' = STRINGS /\ ecx' = 0 /\ args' = args
  BY DEF LibcInit, given
<1>3. Stored(mem', 0, args, 0, "argument", STRINGS, STRINGS)
  BY DEF Stored
<1>4. HeapHolds'
  <2>1. PICK size \in Nat : mem' = Fill(mem, HEAP, size, Heap) /\ brk' = HEAP + size
    BY InputAssumption DEF LibcInit, HeapStart
  <2>2. FillLeaves(mem', mem, HEAP, size, Heap)
    <3>1. mem \in Memory
      BY <1>1 DEF TypeOK, Memory
    <3>2. QED
      BY <2>1, <3>1, FillAt, Naturals
  <2>3. \A a \in HEAP .. brk' - 1 : a <= Top => a \in 0 .. Top /\ HEAP <= a /\ a < HEAP + size
    BY <2>1, Naturals
  <2>4. QED
    BY <2>2, <2>3 DEF HeapHolds, FillLeaves
<1>5. ArgumentsSoFar'
  BY <1>2, <1>3, <1>4, Naturals DEF ArgumentsSoFar
<1>6. QED
  BY <1>1, <1>2, <1>5 DEF IInv, ArgumentsSet, EntriesSoFar, EnvironmentIntact

LEMMA StoreArgumentKeeps == IInv /\ StoreArgument => IInv'
<1> SUFFICES ASSUME IInv, StoreArgument PROVE IInv'
  OBVIOUS
<1>1. TypeOK /\ TypeOK'
  BY TypeInductive DEF IInv, Next
<1> DEFINE size == args[ecx + 1]
           what == Byte("argument", ecx + 1)
<1>2. /\ pc = "args" /\ pc' = "args" /\ args' = args /\ ecx' = ecx + 1
      /\ ecx < Len(args) /\ edi' = edi + size + 1 /\ brk' = brk
      /\ mem' = Put(mem, ebx, edi, size, what)
  BY DEF StoreArgument, given
<1>3. /\ ecx \in Nat /\ edi \in Nat /\ size \in Nat /\ what \in Tag /\ mem \in Memory
      /\ ebx \in Nat /\ ebx = WORD * ecx /\ args \in Seq(Nat) /\ brk \in Nat
  <2>1. ecx \in Nat /\ edi \in Nat /\ mem \in Memory /\ args \in Seq(Nat) /\ brk \in Nat
    BY <1>1 DEF TypeOK, Memory
  <2>2. ebx \in Nat /\ ebx = WORD * ecx
    BY <1>1, <1>2 DEF TypeOK
  <2>3. size \in Nat
    BY <1>2, <2>1
  <2>4. what \in Tag
    <3>1. ecx + 1 \in Nat
      BY <2>1
    <3>2. QED
      BY <3>1 DEF Byte, Tag
  <2>5. QED
    BY <2>1, <2>2, <2>3, <2>4
<1>4. edi >= STRINGS
  BY <1>2 DEF IInv, ArgumentsSoFar
<1>a. size = args[ecx + 1] /\ what = Byte("argument", ecx + 1)
  OBVIOUS
<1> HIDE DEF size, what
<1>5. ASSUME WORD * ecx' <= STRINGS, edi' <= PATH
      PROVE  Stored(mem', 0, args, ecx', "argument", STRINGS, edi') /\ HeapHolds'
  <2>1. WORD * ecx <= STRINGS /\ edi <= PATH /\ ebx + WORD <= STRINGS /\ edi + size <= Top
    BY <1>2, <1>3, <1>5, Naturals
  <2>2. Stored(mem, 0, args, ecx, "argument", STRINGS, edi) /\ HeapHolds
    BY <1>2, <2>1 DEF IInv, ArgumentsSoFar
  <2>3. Stored(Put(mem, ebx, edi, size, what), 0, args, ecx + 1, "argument",
               STRINGS, edi + size + 1)
    <3>1. ebx = 0 + WORD * ecx /\ STRINGS <= edi /\ 0 \in Nat
      BY <1>3, <1>4, Naturals
    <3>2. QED
      BY <1>2, <1>3, <1>a, <2>1, <2>2, <3>1, Naturals, PutStores
  <2>4. HeapHolds'
    <3>1. PutLeaves(mem', mem, ebx, edi, size, what)
      <4>1. ebx + WORD <= edi
        BY <1>3, <1>4, <2>1, Naturals
      <4>2. QED
        BY <1>2, <1>3, <4>1, PutAt
    <3>2. \A a \in HEAP .. brk - 1 : a <= Top =>
            a \in 0 .. Top /\ ~(a < ebx + WORD) /\ ~(a <= edi + size)
      BY <1>2, <1>3, <1>5, <2>1, Naturals
    <3>3. QED
      BY <1>2, <2>2, <3>1, <3>2 DEF HeapHolds, PutLeaves
  <2>5. QED
    BY <1>2, <2>3, <2>4
<1>6. edi' >= STRINGS
  BY <1>2, <1>3, <1>4, Naturals
<1>7. ArgumentsSoFar'
  BY <1>2, <1>5, <1>6 DEF ArgumentsSoFar
<1>8. QED
  BY <1>1, <1>2, <1>7 DEF IInv, ArgumentsSet, EntriesSoFar, EnvironmentIntact

LEMMA ArgumentsDoneKeeps == IInv /\ ArgumentsDone => IInv'
<1> SUFFICES ASSUME IInv, ArgumentsDone PROVE IInv'
  OBVIOUS
<1>1. TypeOK /\ TypeOK'
  BY TypeInductive DEF IInv, Next
<1>2. /\ pc = "args" /\ pc' = "env" /\ args' = args /\ ecx' = ecx /\ ecx = Len(args)
      /\ argsEnd' = edi /\ edi' = ENVSTRINGS /\ brk' = brk /\ env' = env
      /\ esi' = esi /\ mem' = Fill(mem, ebx, WORD, Zero)
  BY DEF ArgumentsDone, given, EnvStringsStart
<1>3. /\ edi \in Nat /\ mem \in Memory /\ ebx \in Nat /\ ebx = WORD * Len(args)
      /\ args \in Seq(Nat) /\ brk \in Nat /\ Len(args) \in Nat /\ esi = 0
  BY <1>1, <1>2 DEF TypeOK, Memory
<1>4. ASSUME ArgumentsFit'
      PROVE  ArgvHolds' /\ HeapHolds'
  <2>1. ebx + WORD <= STRINGS /\ edi <= PATH /\ WORD * ecx <= STRINGS
    BY <1>2, <1>3, <1>4, Naturals DEF ArgumentsFit
  <2>2. Stored(mem, 0, args, Len(args), "argument", STRINGS, edi) /\ HeapHolds
    BY <1>2, <2>1 DEF IInv, ArgumentsSoFar
  <2>3. Array(mem', 0, args, "argument", STRINGS, PATH)
    <3>1. ebx = 0 + WORD * Len(args) /\ STRINGS <= PATH /\ PATH <= Top /\ 0 \in Nat
      BY <1>3, Naturals
    <3>2. QED
      BY <1>2, <1>3, <2>1, <2>2, <3>1, Naturals, ArrayDone
  <2>4. ArgvHolds'
    <3>1. 0 + WORD * Len(args) = WORD * Len(args)
      BY <1>3, Naturals
    <3>2. QED
      BY <1>2, <2>3, <3>1 DEF ArgvHolds, Array
  <2>5. HeapHolds'
    <3>1. \A a \in HEAP .. brk - 1 : a <= Top => a \in 0 .. Top /\ ebx + WORD <= a
      BY <1>3, <2>1, Naturals
    <3>2. \A a \in 0 .. Top : a < ebx \/ ebx + WORD <= a => mem'[a] = mem[a]
      BY <1>2, <1>3, Naturals, FillElsewhere
    <3>3. QED
      BY <1>2, <2>2, <3>1, <3>2 DEF HeapHolds
  <2>6. QED
    BY <2>4, <2>5
<1>5. Stored(mem', ENVP, env, 0, "entry", ENVSTRINGS, ENVSTRINGS)
  BY DEF Stored
<1>6. ArgumentsSet'
  BY <1>4 DEF ArgumentsSet
<1>7. EntriesSoFar'
  BY <1>2, <1>3, <1>4, <1>5, Naturals DEF EntriesSoFar
<1>8. QED
  BY <1>1, <1>2, <1>6, <1>7 DEF IInv, ArgumentsSoFar, EnvironmentIntact

LEMMA StoreEntryKeeps == IInv /\ StoreEntry => IInv'
<1> SUFFICES ASSUME IInv, StoreEntry PROVE IInv'
  OBVIOUS
<1>1. TypeOK /\ TypeOK'
  BY TypeInductive DEF IInv, Next
<1> DEFINE size == env[esi + 1]
           what == Byte("entry", esi + 1)
<1>2. /\ pc = "env" /\ pc' = "env" /\ env' = env /\ esi' = esi + 1
      /\ args' = args /\ ecx' = ecx /\ argsEnd' = argsEnd
      /\ esi < Len(env) /\ edi' = edi + size + 1 /\ brk' = brk
      /\ mem' = Put(mem, ebx, edi, size, what)
  BY DEF StoreEntry, given, ends
<1>3. /\ esi \in Nat /\ edi \in Nat /\ size \in Nat /\ what \in Tag /\ mem \in Memory
      /\ ebx \in Nat /\ ebx = ENVP + WORD * esi /\ env \in Seq(Nat) /\ brk \in Nat
  <2>1. esi \in Nat /\ edi \in Nat /\ mem \in Memory /\ env \in Seq(Nat) /\ brk \in Nat
    <3>1. esi \in Nat /\ edi \in Nat /\ brk \in Nat /\ mem \in Memory
      BY <1>1 DEF TypeOK, Memory
    <3>2. env \in Seq(Nat)
      BY <1>1, Entries
    <3>3. QED
      BY <3>1, <3>2
  <2>2. ebx \in Nat /\ ebx = ENVP + WORD * esi
    BY <1>1, <1>2 DEF TypeOK
  <2>3. size \in Nat
    BY <1>2, <2>1
  <2>4. what \in Tag
    <3>1. esi + 1 \in Nat
      BY <2>1
    <3>2. QED
      BY <3>1 DEF Byte, Tag
  <2>5. QED
    BY <2>1, <2>2, <2>3, <2>4
<1>4. edi >= ENVSTRINGS
  BY <1>2 DEF IInv, EntriesSoFar
<1>a. size = env[esi + 1] /\ what = Byte("entry", esi + 1)
  OBVIOUS
<1> HIDE DEF size, what
<1>5. ArgumentsSet'
  <2>1. SUFFICES ASSUME ArgumentsFit PROVE ArgvHolds'
    BY <1>2 DEF ArgumentsSet, ArgumentsFit
  <2>2. ArgvHolds
    BY <1>2, <2>1 DEF IInv, ArgumentsSet
  <2>3. \A a \in 0 .. Top : a < PATH => mem'[a] = mem[a]
    <3>1. PATH <= ebx /\ PATH <= edi /\ PATH \in Nat
      BY <1>3, <1>4, Naturals
    <3>2. KeptBelow(mem, Put(mem, ebx, edi, size, what), PATH)
      BY <1>3, <3>1, PutAfter
    <3>3. QED
      BY <1>2, <3>2 DEF KeptBelow
  <2>4. Array(mem', 0, args, "argument", STRINGS, PATH)
    BY <1>1, <2>1, <2>2, <2>3, ArgvKept
  <2>5. 0 + WORD * Len(args) = WORD * Len(args)
    BY <1>1, Naturals DEF TypeOK
  <2>6. QED
    BY <1>2, <2>2, <2>4, <2>5 DEF ArgvHolds, Array
<1>6. ASSUME WORD * esi' <= ENVSTRINGS - ENVP, edi' <= HEAP
      PROVE  /\ Stored(mem', ENVP, env, esi', "entry", ENVSTRINGS, edi')
             /\ ArgumentsFit' => HeapHolds'
  <2>1. /\ WORD * esi <= ENVSTRINGS - ENVP /\ edi <= HEAP
        /\ ebx + WORD <= ENVSTRINGS /\ edi + size <= Top
    BY <1>2, <1>3, <1>6, Naturals
  <2>2. /\ Stored(mem, ENVP, env, esi, "entry", ENVSTRINGS, edi)
        /\ ArgumentsFit => HeapHolds
    BY <1>2, <2>1 DEF IInv, EntriesSoFar
  <2>3. Stored(Put(mem, ebx, edi, size, what), ENVP, env, esi + 1, "entry",
               ENVSTRINGS, edi + size + 1)
    BY <1>2, <1>3, <1>4, <1>a, <2>1, <2>2, Naturals, PutStores
  <2>4. ASSUME ArgumentsFit' PROVE HeapHolds'
    <3>1. PutLeaves(mem', mem, ebx, edi, size, what)
      <4>1. ebx + WORD <= edi
        BY <1>3, <1>4, <2>1, Naturals
      <4>2. QED
        BY <1>2, <1>3, <4>1, PutAt
    <3>2. \A a \in HEAP .. brk - 1 : a <= Top =>
            a \in 0 .. Top /\ ~(a < ebx + WORD) /\ ~(a <= edi + size)
      BY <1>2, <1>3, <1>6, <2>1, Naturals
    <3>3. HeapHolds
      BY <1>2, <2>2, <2>4 DEF ArgumentsFit
    <3>4. QED
      BY <1>2, <3>1, <3>2, <3>3 DEF HeapHolds, PutLeaves
  <2>5. QED
    BY <1>2, <2>3, <2>4
<1>7. edi' >= ENVSTRINGS
  BY <1>2, <1>3, <1>4, Naturals
<1>8. EntriesSoFar'
  BY <1>2, <1>6, <1>7 DEF EntriesSoFar
<1>9. ecx' = Len(args')
  BY <1>2 DEF IInv
<1>10. QED
  BY <1>1, <1>2, <1>5, <1>8, <1>9 DEF IInv, ArgumentsSoFar, EnvironmentIntact

LEMMA EnvironmentDoneKeeps == IInv /\ EnvironmentDone => IInv'
<1> SUFFICES ASSUME IInv, EnvironmentDone PROVE IInv'
  OBVIOUS
<1>1. TypeOK /\ TypeOK'
  BY TypeInductive DEF IInv, Next
<1>2. /\ pc = "env" /\ pc' = "main" /\ args' = args /\ ecx' = ecx /\ esi = Len(env)
      /\ argsEnd' = argsEnd /\ envEnd' = edi /\ brk' = brk /\ env' = env
      /\ mem' = Fill(mem, ebx, WORD, Zero)
  BY DEF EnvironmentDone, given
<1>3. /\ edi \in Nat /\ mem \in Memory /\ ebx \in Nat /\ ebx = ENVP + WORD * Len(env)
      /\ env \in Seq(Nat) /\ brk \in Nat /\ Len(env) \in Nat
  BY <1>1, <1>2 DEF TypeOK, Memory
<1>4. \A a \in 0 .. Top : a < ebx \/ ebx + WORD <= a => mem'[a] = mem[a]
  <2>1. FillLeaves(mem', mem, ebx, WORD, Zero)
    BY <1>2, <1>3, Naturals, FillAt
  <2>2. \A a \in 0 .. Top : a < ebx \/ ebx + WORD <= a => ~(ebx <= a /\ a < ebx + WORD)
    BY <1>3, Naturals
  <2>3. QED
    BY <2>1, <2>2 DEF FillLeaves
<1>5. ArgumentsSet'
  <2>1. SUFFICES ASSUME ArgumentsFit PROVE ArgvHolds'
    BY <1>2 DEF ArgumentsSet, ArgumentsFit
  <2>2. ArgvHolds
    BY <1>2, <2>1 DEF IInv, ArgumentsSet
  <2>3. \A a \in 0 .. Top : a < PATH => mem'[a] = mem[a]
    <3>1. \A a \in 0 .. Top : a < PATH => a < ebx
      BY <1>3, Naturals
    <3>2. QED
      BY <1>4, <3>1
  <2>4. Array(mem', 0, args, "argument", STRINGS, PATH)
    BY <1>1, <2>1, <2>2, <2>3, ArgvKept
  <2>5. 0 + WORD * Len(args) = WORD * Len(args)
    BY <1>1, Naturals DEF TypeOK
  <2>6. QED
    BY <1>2, <2>2, <2>4, <2>5 DEF ArgvHolds, Array
<1>6. ASSUME EnvironmentFits'
      PROVE  EnvpHolds' /\ (ArgumentsFit' => HeapHolds')
  <2>1. /\ ebx + WORD <= ENVSTRINGS /\ edi <= HEAP
        /\ WORD * esi <= ENVSTRINGS - ENVP
    BY <1>2, <1>3, <1>6, Naturals DEF EnvironmentFits
  <2>2. /\ Stored(mem, ENVP, env, Len(env), "entry", ENVSTRINGS, edi)
        /\ ArgumentsFit => HeapHolds
    BY <1>2, <2>1 DEF IInv, EntriesSoFar
  <2>3. Array(mem', ENVP, env, "entry", ENVSTRINGS, HEAP)
    <3>1. ENVSTRINGS <= HEAP /\ HEAP <= Top
      BY Naturals
    <3>2. QED
      BY <1>2, <1>3, <2>1, <2>2, <3>1, Naturals, ArrayDone
  <2>4. EnvpHolds'
    BY <1>2, <2>3 DEF EnvpHolds, Array
  <2>5. ASSUME ArgumentsFit' PROVE HeapHolds'
    <3>1. \A a \in HEAP .. brk - 1 : a <= Top => a \in 0 .. Top /\ ebx + WORD <= a
      BY <1>3, <2>1, Naturals
    <3>2. HeapHolds
      BY <1>2, <2>2, <2>5 DEF ArgumentsFit
    <3>3. QED
      BY <1>2, <1>4, <3>1, <3>2 DEF HeapHolds
  <2>6. QED
    BY <2>4, <2>5
<1>7. EnvironmentIntact'
  BY <1>6 DEF EnvironmentIntact
<1>8. ecx' = Len(args')
  BY <1>2 DEF IInv
<1>9. QED
  BY <1>1, <1>2, <1>5, <1>6, <1>7, <1>8 DEF IInv, ArgumentsSoFar, EntriesSoFar

LEMMA OpenKeeps == ASSUME IInv, NEW length \in Paths, Open(length) PROVE IInv'
<1>1. TypeOK /\ TypeOK'
  BY TypeInductive DEF IInv, Next
<1> DEFINE n == 2 * (length + 1)
<1>2. /\ pc = "main" /\ pc' = "main" /\ args' = args /\ ecx' = ecx /\ env' = env
      /\ argsEnd' = argsEnd /\ envEnd' = envEnd /\ brk' = brk
      /\ mem' = Fill(mem, PATH, n, Path)
      /\ pathEnd' = IF PATH + n > pathEnd THEN PATH + n ELSE pathEnd
  BY DEF Open, given, WidenAt
<1>3. n \in Nat /\ mem \in Memory /\ brk \in Nat /\ pathEnd \in Nat
  <2>1. length \in Nat
    BY InputAssumption
  <2>2. n \in Nat
    BY <2>1
  <2>3. mem \in Memory /\ brk \in Nat /\ pathEnd \in Nat
    BY <1>1 DEF TypeOK, Memory
  <2>4. QED
    BY <2>2, <2>3
<1> HIDE DEF n
<1>4. \A a \in 0 .. Top : a < PATH \/ PATH + n <= a => mem'[a] = mem[a]
  BY <1>2, <1>3, Naturals, FillElsewhere
<1>5. ArgumentsSet'
  <2>1. SUFFICES ASSUME ArgumentsFit PROVE ArgvHolds'
    BY <1>2 DEF ArgumentsSet, ArgumentsFit
  <2>2. ArgvHolds
    BY <1>2, <2>1 DEF IInv, ArgumentsSet
  <2>3. Array(mem', 0, args, "argument", STRINGS, PATH)
    BY <1>1, <1>4, <2>1, <2>2, ArgvKept
  <2>4. 0 + WORD * Len(args) = WORD * Len(args)
    BY <1>1, Naturals DEF TypeOK
  <2>5. QED
    BY <1>2, <2>2, <2>3, <2>4 DEF ArgvHolds, Array
<1>6. ASSUME PathsFit'
      PROVE  PathsFit /\ \A a \in 0 .. Top : ENVP <= a => mem'[a] = mem[a]
  <2>1. pathEnd <= ENVP /\ PATH + n <= ENVP
    BY <1>2, <1>3, <1>6, Naturals DEF PathsFit
  <2>2. \A a \in 0 .. Top : ENVP <= a => PATH + n <= a
    BY <1>3, <2>1, Naturals
  <2>3. QED
    BY <1>4, <2>1, <2>2 DEF PathsFit
<1>7. EnvironmentIntact'
  <2>1. SUFFICES ASSUME EnvironmentFits, PathsFit' PROVE EnvpHolds'
    BY <1>2 DEF EnvironmentIntact, EnvironmentFits
  <2>2. EnvpHolds
    BY <1>2, <1>6, <2>1 DEF IInv, EnvironmentIntact
  <2>3. Array(mem', ENVP, env, "entry", ENVSTRINGS, HEAP)
    BY <1>1, <1>6, <2>1, <2>2, EnvpKept
  <2>4. QED
    BY <1>2, <2>3 DEF EnvpHolds, Array
<1>8. ASSUME ArgumentsFit', EnvironmentFits', PathsFit' PROVE HeapHolds'
  <2>1. HeapHolds
    BY <1>2, <1>6, <1>8 DEF IInv, ArgumentsFit, EnvironmentFits
  <2>2. \A a \in HEAP .. brk - 1 : a <= Top => a \in 0 .. Top /\ ENVP <= a
    BY <1>3, Naturals
  <2>3. QED
    BY <1>2, <1>6, <1>8, <2>1, <2>2 DEF HeapHolds
<1>9. ecx' = Len(args')
  BY <1>2 DEF IInv
<1>10. QED
  BY <1>1, <1>2, <1>5, <1>7, <1>8, <1>9 DEF IInv, ArgumentsSoFar, EntriesSoFar

LEMMA MallocKeeps == ASSUME IInv, NEW size \in Blocks, Malloc(size) PROVE IInv'
<1>1. TypeOK /\ TypeOK'
  BY TypeInductive DEF IInv, Next
<1>2. /\ pc = "main" /\ pc' = "main" /\ args' = args /\ ecx' = ecx /\ env' = env
      /\ argsEnd' = argsEnd /\ envEnd' = envEnd /\ pathEnd' = pathEnd
      /\ brk' = brk + size /\ mem' = Fill(mem, brk, size, Heap)
  BY DEF Malloc, given, ends
<1>3. size \in Nat /\ mem \in Memory /\ brk \in Nat /\ HEAP <= brk
  BY <1>1, InputAssumption DEF TypeOK, Memory
<1>4. FillLeaves(mem', mem, brk, size, Heap)
  BY <1>2, <1>3, Naturals, FillAt
<1>5. \A a \in 0 .. Top : a < HEAP => mem'[a] = mem[a]
  <2>1. \A a \in 0 .. Top : a < HEAP => ~(brk <= a)
    BY <1>3, Naturals
  <2>2. QED
    BY <1>4, <2>1 DEF FillLeaves
<1>6. ArgumentsSet'
  <2>1. SUFFICES ASSUME ArgumentsFit PROVE ArgvHolds'
    BY <1>2 DEF ArgumentsSet, ArgumentsFit
  <2>2. ArgvHolds
    BY <1>2, <2>1 DEF IInv, ArgumentsSet
  <2>3. \A a \in 0 .. Top : a < PATH => mem'[a] = mem[a]
    <3>1. \A a \in 0 .. Top : a < PATH => a < HEAP
      BY Naturals
    <3>2. QED
      BY <1>5, <3>1
  <2>4. Array(mem', 0, args, "argument", STRINGS, PATH)
    BY <1>1, <2>1, <2>2, <2>3, ArgvKept
  <2>5. 0 + WORD * Len(args) = WORD * Len(args)
    BY <1>1, Naturals DEF TypeOK
  <2>6. QED
    BY <1>2, <2>2, <2>4, <2>5 DEF ArgvHolds, Array
<1>7. EnvironmentIntact'
  <2>1. SUFFICES ASSUME EnvironmentFits, PathsFit PROVE EnvpHolds'
    BY <1>2 DEF EnvironmentIntact, EnvironmentFits, PathsFit
  <2>2. EnvpHolds
    BY <1>2, <2>1 DEF IInv, EnvironmentIntact
  <2>3. Array(mem', ENVP, env, "entry", ENVSTRINGS, HEAP)
    BY <1>1, <1>5, <2>1, <2>2, EnvpKept
  <2>4. QED
    BY <1>2, <2>3 DEF EnvpHolds, Array
<1>8. ASSUME ArgumentsFit', EnvironmentFits', PathsFit' PROVE HeapHolds'
  <2>1. HeapHolds
    BY <1>2, <1>8 DEF IInv, ArgumentsFit, EnvironmentFits, PathsFit
  <2>2. SUFFICES ASSUME NEW a \in HEAP .. brk' - 1, a <= Top PROVE mem'[a] = Heap
    BY DEF HeapHolds
  <2>3. a \in 0 .. Top /\ a \in HEAP .. brk + size - 1
    BY <1>2, <1>3, <2>2, Naturals
  <2>4. CASE a < brk
    <3>1. a \in HEAP .. brk - 1 /\ ~(brk <= a)
      BY <1>3, <2>3, <2>4, Naturals
    <3>2. QED
      BY <1>4, <2>1, <2>2, <2>3, <3>1 DEF HeapHolds, FillLeaves
  <2>5. CASE brk <= a
    <3>1. a < brk + size
      BY <1>3, <2>3, Naturals
    <3>2. QED
      BY <1>4, <2>3, <2>5, <3>1 DEF FillLeaves
  <2>6. QED
    BY <1>3, <2>3, <2>4, <2>5, Naturals
<1>9. ecx' = Len(args')
  BY <1>2 DEF IInv
<1>10. QED
  BY <1>1, <1>2, <1>6, <1>7, <1>8, <1>9 DEF IInv, ArgumentsSoFar, EntriesSoFar

LEMMA StutterKeeps == IInv /\ UNCHANGED vars => IInv'
BY DEF IInv, vars, given, ends, TypeOK, ArgumentsSoFar, ArgumentsSet, EntriesSoFar,
       EnvironmentIntact, HeapHolds, ArgumentsFit, EnvironmentFits, PathsFit,
       ArgvHolds, EnvpHolds

THEOREM Inductive == Spec => []IInv
<1>1. Init => IInv
  BY InitInductive
<1>2. IInv /\ [Next]_vars => IInv'
  BY LibcInitKeeps, StoreArgumentKeeps, ArgumentsDoneKeeps, StoreEntryKeeps,
     EnvironmentDoneKeeps, OpenKeeps, MallocKeeps, StutterKeeps DEF Next
<1>3. QED
  BY <1>1, <1>2, PTL DEF Spec

-----------------------------------------------------------------------------
(* What follows. *)

(* The cursors are where the entries read so far put them. *)
THEOREM TypeCorrect == Spec => []TypeOK
<1>1. IInv => TypeOK
  BY DEF IInv
<1>2. QED
  BY <1>1, Inductive, PTL

(* A command line inside its areas reaches main and stays. *)
THEOREM ArgumentsStay == Spec => []ArgumentsIntact
<1>1. IInv => ArgumentsIntact
  BY DEF IInv, ArgumentsSet, ArgumentsIntact
<1>2. QED
  BY <1>1, Inductive, PTL

(* So does an environment, while the paths opened fit their buffer. *)
THEOREM EnvironmentStays == Spec => []EnvironmentIntact
<1>1. IInv => EnvironmentIntact
  BY DEF IInv
<1>2. QED
  BY <1>1, Inductive, PTL

(* And the heap's blocks, where nothing below the heap overflows. *)
THEOREM HeapStays == Spec => []HeapIntact
<1>1. IInv => HeapIntact
  BY DEF IInv, HeapHolds, HeapIntact, HeapStart
<1>2. QED
  BY <1>1, Inductive, PTL
==============================================================================
