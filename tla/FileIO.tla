------------------------------- MODULE FileIO -------------------------------
(***************************************************************************)
(* libc's calls on files (x86/libc-core.M1: __stdhandle, __read_byte,      *)
(* __write_byte, __read_block, __write_block, __lseek, __close, __stdslot) *)
(* over ntdll's, by processes that have their files in common, as fork and *)
(* spawn leave them.                                                       *)
(*                                                                         *)
(* The position of a file is the I/O manager's.  A seek asks for it in one *)
(* call and sets it in another, passes everything through words of the     *)
(* program's image, and looks at neither status.                           *)
(***************************************************************************)
EXTENDS Integers, Sequences

CONSTANTS
  Proc,
  File,      (* files, named by their handles                               *)
  Failing,   (* files on which calls may fail                               *)
  Contents,  (* what they may hold at first                                 *)
  Slots,     (* and which of them a process may be started with as 0, 1, 2  *)
  Used, Count, Data, Offset,  (* what calls are made with                   *)
  Word,      (* what a word wraps at: 2^32                                  *)
  MaxCalls   (* bound: calls made                                           *)

ASSUME FileAssumption ==
  /\ File \subseteq Nat \ (0 .. 2) /\ Failing \subseteq File
  /\ Contents \subseteq Seq(Nat) /\ Slots \subseteq [0 .. 2 -> File]
ASSUME CallAssumption ==
  /\ Used \subseteq 0 .. 2 \cup File
  /\ Count \subseteq Nat /\ 1 \in Count
  /\ Data \subseteq Seq(Nat) /\ Offset \subseteq Int
ASSUME WordAssumption == Word \in Nat \ {0} /\ MaxCalls \in Nat

VARIABLES
  contents, position,  (* what a file holds, and where it stands            *)
  open,      (* the files a process has not closed                          *)
  slots,     (* its three standard handles, in the process parameters       *)
  words,     (* the words its image has for these calls                     *)
  at,        (* "out" of the calls, or at "set", the second one of a seek   *)
  answer,    (* what its last call came back with                           *)
  calls      (* the calls made                                              *)

files == <<contents, position, open>>
vars  == <<files, slots, words, at, answer, calls>>

Standard == 0 .. 2

(* A buffer's address; a byte's own word is left out. *)
Address == 0

StdHandle(p, d) == IF d \in Standard THEN slots[p][d] ELSE d

-----------------------------------------------------------------------------
(* ntdll's files (external). *)

MayFail(p, h) == h \in Failing \/ h \notin open[p]
AtEnd(h)      == position[h] >= Len(contents[h])

Got(h, n) ==
  SubSeq(contents[h], position[h] + 1,
         IF position[h] + n < Len(contents[h]) THEN position[h] + n ELSE Len(contents[h]))

NtRead(p, h, n) ==
  /\ h \in open[p] /\ ~AtEnd(h)
  /\ position' = [position EXCEPT ![h] = @ + Len(Got(h, n))]

NtReadFails(p, h) ==
  /\ MayFail(p, h) \/ AtEnd(h)
  /\ UNCHANGED position

Zeros(n) == [k \in 1 .. n |-> 0]

NtWrite(p, h, bytes) ==
  LET old == contents[h] \o Zeros(position[h] - Len(contents[h]))
  IN  /\ h \in open[p]
      /\ contents' = [contents EXCEPT ![h] =
           SubSeq(old, 1, position[h]) \o bytes
             \o SubSeq(old, position[h] + Len(bytes) + 1, Len(old))]
      /\ position' = [position EXCEPT ![h] = @ + Len(bytes)]

NtWriteFails(p, h) == MayFail(p, h) /\ UNCHANGED <<contents, position>>

-----------------------------------------------------------------------------
(* One call of the program. *)

Call(p) ==
  /\ at[p] = "out" /\ calls < MaxCalls
  /\ calls' = calls + 1

Answers(p, call, value, bytes) ==
  answer' = [answer EXCEPT ![p] = [call |-> call, value |-> value, bytes |-> bytes]]

ReadByte(p, d) ==
  LET h == StdHandle(p, d) IN
  /\ Call(p)
  /\ words' = [words EXCEPT ![p].handle = h]
  /\ \/ NtRead(p, h, 1) /\ Answers(p, "read_byte", Got(h, 1)[1], Got(h, 1))
     \/ NtReadFails(p, h) /\ Answers(p, "read_byte", -1, << >>)
  /\ UNCHANGED <<contents, open, slots, at>>

ReadBlock(p, d, n) ==
  LET h == StdHandle(p, d) IN
  /\ Call(p)
  /\ words' = [words EXCEPT ![p].handle = h, ![p].bufptr = Address, ![p].buflen = n]
  /\ \/ NtRead(p, h, n) /\ Answers(p, "read_block", Len(Got(h, n)), Got(h, n))
     \/ NtReadFails(p, h) /\ Answers(p, "read_block", 0, << >>)
  /\ UNCHANGED <<contents, open, slots, at>>

(* What comes back is the status. *)
WriteByte(p, d, byte) ==
  LET h == StdHandle(p, d) IN
  /\ Call(p)
  /\ words' = [words EXCEPT ![p].handle = h]
  /\ \/ NtWrite(p, h, <<byte>>) /\ Answers(p, "write_byte", 0, << >>)
     \/ NtWriteFails(p, h) /\ Answers(p, "write_byte", -1, << >>)
  /\ UNCHANGED <<open, slots, at>>

WriteBlock(p, d, bytes) ==
  LET h == StdHandle(p, d) IN
  /\ Call(p)
  /\ words' = [words EXCEPT ![p].handle = h, ![p].bufptr = Address,
                            ![p].buflen = Len(bytes)]
  /\ \/ NtWrite(p, h, bytes) /\ Answers(p, "write_block", Len(bytes), << >>)
     \/ NtWriteFails(p, h) /\ Answers(p, "write_block", -1, << >>)
  /\ UNCHANGED <<open, slots, at>>

(* __lseek up to the call that sets the position: base is what it has      *)
(* measured from, eof what is in the word for the size by then.            *)
Lseek(p, d, offset, whence, base, eof) ==
  /\ Call(p)
  /\ words' = [words EXCEPT ![p] =
       [handle |-> StdHandle(p, d), bufptr |-> offset, buflen |-> whence,
        filepos |-> (base + offset) % Word, stdinfo_eof |-> eof]]
  /\ at' = [at EXCEPT ![p] = "set"]
  /\ UNCHANGED <<files, slots, answer>>

SeekSet(p, d, offset) == Lseek(p, d, offset, 0, 0, words[p].stdinfo_eof)

(* What a word may hold once it was asked for: a query that fails leaves  *)
(* there what an earlier one, or an earlier seek, has put.                 *)
BothHalves(p, h, now, before) ==                                   \* mutant
  (IF h \in open[p] THEN {now} ELSE {}) \cup (IF MayFail(p, h) THEN {before} ELSE {})
Queried(p, h, now, before) ==
  (IF h \in open[p] THEN {now % Word} ELSE {}) \cup (IF MayFail(p, h) THEN {before} ELSE {})

SeekCur(p, d, offset) ==
  LET h == StdHandle(p, d) IN
  \E base \in Queried(p, h, position[h], words[p].filepos) :
    Lseek(p, d, offset, 1, base, words[p].stdinfo_eof)

EndFromLast(p, d, offset) ==                                       \* mutant
  LET h == StdHandle(p, d) IN
  \E eof \in Queried(p, h, Len(contents[h]), words[p].stdinfo_eof) :
    Lseek(p, d, offset, 2, words[p].filepos, eof)
SeekEnd(p, d, offset) ==
  LET h == StdHandle(p, d) IN
  \E eof \in Queried(p, h, Len(contents[h]), words[p].stdinfo_eof) :
    Lseek(p, d, offset, 2, eof, eof)

SetPosition(p) ==
  LET h == words[p].handle
      to == words[p].filepos
  IN  /\ at[p] = "set"
      /\ \/ h \in open[p] /\ position' = [position EXCEPT ![h] = to]
         \/ MayFail(p, h) /\ UNCHANGED position
      /\ Answers(p, "lseek", to, << >>)
      /\ at' = [at EXCEPT ![p] = "out"]
      /\ UNCHANGED <<contents, open, slots, words, calls>>

Close(p, d) ==
  /\ Call(p)
  /\ open' = [open EXCEPT ![p] = @ \ {StdHandle(p, d)}]
  /\ UNCHANGED <<contents, position, slots, words, at, answer>>

(* dup2 puts another handle where __stdslot says (external). *)
Dup2(p, d, k) ==
  /\ Call(p)
  /\ slots' = [slots EXCEPT ![p][k] = StdHandle(p, d)]
  /\ UNCHANGED <<files, words, at, answer>>

-----------------------------------------------------------------------------
NoWords == [handle |-> 0, bufptr |-> 0, buflen |-> 0, filepos |-> 0, stdinfo_eof |-> 0]

Init ==
  /\ contents \in [File -> Contents]
  /\ position = [h \in File |-> 0]
  /\ open = [p \in Proc |-> File]
  /\ slots \in [Proc -> Slots]
  /\ words = [p \in Proc |-> NoWords]
  /\ at = [p \in Proc |-> "out"]
  /\ answer = [p \in Proc |-> [call |-> "none"]]
  /\ calls = 0

Calls(p, d) ==
  \/ ReadByte(p, d)
  \/ \E n \in Count : ReadBlock(p, d, n)
  \/ \E bytes \in Data : WriteBlock(p, d, bytes)
  \/ \E bytes \in Data : Len(bytes) = 1 /\ WriteByte(p, d, bytes[1])
  \/ \E offset \in Offset :
       SeekSet(p, d, offset) \/ SeekCur(p, d, offset) \/ SeekEnd(p, d, offset)
  \/ Close(p, d)
  \/ \E k \in Used \cap Standard : Dup2(p, d, k)

Next == \E p \in Proc : SetPosition(p) \/ \E d \in Used : Calls(p, d)

Spec == Init /\ [][Next]_vars

-----------------------------------------------------------------------------
(* Properties. *)

Words == [handle : File \cup {0}, bufptr : Offset \cup {Address},
          buflen : Nat, filepos : 0 .. Word - 1, stdinfo_eof : 0 .. Word - 1]

Answer == [call : {"none"}]
            \cup [call : {"read_byte", "read_block", "write_byte", "write_block", "lseek"},
                  value : Nat \cup {-1}, bytes : Seq(Nat)]

TypeOK ==
  /\ contents \in [File -> Seq(Nat)] /\ position \in [File -> Nat]
  /\ open \in [Proc -> SUBSET File]
  /\ slots \in [Proc -> [Standard -> File]]
  /\ words \in [Proc -> Words]
  /\ at \in [Proc -> {"out", "set"}]
  /\ \A p \in Proc : at[p] = "set" => words[p].handle \in File
  /\ answer \in [Proc -> Answer]
  /\ calls \in Nat

(***************************************************************************)
(* The calls are FileSpec's, for every process on its own and for several  *)
(* with a file in common: a transfer is one step at the shared position, a *)
(* seek is measured from where the file stood or ended when the seek was   *)
(* called, whatever the words of the image held, and a call that fails     *)
(* changes no file.                                                        *)
(***************************************************************************)
Seeking == [p \in Proc |-> IF at[p] = "out" THEN [file |-> 0]
                           ELSE [file   |-> words[p].handle, offset |-> words[p].bufptr,
                                 whence |-> words[p].buflen, to |-> words[p].filepos]]

Posix == INSTANCE FileSpec WITH seeking <- Seeking

ImplementsFile == Posix!Spec
=============================================================================
