----------------------------- MODULE CatmProofs -----------------------------
(***************************************************************************)
(* What holds of catm for every command line, disk, buffer and table of    *)
(* handles: it writes to its output alone, and it is a ConcatSpec.         *)
(*                                                                         *)
(* The argument is about which handles can be open.  Between inputs the    *)
(* output's is the only one; during one, in_handle is g_handle, and it is  *)
(* the input's, or it is stale: nothing, or the output's handle, and then  *)
(* nothing has been written yet.  Which file the input is, nt_path says,   *)
(* and what that holds the arguments so far determine.                     *)
(***************************************************************************)
EXTENDS Catm, SequenceTheorems, WellFoundedInduction, TLAPS

Writers == \A h \in DOMAIN handles :
  "write" \in handles[h].rights => granted /\ handles[h].path = Output

Readers == \A h \in DOMAIN handles :
  "read" \in handles[h].rights => pc = "copy" /\ h = in_handle

NoWriter == \A h \in DOMAIN handles : "write" \notin handles[h].rights

(* The file that the argument stands for whose turn it is. *)
Due == Named(arg + 1)

(* nt_path is never behind: what it holds, whether it was converted for    *)
(* this argument or kept from another, is what the argument stands for.    *)
Tracked ==
  /\ pc = "start" => nt_path = NoPath
  /\ pc = "next"  => nt_path = Named(arg)
  /\ pc = "copy"  => nt_path = Due

(* What next_input leaves to copy: an input that could be opened, which is *)
(* the output only once that is closed, or one that holds nothing.         *)
Current ==
  pc = "copy" =>
    /\ in_handle = g_handle
    /\ IsOpen(in_handle, "read") => handles[in_handle].path = Due
    /\ IsOpen(in_handle, "read") /\ Due = Output => NoWriter
    /\ ~IsOpen(in_handle, "read") => Source(Due) = << >>

Untouched ==
  (granted /\ pc \in {"next", "copy"}) =>
    ((NoWriter \/ IsOpen(g_handle, "write")) => files[Output] = << >>)

Made == (granted /\ pc # "start") => Output \in DOMAIN files

Fresh == pc = "start" => DOMAIN handles = {} /\ arg = 1 /\ lost = FALSE

IInv ==
  TypeOK /\ Fresh /\ Tracked /\ Made /\ Writers /\ Readers /\ Current /\ Untouched

-----------------------------------------------------------------------------
(* What the arguments stand for. *)

(* One more argument stands for itself, if it can be converted. *)
LEMMA NamedNext ==
  ASSUME NEW i \in Nat
  PROVE  /\ Named(0) = NoPath
         /\ Named(i + 1) = IF args[i + 1] = NoPath THEN Named(i) ELSE args[i + 1]
<1> DEFINE upTo(n) == {k \in 1 .. n : args[k] # NoPath}
<1>1. Named(0) = NoPath
  <2>1. upTo(0) = {}
    OBVIOUS
  <2>2. QED
    BY <2>1 DEF Named
<1>2. CASE args[i + 1] = NoPath
  <2>1. upTo(i + 1) = upTo(i)
    BY <1>2
  <2>2. QED
    BY <1>1, <1>2, <2>1 DEF Named
<1>3. CASE args[i + 1] # NoPath
  <2>1. i + 1 \in upTo(i + 1) /\ \A k \in upTo(i + 1) : k \in Nat /\ i + 1 >= k
    BY <1>3
  <2> HIDE DEF upTo
  <2>2. Max(upTo(i + 1)) = i + 1
    <3>1. \E x \in upTo(i + 1) : \A y \in upTo(i + 1) : x >= y
      BY <2>1
    <3>2. PICK m \in upTo(i + 1) : /\ \A y \in upTo(i + 1) : m >= y
                                  /\ m = Max(upTo(i + 1))
      BY <3>1 DEF Max
    <3>3. QED
      BY <2>1, <3>2
  <2>3. Named(i + 1) = args[Max(upTo(i + 1))]
    BY <2>1 DEF Named, upTo
  <2>4. QED
    BY <1>1, <1>3, <2>2, <2>3
<1>4. QED
  BY <1>2, <1>3

LEMMA NamedKept ==
  ASSUME UNCHANGED args
  PROVE  /\ \A i : Named(i)' = Named(i)
         /\ UNCHANGED arg => Due' = Due
BY DEF Due, Named

(* What open_file opens is what the argument stands for. *)
LEMMA PathIsDue ==
  ASSUME arg \in Nat, pc = "next", Tracked
  PROVE  NtPath(args[arg + 1]) = Due
BY NamedNext DEF Tracked, NtPath, Due

-----------------------------------------------------------------------------
(* The table of handles. *)

(* A handle that NtCreateFile hands out was not in use. *)
LEMMA OpensOne ==
  ASSUME NEW path, NEW rights, Opens(path, rights)
  PROVE  /\ g_handle' \in Handle \ DOMAIN handles
         /\ DOMAIN handles' = DOMAIN handles \cup {g_handle'}
         /\ handles'[g_handle'] = [path |-> path, rights |-> rights, off |-> 0]
         /\ \A k \in DOMAIN handles : handles'[k] = handles[k]
BY DEF Opens

LEMMA ClosesOne ==
  ASSUME NEW h, Closes(h)
  PROVE  /\ DOMAIN handles' = DOMAIN handles \ {h}
         /\ \A k \in DOMAIN handles' : handles'[k] = handles[k]
BY DEF Closes

(* The parts of TypeOK about the files and the table. *)
FilesOK   == DOMAIN files \subseteq Path /\ \A p \in DOMAIN files : files[p] \in Seq(Datum)
HandlesOK == /\ DOMAIN handles \subseteq Handle
             /\ \A h \in DOMAIN handles : handles[h] \in OpenFile /\ Rest(h) >= 0

IsFunction(f) == f = [x \in DOMAIN f |-> f[x]]

Scalars ==
  /\ args \in Seq(Path \cup {NoPath}) /\ args # << >>
  /\ granted \in BOOLEAN /\ (granted => Output \in Path)
  /\ pc \in {"start", "next", "copy", "exit"}
  /\ arg \in 1 .. Len(args) /\ (pc = "copy" => arg < Len(args))
  /\ nt_path \in Path \cup {NoPath}
  /\ {g_handle, in_handle, out_handle} \subseteq Handle \cup {NoHandle}
  /\ fails \in Nat /\ fails <= MaxFails /\ lost \in BOOLEAN

LEMMA TypeParts ==
  TypeOK <=> /\ FilesOK /\ IsFunction(files) /\ HandlesOK /\ IsFunction(handles)
             /\ Scalars
<1>1. (DOMAIN files \subseteq Path /\ files \in [DOMAIN files -> Seq(Datum)])
        <=> FilesOK /\ IsFunction(files)
  BY DEF FilesOK, IsFunction
<1>2. (/\ DOMAIN handles \subseteq Handle /\ handles \in [DOMAIN handles -> OpenFile]
       /\ \A h \in DOMAIN handles : Rest(h) >= 0)
        <=> HandlesOK /\ IsFunction(handles)
  BY DEF HandlesOK, IsFunction
<1>3. QED
  BY <1>1, <1>2 DEF TypeOK, Scalars

LEMMA TypePartsNext ==
  ASSUME FilesOK', IsFunction(files)', HandlesOK', IsFunction(handles)', Scalars'
  PROVE  TypeOK'
BY TypeParts, PTL

(* An argument is a path or none, and so is what is opened for it. *)
LEMMA PathType ==
  ASSUME TypeOK, NEW i \in 1 .. Len(args)
  PROVE  /\ args[i] \in Path \cup {NoPath}
         /\ NtPath(args[i]) \in Path \cup {NoPath}
BY DEF TypeOK, NtPath

(* A failure is counted while it may happen. *)
LEMMA FailType ==
  ASSUME fails \in Nat, fails <= MaxFails, MayFail
  PROVE  fails' \in Nat /\ fails' <= MaxFails
BY BufferAssumption DEF MayFail

(* What a buffer holds is some of the input, and never nothing. *)
LEMMA PieceType ==
  ASSUME TypeOK, IsOpen(in_handle, "read"), Rest(in_handle) > 0
  PROVE  /\ Count \in 1 .. Rest(in_handle)
         /\ handles[in_handle].off \in Nat
         /\ Content(in_handle) \in Seq(Datum)
         /\ SubSeq(Content(in_handle), handles[in_handle].off + 1,
                   handles[in_handle].off + Count) \in Seq(Datum)
<1>1. handles[in_handle] \in OpenFile
  BY DEF TypeOK, IsOpen
<1>2. Content(in_handle) \in Seq(Datum) /\ handles[in_handle].off \in Nat
  BY <1>1 DEF TypeOK, OpenFile, Content
<1>3. Rest(in_handle) \in Int
         /\ Rest(in_handle) = Len(Content(in_handle)) - handles[in_handle].off
  BY <1>2 DEF Rest
<1>4. Count \in 1 .. Rest(in_handle)
  BY <1>3, BufferAssumption DEF Count
<1>5. handles[in_handle].off + Count <= Len(Content(in_handle))
  BY <1>2, <1>3, <1>4
<1>6. QED
  BY <1>2, <1>4, <1>5

-----------------------------------------------------------------------------
(* Type correctness. *)

LEMMA InitType == Init => TypeOK /\ Fresh
<1> SUFFICES ASSUME Init PROVE TypeOK /\ Fresh
  OBVIOUS
<1>1. /\ DOMAIN files \subseteq Path /\ files \in [DOMAIN files -> Seq(Datum)]
      /\ args \in Seq(Path \cup {NoPath}) /\ args # << >>
  BY StartAssumption DEF Init
<1>2. Len(args) \in Nat /\ Len(args) > 0
  BY <1>1
<1>21. granted => Output \in Path
  <2>1. Output \in Path \cup {NoPath}
    BY <1>1, <1>2 DEF Output
  <2>2. QED
    BY <2>1 DEF Init
<1>3. DOMAIN handles = {} /\ handles \in [DOMAIN handles -> OpenFile]
  BY DEF Init
<1>4. granted \in BOOLEAN /\ lost \in BOOLEAN
  BY DEF Init
<1>5. fails \in Nat /\ fails <= MaxFails
  BY BufferAssumption DEF Init
<1>6. QED
  BY <1>1, <1>2, <1>21, <1>3, <1>4, <1>5 DEF Init, TypeOK, Fresh

LEMMA ClosesKeeps ==
  ASSUME HandlesOK, FilesOK, NEW h, Closes(h), UNCHANGED files
  PROVE  HandlesOK'
<1>1. /\ DOMAIN handles' = DOMAIN handles \ {h}
      /\ \A k \in DOMAIN handles' : handles'[k] = handles[k]
  BY ClosesOne
<1>2. \A k \in DOMAIN handles' : handles[k] \in OpenFile /\ Rest(k) >= 0
  BY <1>1 DEF HandlesOK
<1>3. QED
  BY <1>1, <1>2 DEF HandlesOK, OpenFile, Rest, Content

(* A file just opened is at its start. *)
LEMMA HandlesOpened ==
  ASSUME HandlesOK, FilesOK', NEW path \in DOMAIN files',
         NEW rights \in {{"read"}, {"write"}}, Opens(path, rights),
         DOMAIN files \subseteq DOMAIN files',
         DOMAIN handles = {} \/ files' = files
  PROVE  HandlesOK' /\ IsFunction(handles)' /\ g_handle' \in Handle
<1>1. /\ g_handle' \in Handle \ DOMAIN handles
      /\ DOMAIN handles' = DOMAIN handles \cup {g_handle'}
      /\ handles'[g_handle'] = [path |-> path, rights |-> rights, off |-> 0]
      /\ \A k \in DOMAIN handles : handles'[k] = handles[k]
  BY OpensOne
<1> DEFINE Left(h) == Len(files'[handles'[h].path]) - handles'[h].off
<1>2. handles'[g_handle'] \in OpenFile' /\ Left(g_handle') >= 0
  <2>1. handles'[g_handle'] \in OpenFile'
    BY <1>1 DEF OpenFile
  <2>2. Len(files'[path]) \in Nat
    BY DEF FilesOK
  <2>3. Left(g_handle') = Len(files'[path]) - 0
    BY <1>1
  <2>4. QED
    BY <2>1, <2>2, <2>3
<1>3. ASSUME NEW h \in DOMAIN handles
      PROVE  handles'[h] \in OpenFile' /\ Left(h) >= 0
  <2>1. files' = files /\ handles'[h] = handles[h]
    BY <1>1
  <2>2. QED
    BY <2>1 DEF HandlesOK, OpenFile, Rest, Content
<1>4. \A h \in DOMAIN handles' : handles'[h] \in OpenFile' /\ Left(h) >= 0
  <2> HIDE DEF Left
  <2>1. QED
    BY <1>1, <1>2, <1>3
<1>5. IsFunction(handles)'
  BY DEF Opens, IsFunction
<1>6. QED
  BY <1>1, <1>4, <1>5 DEF HandlesOK, Rest, Content

(* Emptying or creating the output, before anything else is open. *)
LEMMA OutputType ==
  ASSUME TypeOK, granted,
         files' = [p \in DOMAIN files \cup {Output} |->
                     IF p = Output THEN << >> ELSE files[p]]
  PROVE  /\ FilesOK' /\ IsFunction(files)' /\ Output \in DOMAIN files'
         /\ DOMAIN files \subseteq DOMAIN files'
<1>1. Output \in Path
  BY DEF TypeOK
<1>2. DOMAIN files' = DOMAIN files \cup {Output} /\ IsFunction(files)'
  BY DEF IsFunction
<1>3. ASSUME NEW p \in DOMAIN files' PROVE files'[p] \in Seq(Datum)
  <2>1. CASE p = Output
    <3>1. files'[p] = << >>
      BY <1>2, <2>1
    <3>2. << >> \in Seq(Datum)
      OBVIOUS
    <3>3. QED
      BY <3>1, <3>2
  <2>2. CASE p # Output
    <3>1. p \in DOMAIN files /\ files'[p] = files[p]
      BY <1>2, <1>3, <2>2
    <3>2. QED
      BY <3>1 DEF TypeOK
  <2>3. QED
    BY <2>1, <2>2
<1>4. DOMAIN files \subseteq Path
  BY DEF TypeOK
<1>5. QED
  BY <1>1, <1>2, <1>3, <1>4 DEF FilesOK

LEMMA NextType == TypeOK /\ Fresh /\ [Next]_vars => TypeOK' /\ Fresh'
<1> SUFFICES ASSUME TypeOK, Fresh, [Next]_vars PROVE TypeOK' /\ Fresh'
  OBVIOUS
<1>0. /\ FilesOK /\ IsFunction(files) /\ HandlesOK /\ IsFunction(handles)
      /\ Len(args) \in Nat /\ arg \in 1 .. Len(args)
      /\ {g_handle, in_handle, out_handle} \subseteq Handle \cup {NoHandle}
  BY TypeParts DEF Scalars
<1>1. CASE OpenOutput
  <2>1. /\ pc = "start" /\ pc' = "next" /\ out_handle' = g_handle'
        /\ UNCHANGED <<start, arg, in_handle, fails, lost>>
        /\ nt_path' \in Path \cup {NoPath}
    BY <1>0, <1>1, PathType DEF OpenOutput, OpenedHandle, Output
  <2>2. /\ FilesOK' /\ IsFunction(files)' /\ HandlesOK' /\ IsFunction(handles)'
        /\ g_handle' \in Handle \cup {NoHandle}
    <3>1. CASE granted
      <4>1. /\ Opens(Output, {"write"})
            /\ files' = [p \in DOMAIN files \cup {Output} |->
                           IF p = Output THEN << >> ELSE files[p]]
        BY <1>1, <3>1 DEF OpenOutput
      <4>2. QED
        BY <1>0, <2>1, <3>1, <4>1, OutputType, HandlesOpened DEF Fresh
    <3>2. CASE ~granted
      BY <1>0, <1>1, <3>2
         DEF OpenOutput, FailsToOpen, FilesOK, HandlesOK, IsFunction, OpenFile,
             Rest, Content
    <3>3. QED
      BY <3>1, <3>2
  <2>3. TypeOK'
    <3>1. Scalars'
      BY <1>0, <2>1, <2>2 DEF TypeOK, Scalars, start, Output
    <3>2. QED
      BY <2>1, <2>2, <3>1, TypePartsNext
  <2>4. QED
    BY <2>1, <2>3 DEF Fresh
<1>2. CASE NextInput
  <2> DEFINE path == NtPath(args[arg + 1])
             can  == path \in DOMAIN files /\ Shareable(path)
  <2>1. /\ pc = "next" /\ pc' = "copy" /\ arg < Len(args)
        /\ in_handle' = g_handle'
        /\ UNCHANGED <<files, start, arg, out_handle, fails, lost>>
        /\ nt_path' = path
    BY <1>2 DEF NextInput, OpenedHandle
  <2>11. nt_path' \in Path \cup {NoPath}
    <3>1. arg + 1 \in 1 .. Len(args)
      BY <1>0, <2>1
    <3>2. QED
      BY <2>1, <3>1, PathType
  <2>2. HandlesOK' /\ IsFunction(handles)' /\ g_handle' \in Handle \cup {NoHandle}
    <3>1. CASE can
      <4>1. Opens(path, {"read"}) /\ path \in DOMAIN files'
        BY <1>2, <2>1, <3>1 DEF NextInput, ReadAccess
      <4>2. FilesOK'
        BY <1>0, <2>1 DEF FilesOK
      <4>3. QED
        BY <1>0, <2>1, <4>1, <4>2, HandlesOpened
    <3>2. CASE ~can
      <4>1. FailsToOpen
        BY <1>2, <3>2 DEF NextInput
      <4>2. QED
        BY <1>0, <2>1, <4>1
           DEF FailsToOpen, HandlesOK, IsFunction, OpenFile, Rest, Content
    <3>3. QED
      BY <3>1, <3>2
  <2>3. FilesOK' /\ IsFunction(files)'
    BY <1>0, <2>1 DEF FilesOK, IsFunction
  <2>4. TypeOK'
    <3>1. Scalars'
      BY <1>0, <2>1, <2>11, <2>2, <2>3 DEF TypeOK, Scalars, start, Output
    <3>2. QED
      BY <2>1, <2>2, <2>3, <3>1, TypePartsNext
  <2>5. QED
    BY <2>1, <2>4 DEF Fresh
<1>3. CASE Copy
  <2> DEFINE from  == handles[in_handle].off
             piece == SubSeq(Content(in_handle), from + 1, from + Count)
  <2>1. /\ pc = "copy" /\ IsOpen(in_handle, "read") /\ Rest(in_handle) > 0
        /\ handles' = [handles EXCEPT ![in_handle].off = from + Count]
        /\ UNCHANGED <<start, pc, arg, nt_path, g_handle, in_handle, out_handle>>
    BY <1>3 DEF Copy
  <2>2. /\ Count \in 1 .. Rest(in_handle) /\ from \in Nat
        /\ piece \in Seq(Datum)
    BY <2>1, PieceType
  <2>3. /\ FilesOK' /\ IsFunction(files)' /\ DOMAIN files' = DOMAIN files
        /\ \A p \in DOMAIN files : Len(files[p]) <= Len(files'[p])
    <3>1. CASE UNCHANGED files
      BY <1>0, <3>1 DEF FilesOK, IsFunction
    <3>2. CASE /\ IsOpen(out_handle, "write")
               /\ files' = [files EXCEPT ![handles[out_handle].path] = @ \o piece]
      <4> DEFINE o == handles[out_handle].path
      <4>1. o \in DOMAIN files
        BY <1>0, <3>2 DEF IsOpen, HandlesOK, OpenFile
      <4>2. files[o] \in Seq(Datum)
        BY <1>0, <4>1 DEF FilesOK
      <4>3. files[o] \o piece \in Seq(Datum) /\ Len(files[o]) <= Len(files[o] \o piece)
        <5>1. \A x, y \in Seq(Datum) : x \o y \in Seq(Datum) /\ Len(x) <= Len(x \o y)
          OBVIOUS
        <5>2. QED
          BY ONLY <2>2, <4>2, <5>1
      <4>4. DOMAIN files' = DOMAIN files /\ IsFunction(files)'
        BY <3>2 DEF IsFunction
      <4>5. \A p \in DOMAIN files : files'[p] = IF p = o THEN files[o] \o piece ELSE files[p]
        BY <3>2, <4>1
      <4> HIDE DEF piece, o
      <4>6. ASSUME NEW p \in DOMAIN files PROVE Len(files[p]) <= Len(files'[p])
        <5>1. files'[p] = files[p] => Len(files[p]) <= Len(files'[p])
          <6>1. files[p] \in Seq(Datum)
            BY <1>0 DEF FilesOK
          <6>2. QED
            BY <6>1
        <5>2. QED
          BY <4>3, <4>5, <5>1
      <4>7. FilesOK'
        <5>1. \A p \in DOMAIN files' : files'[p] \in Seq(Datum)
          BY <1>0, <4>3, <4>4, <4>5 DEF FilesOK
        <5>2. QED
          BY <1>0, <4>4, <5>1 DEF FilesOK
      <4>8. QED
        BY <4>4, <4>6, <4>7
    <3>3. QED
      BY <1>3, <3>1, <3>2 DEF Copy
  <2>4. HandlesOK' /\ IsFunction(handles)'
    <3>1. /\ DOMAIN handles' = DOMAIN handles /\ in_handle \in DOMAIN handles
          /\ \A h \in DOMAIN handles \ {in_handle} : handles'[h] = handles[h]
          /\ handles[in_handle] \in OpenFile
      BY <1>0, <2>1 DEF IsOpen, HandlesOK
    <3>2. handles'[in_handle] = [path |-> handles[in_handle].path,
                                 rights |-> handles[in_handle].rights,
                                 off |-> from + Count]
      BY <2>1, <3>1 DEF OpenFile
    <3>3. ASSUME NEW h \in DOMAIN handles
          PROVE  /\ handles'[h] \in OpenFile'
                 /\ Len(files'[handles'[h].path]) - handles'[h].off >= 0
      <4>1. /\ handles[h].path \in DOMAIN files /\ handles[h].off \in Nat
            /\ handles[h].rights \in {{"read"}, {"write"}} /\ Rest(h) >= 0
        BY <1>0, <3>3 DEF HandlesOK, OpenFile
      <4>2. /\ Len(files[handles[h].path]) \in Nat
            /\ Len(files'[handles[h].path]) \in Nat
            /\ Len(files[handles[h].path]) <= Len(files'[handles[h].path])
        BY <1>0, <2>3, <4>1 DEF FilesOK
      <4>3. CASE h = in_handle
        <5>1. handles'[h] \in OpenFile'
          BY <2>2, <2>3, <3>2, <4>1, <4>3 DEF OpenFile
        <5>2. from + Count <= Len(files[handles[h].path])
          BY <2>2, <4>2, <4>3 DEF Rest, Content
        <5>3. QED
          BY <2>2, <3>2, <4>2, <4>3, <5>1, <5>2
      <4>4. CASE h # in_handle
        <5>1. handles'[h] = handles[h]
          BY <3>1, <4>4
        <5>2. handles'[h] \in OpenFile'
          BY <2>3, <3>3, <5>1, <1>0 DEF HandlesOK, OpenFile
        <5>3. QED
          BY <4>1, <4>2, <5>1, <5>2 DEF Rest, Content
      <4>5. QED
        BY <4>3, <4>4
    <3>4. HandlesOK'
      BY <1>0, <3>1, <3>3 DEF HandlesOK, Rest, Content
    <3>5. IsFunction(handles)'
      BY <2>1 DEF IsFunction
    <3>6. QED
      BY <3>4, <3>5
  <2>5. fails' \in Nat /\ fails' <= MaxFails /\ lost' \in BOOLEAN
    <3>1. MayFail \/ fails' = fails
      BY <1>3 DEF Copy
    <3>2. lost' = lost \/ lost' = TRUE
      BY <1>3 DEF Copy
    <3>3. QED
      BY <3>1, <3>2, FailType DEF TypeOK
  <2>6. TypeOK'
    <3>1. Scalars'
      BY <1>0, <2>1, <2>3, <2>4, <2>5 DEF TypeOK, Scalars, start, Output
    <3>2. QED
      BY <2>1, <2>3, <2>4, <2>5, <3>1, TypePartsNext
  <2>7. QED
    BY <2>1, <2>6 DEF Fresh
<1>4. CASE CloseInput
  <2>1. /\ pc = "copy" /\ pc' = "next" /\ Closes(in_handle) /\ arg' = arg + 1
        /\ UNCHANGED <<files, start, nt_path, g_handle, in_handle, out_handle>>
    BY <1>4 DEF CloseInput
  <2>2. arg < Len(args)
    BY <2>1 DEF TypeOK
  <2>3. FilesOK' /\ IsFunction(files)'
    BY <1>0, <2>1 DEF FilesOK, IsFunction
  <2>4. HandlesOK'
    BY <1>0, <2>1, ClosesKeeps
  <2>5. IsFunction(handles)'
    BY <2>1 DEF Closes, IsFunction
  <2>6. fails' \in Nat /\ fails' <= MaxFails /\ lost' \in BOOLEAN
    <3>1. MayFail \/ fails' = fails
      BY <1>4 DEF CloseInput
    <3>2. lost' = lost \/ lost' = TRUE
      BY <1>4 DEF CloseInput
    <3>3. QED
      BY <3>1, <3>2, FailType DEF TypeOK
  <2>7. TypeOK'
    <3>1. Scalars'
      BY <1>0, <2>1, <2>2, <2>3, <2>4, <2>5, <2>6 DEF TypeOK, Scalars, start, Output
    <3>2. QED
      BY <2>1, <2>2, <2>3, <2>4, <2>5, <2>6, <3>1, TypePartsNext
  <2>8. QED
    BY <2>1, <2>7 DEF Fresh
<1>5. CASE Finish
  <2>1. /\ pc = "next" /\ pc' = "exit" /\ Closes(out_handle)
        /\ UNCHANGED <<files, start, arg, nt_path, g_handle, in_handle,
                       out_handle, fails, lost>>
    BY <1>5 DEF Finish
  <2>2. FilesOK' /\ IsFunction(files)'
    BY <1>0, <2>1 DEF FilesOK, IsFunction
  <2>3. HandlesOK'
    BY <1>0, <2>1, ClosesKeeps
  <2>4. IsFunction(handles)'
    BY <2>1 DEF Closes, IsFunction
  <2>5. TypeOK'
    <3>1. Scalars'
      BY <1>0, <2>1, <2>2, <2>3, <2>4 DEF TypeOK, Scalars, start, Output
    <3>2. QED
      BY <2>1, <2>2, <2>3, <2>4, <3>1, TypePartsNext
  <2>6. QED
    BY <2>1, <2>5 DEF Fresh
<1>6. CASE UNCHANGED vars
  BY <1>6 DEF vars, start, TypeOK, Fresh, OpenFile, Rest, Content, Output
<1>7. QED
  BY <1>1, <1>2, <1>3, <1>4, <1>5, <1>6 DEF Next

(* catm keeps its types: no position passes the end of its file. *)
THEOREM TypeCorrect == Spec => []TypeOK
<1>1. Spec => [](TypeOK /\ Fresh)
  BY InitType, NextType, PTL DEF Spec
<1>2. QED
  BY <1>1, PTL

-----------------------------------------------------------------------------
(* Which handles can be open. *)

Table == Tracked /\ Made /\ Writers /\ Readers /\ Current /\ Untouched

(* Every open file is open for reading or for writing, never both. *)
LEMMA OneRight ==
  ASSUME TypeOK, NEW h \in DOMAIN handles
  PROVE  "write" \in handles[h].rights <=> "read" \notin handles[h].rights
BY DEF TypeOK, OpenFile

LEMMA InitTable == Init => Table
BY DEF Init, Table, Tracked, Made, Writers, Readers, Current, Untouched

LEMMA OpenOutputTable ==
  ASSUME TypeOK, Fresh, Table, OpenOutput
  PROVE  Table'
<1>1. /\ pc = "start" /\ pc' = "next" /\ DOMAIN handles = {}
      /\ UNCHANGED <<args, granted>>
  BY DEF OpenOutput, Fresh, start
<1>2. Output' = Output
  BY <1>1 DEF Output
<1>21. Tracked'
  <2>1. arg' = 1 /\ nt_path' = NtPath(args[1]) /\ nt_path = NoPath
    BY <1>1 DEF OpenOutput, Output, Fresh, Table, Tracked
  <2>2. nt_path' = Named(1)
    <3>1. 0 \in Nat /\ 0 + 1 = 1
      OBVIOUS
    <3>2. Named(1) = IF args[1] = NoPath THEN NoPath ELSE args[1]
      BY <3>1, NamedNext
    <3>3. QED
      BY <2>1, <3>2 DEF NtPath
  <2>3. Named(arg)' = Named(1)
    BY <1>1, <2>1 DEF Named
  <2>4. QED
    BY <1>1, <2>2, <2>3 DEF Tracked
<1>3. CASE granted
  <2>1. /\ Opens(Output, {"write"})
        /\ files' = [p \in DOMAIN files \cup {Output} |->
                       IF p = Output THEN << >> ELSE files[p]]
    BY <1>3 DEF OpenOutput
  <2>2. /\ DOMAIN handles' = {g_handle'}
        /\ handles'[g_handle'] = [path |-> Output, rights |-> {"write"}, off |-> 0]
    BY <1>1, <2>1, OpensOne
  <2>3. Output \in DOMAIN files' /\ files'[Output] = << >>
    BY <2>1
  <2>4. Made' /\ Untouched'
    BY <1>2, <2>3 DEF Made, Untouched
  <2>5. Writers' /\ Readers'
    BY <1>1, <1>2, <1>3, <2>2 DEF Writers, Readers
  <2>6. Current'
    BY <1>1 DEF Current
  <2>7. QED
    BY <1>21, <2>4, <2>5, <2>6 DEF Table
<1>4. CASE ~granted
  <2>1. DOMAIN handles' = {} /\ ~granted'
    BY <1>1, <1>4 DEF OpenOutput, FailsToOpen
  <2>2. QED
    BY <1>1, <1>21, <2>1 DEF Table, Made, Writers, Readers, Current, Untouched
<1>5. QED
  BY <1>3, <1>4

LEMMA NextInputTable ==
  ASSUME TypeOK, Table, NextInput
  PROVE  Table'
<1> DEFINE path == NtPath(args[arg + 1])
           can  == path \in DOMAIN files /\ Shareable(path)
<1>1. /\ pc = "next" /\ pc' = "copy" /\ in_handle' = g_handle'
      /\ UNCHANGED <<files, args, granted, arg>> /\ nt_path' = path
  BY DEF NextInput, OpenedHandle, start
<1>2. Output' = Output /\ Due' = path /\ path = Due
  <2>1. path = Due
    BY <1>1, PathIsDue DEF TypeOK, Table
  <2>2. QED
    BY <1>1, <2>1, NamedKept DEF Output
<1>21. Tracked'
  BY <1>1, <1>2 DEF Tracked
<1>3. Source(Due)' = Source(Due)
  BY <1>1, <1>2 DEF Source
<1>4. \A h \in DOMAIN handles : /\ "read" \notin handles[h].rights
                               /\ "write" \in handles[h].rights
                               /\ granted /\ handles[h].path = Output
  BY <1>1, OneRight DEF Table, Readers, Writers
<1>5. Made'
  BY <1>1, <1>2 DEF Table, Made
<1>6. CASE can
  <2>1. Opens(path, {"read"})
    BY <1>6 DEF NextInput, ReadAccess
  <2>2. /\ DOMAIN handles' = DOMAIN handles \cup {g_handle'}
        /\ g_handle' \notin DOMAIN handles
        /\ handles'[g_handle'] = [path |-> path, rights |-> {"read"}, off |-> 0]
        /\ \A k \in DOMAIN handles : handles'[k] = handles[k]
    BY <2>1, OpensOne
  <2>3. Writers' /\ Readers'
    BY <1>1, <1>2, <1>4, <2>2 DEF Writers, Readers
  <2>4. Current'
    <3>1. path = Output => NoWriter
      BY <1>4, <1>6 DEF Shareable, NoWriter
    <3>2. path = Output => NoWriter'
      BY <2>2, <3>1 DEF NoWriter
    <3>3. handles'[in_handle'].path = path /\ IsOpen(in_handle, "read")'
      BY <1>1, <2>2 DEF IsOpen
    <3>4. QED
      BY <1>1, <1>2, <3>2, <3>3 DEF Current
  <2>5. Untouched'
    <3>1. ~IsOpen(g_handle, "write")'
      BY <2>2 DEF IsOpen
    <3>2. NoWriter' => NoWriter
      BY <2>2 DEF NoWriter
    <3>3. QED
      BY <1>1, <1>2, <3>1, <3>2 DEF Table, Untouched
  <2>6. QED
    BY <1>21, <1>5, <2>3, <2>4, <2>5 DEF Table
<1>7. CASE ~can
  <2>1. UNCHANGED <<handles, g_handle>>
    BY <1>7 DEF NextInput, FailsToOpen
  <2>2. Writers' /\ Readers'
    BY <1>1, <1>2, <1>4, <2>1 DEF Writers, Readers
  <2>3. Untouched'
    BY <1>1, <1>2, <2>1 DEF Table, Untouched, NoWriter, IsOpen
  <2>4. ~IsOpen(in_handle, "read")'
    BY <1>1, <1>4, <2>1 DEF IsOpen
  <2>5. Source(Due) = << >>
    BY <1>2, <1>4, <1>7 DEF Source, Shareable
  <2>6. Current'
    BY <1>1, <1>2, <1>3, <2>4, <2>5 DEF Current
  <2>7. QED
    BY <1>21, <1>5, <2>2, <2>3, <2>6 DEF Table
<1>8. QED
  BY <1>6, <1>7

(* What a piece changes: the position of the input, and of the files only  *)
(* the output, through a handle that can write.                            *)
LEMMA CopyChanges ==
  ASSUME TypeOK, Table, Copy
  PROVE  /\ pc = "copy" /\ pc' = "copy" /\ in_handle \in DOMAIN handles
         /\ "read" \in handles[in_handle].rights
         /\ UNCHANGED <<args, granted, arg, nt_path, g_handle, in_handle,
                        out_handle>>
         /\ DOMAIN handles' = DOMAIN handles
         /\ \A h \in DOMAIN handles : /\ handles'[h].rights = handles[h].rights
                                      /\ handles'[h].path = handles[h].path
         /\ DOMAIN files' = DOMAIN files
         /\ \A p \in DOMAIN files : p # Output => files'[p] = files[p]
         /\ ~(granted /\ IsOpen(out_handle, "write")) => files' = files
<1>1. /\ pc = "copy" /\ pc' = "copy" /\ in_handle \in DOMAIN handles
      /\ "read" \in handles[in_handle].rights
      /\ UNCHANGED <<args, granted, arg, nt_path, g_handle, in_handle, out_handle>>
  BY DEF Copy, IsOpen, start
<1>2. /\ DOMAIN handles' = DOMAIN handles
      /\ \A h \in DOMAIN handles : /\ handles'[h].rights = handles[h].rights
                                   /\ handles'[h].path = handles[h].path
  <2>1. \A h \in DOMAIN handles : handles[h] \in OpenFile
    BY DEF TypeOK
  <2>2. QED
    BY <2>1 DEF Copy, OpenFile
<1>3. /\ DOMAIN files' = DOMAIN files
      /\ \A p \in DOMAIN files : p # Output => files'[p] = files[p]
      /\ ~(granted /\ IsOpen(out_handle, "write")) => files' = files
  <2>1. CASE files' = files
    BY <2>1
  <2>2. CASE files' # files
    <3>1. PICK piece : /\ IsOpen(out_handle, "write")
                       /\ files' = [files EXCEPT ![handles[out_handle].path] = @ \o piece]
      BY <2>2 DEF Copy
    <3>2. handles[out_handle].path = Output /\ granted
      BY <3>1 DEF IsOpen, Table, Writers
    <3>3. QED
      BY <3>1, <3>2
  <2>3. QED
    BY <2>1, <2>2
<1>4. QED
  BY <1>1, <1>2, <1>3

LEMMA CopyTable ==
  ASSUME TypeOK, Table, Copy
  PROVE  Table'
<1>1. /\ pc = "copy" /\ pc' = "copy" /\ in_handle \in DOMAIN handles
      /\ "read" \in handles[in_handle].rights
      /\ UNCHANGED <<args, granted, arg, nt_path, g_handle, in_handle, out_handle>>
      /\ DOMAIN handles' = DOMAIN handles
      /\ \A h \in DOMAIN handles : /\ handles'[h].rights = handles[h].rights
                                   /\ handles'[h].path = handles[h].path
      /\ DOMAIN files' = DOMAIN files
      /\ ~(granted /\ IsOpen(out_handle, "write")) => files' = files
  BY CopyChanges
<1>2. Output' = Output /\ Due' = Due
  BY <1>1, NamedKept DEF Output
<1>3. Tracked' /\ Made' /\ Writers' /\ Readers'
  BY <1>1, <1>2 DEF Table, Tracked, Made, Writers, Readers
<1>4. Current'
  BY <1>1, <1>2 DEF Table, Current, IsOpen, NoWriter
<1>5. Untouched'
  <2>1. g_handle = in_handle
    BY <1>1 DEF Table, Current
  <2>2. ~IsOpen(g_handle, "write")'
    BY <1>1, <2>1, OneRight DEF IsOpen
  <2>3. NoWriter' => NoWriter /\ files' = files
    BY <1>1 DEF NoWriter, IsOpen
  <2>4. QED
    BY <1>1, <1>2, <2>2, <2>3 DEF Table, Untouched
<1>6. QED
  BY <1>3, <1>4, <1>5 DEF Table

LEMMA CloseInputTable ==
  ASSUME TypeOK, Table, CloseInput
  PROVE  Table'
<1>1. /\ pc = "copy" /\ pc' = "next"
      /\ UNCHANGED <<files, args, granted, nt_path, g_handle, in_handle>>
      /\ arg' = arg + 1
      /\ DOMAIN handles' = DOMAIN handles \ {in_handle}
      /\ \A k \in DOMAIN handles' : handles'[k] = handles[k]
  BY ClosesOne DEF CloseInput, start
<1>2. Output' = Output /\ in_handle = g_handle
  BY <1>1 DEF Output, Table, Current
<1>21. Tracked'
  <2>1. Named(arg)' = Due
    BY <1>1 DEF Named, Due
  <2>2. QED
    BY <1>1, <2>1 DEF Table, Tracked
<1>3. Made' /\ Writers' /\ Readers' /\ Current'
  BY <1>1, <1>2 DEF Table, Made, Writers, Readers, Current
<1>4. Untouched'
  <2>1. ~IsOpen(g_handle, "write")'
    BY <1>1, <1>2 DEF IsOpen
  <2>2. NoWriter' => NoWriter \/ IsOpen(g_handle, "write")
    BY <1>1, <1>2 DEF NoWriter, IsOpen
  <2>3. QED
    BY <1>1, <1>2, <2>1, <2>2 DEF Table, Untouched
<1>5. QED
  BY <1>21, <1>3, <1>4 DEF Table

LEMMA FinishTable ==
  ASSUME TypeOK, Table, Finish
  PROVE  Table'
<1>1. /\ pc = "next" /\ pc' = "exit"
      /\ UNCHANGED <<files, args, granted>>
      /\ DOMAIN handles' = DOMAIN handles \ {out_handle}
      /\ \A k \in DOMAIN handles' : handles'[k] = handles[k]
  BY ClosesOne DEF Finish, start
<1>2. Output' = Output
  BY <1>1 DEF Output
<1>3. QED
  BY <1>1, <1>2 DEF Table, Tracked, Made, Writers, Readers, Current, Untouched

LEMMA NextInv == IInv /\ [Next]_vars => IInv'
<1> SUFFICES ASSUME IInv, [Next]_vars PROVE IInv'
  OBVIOUS
<1>0. TypeOK /\ Fresh /\ Table /\ TypeOK' /\ Fresh'
  BY NextType DEF IInv, Table
<1>1. Table'
  <2>1. CASE UNCHANGED vars
    BY <1>0, <2>1 DEF vars, start, Table, Tracked, Due, Named, Made, Writers,
                      Readers, Current, Untouched, NoWriter, IsOpen, Source, Output
  <2>2. QED
    BY <1>0, <2>1, OpenOutputTable, NextInputTable, CopyTable,
       CloseInputTable, FinishTable DEF Next
<1>2. QED
  BY <1>0, <1>1 DEF IInv, Table

THEOREM Inductive == Spec => []IInv
<1>1. Init => IInv
  BY InitType, InitTable DEF IInv, Table
<1>2. QED
  BY <1>1, NextInv, PTL DEF Spec

-----------------------------------------------------------------------------
(* What follows from it. *)

(* A stale out_handle, or a number used again, never reaches another file: *)
(* the only handle that can write is the output's.                         *)
THEOREM WritesOnlyTheOutput == Spec => OnlyTheOutput
<1> DEFINE A == \A p \in DOMAIN files \ {Output} : files'[p] = files[p]
<1>1. IInv /\ [Next]_vars => [A]_files
  <2> SUFFICES ASSUME IInv, [Next]_vars PROVE [A]_files
    OBVIOUS
  <2>1. CASE OpenOutput
    BY <2>1 DEF OpenOutput, FailsToOpen
  <2>2. CASE Copy
    <3>1. TypeOK /\ Table
      BY DEF IInv, Table
    <3>2. QED
      BY <2>2, <3>1, CopyChanges
  <2>3. CASE NextInput \/ CloseInput \/ Finish \/ UNCHANGED vars
    BY <2>3 DEF NextInput, CloseInput, Finish, vars
  <2>4. QED
    BY <2>1, <2>2, <2>3 DEF Next
<1>2. QED
  BY <1>1, Inductive, PTL DEF Spec, OnlyTheOutput

Abstract == <<Sources, arg, Passed, Written, lost>>

(* The sources stay as they were when nothing but the output changes. *)
LEMMA SourcesKept ==
  ASSUME TypeOK, UNCHANGED <<args, granted>>,
         DOMAIN files \subseteq DOMAIN files',
         DOMAIN files' \subseteq DOMAIN files \cup {Output},
         \A p \in DOMAIN files : p # Output => files'[p] = files[p],
         ~granted => files' = files
  PROVE  Sources' = Sources
<1>1. Output' = Output
  BY DEF Output
<1>2. \A p : Source(p)' = Source(p)
  BY <1>1 DEF Source
<1>3. QED
  BY <1>2, NamedKept DEF Sources

LEMMA OpenOutputStutters ==
  ASSUME TypeOK, Fresh, Table, Table', OpenOutput
  PROVE  UNCHANGED Abstract
<1>1. /\ pc = "start" /\ pc' = "next"
      /\ UNCHANGED <<args, granted, arg, lost>>
  BY DEF OpenOutput, start
<1>2. Sources' = Sources
  BY <1>1, SourcesKept DEF OpenOutput, FailsToOpen
<1>3. Written' = << >> /\ Written = << >>
  BY <1>1 DEF Written, OpenOutput, Output
<1>4. Passed' = 0 /\ Passed = 0
  BY <1>1 DEF Passed
<1>5. QED
  BY <1>1, <1>2, <1>3, <1>4 DEF Abstract

LEMMA NextInputStutters ==
  ASSUME TypeOK, Table, NextInput
  PROVE  UNCHANGED Abstract
<1> DEFINE path == NtPath(args[arg + 1])
           can  == path \in DOMAIN files /\ Shareable(path)
<1>1. /\ pc = "next" /\ pc' = "copy" /\ in_handle' = g_handle'
      /\ UNCHANGED <<files, args, granted, arg, lost>>
  BY DEF NextInput, OpenedHandle, start
<1>2. Sources' = Sources /\ Written' = Written
  BY <1>1, SourcesKept DEF Written, Output
<1>3. Passed = 0
  BY <1>1 DEF Passed
<1>4. Passed' = 0
  <2>1. CASE can
    <3>1. Opens(path, {"read"})
      BY <2>1 DEF NextInput, ReadAccess
    <3>2. handles'[g_handle'].off = 0
      <4>1. handles'[g_handle'] = [path |-> path, rights |-> {"read"}, off |-> 0]
        BY <3>1, OpensOne
      <4>2. QED
        BY <4>1
    <3>3. QED
      BY <1>1, <3>2 DEF Passed
  <2>2. CASE ~can
    <3>1. UNCHANGED handles
      BY <2>2 DEF NextInput, FailsToOpen
    <3>2. \A h \in DOMAIN handles : "read" \notin handles[h].rights
      BY <1>1 DEF Table, Readers
    <3>3. QED
      BY <3>1, <3>2 DEF Passed, IsOpen
  <2>3. QED
    BY <2>1, <2>2
<1>5. QED
  BY <1>1, <1>2, <1>3, <1>4 DEF Abstract

(* The input being copied is the one whose turn it is. *)
LEMMA SourceIsContent ==
  ASSUME TypeOK, Table, pc = "copy"
  PROVE  /\ arg \in DOMAIN Sources
         /\ IsOpen(in_handle, "read") =>
              /\ Sources[arg] = Content(in_handle)
              /\ Passed = handles[in_handle].off
              /\ Len(Sources[arg]) - Passed = Rest(in_handle)
              /\ Rest(in_handle) \in Nat
         /\ ~IsOpen(in_handle, "read") => Len(Sources[arg]) - Passed = 0
<1>1. arg \in DOMAIN Sources /\ Sources[arg] = Source(Due)
  BY DEF TypeOK, Sources, Due
<1>2. CASE IsOpen(in_handle, "read")
  <2>1. /\ handles[in_handle].path = Due /\ in_handle = g_handle
        /\ in_handle \in DOMAIN handles
    BY <1>2 DEF Table, Current, IsOpen
  <2>2. Due \in DOMAIN files /\ handles[in_handle] \in OpenFile
    BY <2>1 DEF TypeOK, OpenFile
  <2>3. Source(Due) = files[Due]
    <3>1. CASE Due = Output /\ granted
      <4>1. NoWriter
        BY <1>2, <3>1 DEF Table, Current
      <4>2. files[Output] = << >>
        BY <3>1, <4>1 DEF Table, Untouched
      <4>3. QED
        BY <3>1, <4>2 DEF Source
    <3>2. CASE ~(Due = Output /\ granted)
      BY <2>2, <3>2 DEF Source
    <3>3. QED
      BY <3>1, <3>2
  <2>4. Sources[arg] = Content(in_handle) /\ Passed = handles[in_handle].off
    BY <1>1, <1>2, <2>1, <2>3 DEF Content, Passed
  <2>5. Rest(in_handle) \in Nat
    BY <2>1, <2>2 DEF TypeOK, Rest, Content, OpenFile
  <2>6. QED
    BY <1>1, <1>2, <2>4, <2>5 DEF Rest
<1>3. CASE ~IsOpen(in_handle, "read")
  <2>1. Source(Due) = << >> /\ Passed = 0
    BY <1>3 DEF Table, Current, Passed
  <2>2. QED
    BY <1>1, <1>3, <2>1
<1>4. QED
  BY <1>1, <1>2, <1>3

(* A piece written is taken, a piece whose write fails is skipped. *)
LEMMA CopyPasses ==
  ASSUME TypeOK, Table, Copy
  PROVE  Concat!Next
<1> DEFINE from  == handles[in_handle].off
           piece == SubSeq(Content(in_handle), from + 1, from + Count)
<1>1. /\ pc = "copy" /\ IsOpen(in_handle, "read") /\ Rest(in_handle) > 0
      /\ handles' = [handles EXCEPT ![in_handle].off = from + Count]
      /\ UNCHANGED <<args, granted, pc, arg, in_handle, out_handle>>
  BY DEF Copy, start
<1>2. /\ arg \in DOMAIN Sources /\ Sources[arg] = Content(in_handle)
      /\ Passed = from /\ Len(Sources[arg]) - Passed = Rest(in_handle)
  BY <1>1, SourceIsContent
<1>3. Count \in 1 .. Len(Sources[arg]) - Passed
  BY <1>1, <1>2, PieceType
<1>4. Sources' = Sources
  BY CopyChanges, SourcesKept
<1>5. Passed' = Passed + Count
  <2>1. in_handle \in DOMAIN handles /\ handles[in_handle] \in OpenFile
    BY <1>1 DEF IsOpen, TypeOK
  <2>2. handles'[in_handle] = [path |-> handles[in_handle].path,
                               rights |-> handles[in_handle].rights,
                               off |-> from + Count]
    BY <1>1, <2>1 DEF OpenFile
  <2>3. IsOpen(in_handle, "read")'
    BY <1>1, <2>1, <2>2 DEF IsOpen
  <2>4. Passed' = from + Count
    BY <1>1, <2>2, <2>3 DEF Passed
  <2>5. QED
    BY <1>2, <2>4
<1>6. CASE /\ IsOpen(out_handle, "write")
           /\ files' = [files EXCEPT ![handles[out_handle].path] = @ \o piece]
           /\ lost' = lost
  <2>1. granted /\ handles[out_handle].path = Output
    BY <1>6 DEF IsOpen, Table, Writers
  <2>2. Output \in DOMAIN files /\ Output' = Output
    BY <1>1, <2>1 DEF Table, Made, Output
  <2>3. Written' = Written \o piece
    BY <1>1, <1>6, <2>1, <2>2 DEF Written
  <2>4. piece = SubSeq(Sources[arg], Passed + 1, Passed + Count)
    BY <1>2
  <2>5. Concat!Take(Count)
    BY <1>1, <1>4, <1>5, <1>6, <2>3, <2>4 DEF Concat!Take
  <2>6. QED
    BY <1>2, <1>3, <2>5 DEF Concat!Next, Concat!Left
<1>7. CASE files' = files /\ lost' = TRUE
  <2>1. Written' = Written
    BY <1>1, <1>7 DEF Written, Output
  <2>2. Concat!Skip(Count)
    BY <1>1, <1>4, <1>5, <1>7, <2>1 DEF Concat!Skip
  <2>3. QED
    BY <1>2, <1>3, <2>2 DEF Concat!Next, Concat!Left
<1>8. QED
  BY <1>6, <1>7 DEF Copy

(* The end of an input, or of what could be read of it, is a turn. *)
LEMMA CloseInputTurns ==
  ASSUME TypeOK, Table, CloseInput
  PROVE  Concat!Next
<1>1. /\ pc = "copy" /\ pc' = "next" /\ arg' = arg + 1
      /\ UNCHANGED <<files, args, granted>>
  BY DEF CloseInput, start
<1>2. Sources' = Sources /\ Written' = Written /\ Passed' = 0
  BY <1>1, SourcesKept DEF Written, Output, Passed
<1>3. /\ arg \in DOMAIN Sources
      /\ CannotRead => ~(Len(Sources[arg]) - Passed > 0)
      /\ ~CannotRead => Len(Sources[arg]) - Passed > 0
  BY <1>1, SourceIsContent DEF CannotRead
<1>4. lost' = (lost \/ Len(Sources[arg]) - Passed > 0)
  <2>1. CASE CannotRead /\ lost' = lost
    <3>1. lost \in BOOLEAN
      BY DEF TypeOK
    <3>2. QED
      BY <1>3, <2>1, <3>1
  <2>2. CASE ~CannotRead /\ lost' = TRUE
    BY <1>3, <2>2
  <2>3. QED
    BY <2>1, <2>2 DEF CloseInput
<1>5. Concat!Turn
  BY <1>1, <1>2, <1>4 DEF Concat!Turn, Concat!Left
<1>6. QED
  BY <1>3, <1>5 DEF Concat!Next

(* Every step of catm is one of ConcatSpec's, or none. *)
LEMMA AbstractStep ==
  ASSUME IInv, IInv', [Next]_vars
  PROVE  Concat!Next \/ UNCHANGED Abstract
<1>1. TypeOK /\ Fresh /\ Table /\ Table'
  BY DEF IInv, Table
<1>2. CASE OpenOutput
  BY <1>1, <1>2, OpenOutputStutters
<1>3. CASE NextInput
  BY <1>1, <1>3, NextInputStutters
<1>4. CASE Copy
  BY <1>1, <1>4, CopyPasses
<1>5. CASE CloseInput
  BY <1>1, <1>5, CloseInputTurns
<1>6. CASE Finish
  <2>1. /\ pc = "next" /\ pc' = "exit"
        /\ UNCHANGED <<files, args, granted, arg, lost>>
    BY <1>6 DEF Finish, start
  <2>2. Sources' = Sources /\ Written' = Written
    BY <1>1, <2>1, SourcesKept DEF Written, Output
  <2>3. Passed' = 0 /\ Passed = 0
    BY <2>1 DEF Passed
  <2>4. QED
    BY <2>1, <2>2, <2>3 DEF Abstract
<1>7. CASE UNCHANGED vars
  BY <1>7 DEF vars, start, Abstract, Sources, Source, Named, Passed, Written,
              IsOpen, Output
<1>8. QED
  BY <1>2, <1>3, <1>4, <1>5, <1>6, <1>7 DEF Next

(* Whatever is missing, fails, cannot be converted or is closed too early, *)
(* what catm writes is, argument by argument, the file the argument stands *)
(* for, less what was lost.                                                *)
THEOREM Implements == Spec => ImplementsConcat
<1>1. Init => Concat!Init
  <2> SUFFICES ASSUME Init PROVE Concat!Init
    OBVIOUS
  <2>1. Passed = 0 /\ Written = << >> /\ arg = 1 /\ lost = FALSE
    BY DEF Init, Passed, Written
  <2>2. QED
    BY <2>1 DEF Concat!Init
<1>2. IInv /\ IInv' /\ [Next]_vars => [Concat!Next]_(Concat!concat)
  BY AbstractStep DEF Concat!concat, Abstract
<1>3. QED
  BY <1>1, <1>2, Inductive, PTL DEF Spec, ImplementsConcat, Concat!Spec

-----------------------------------------------------------------------------
(* What catm writes if it loses nothing: FlattenSeq, unfolded. *)

Joins(seqs, n, g) ==
  g = [i \in 1 .. n |-> IF i = 1 THEN seqs[i] ELSE g[i - 1] \o seqs[i]]

(* The first inputs joined, for every number of them. *)
Joined(seqs) ==
  CHOOSE r : /\ r[0] = << >>
             /\ \A i \in 1 .. Len(seqs) : r[i] = r[i - 1] \o seqs[i]
             /\ r[Len(seqs)] = FlattenSeq(seqs)

(* A set of numbers that has one has a least. *)
LEMMA LeastOf ==
  ASSUME NEW S \in SUBSET Nat, S # {}
  PROVE  \E k \in S : \A j \in S : k <= j
<1>1. \E k \in S : \A j \in S : ~(<<j, k>> \in OpToRel(<, Nat))
  BY NatLessThanWellFounded, WFMin
<1>2. \A j, k \in Nat : <<j, k>> \in OpToRel(<, Nat) <=> j < k
  BY DEF OpToRel
<1>3. PICK k \in S : \A j \in S : ~(<<j, k>> \in OpToRel(<, Nat))
  BY <1>1
<1>4. ASSUME NEW j \in S PROVE k <= j
  <2>1. ~(j < k)
    BY <1>2, <1>3
  <2>2. QED
    BY <2>1
<1>5. QED
  BY <1>4

LEMMA JoinExists ==
  ASSUME NEW seqs, NEW n \in Nat
  PROVE  \E g : Joins(seqs, n, g)
<1> DEFINE Bad == {k \in Nat : ~ \E g : Joins(seqs, k, g)}
<1>1. SUFFICES ASSUME Bad # {} PROVE FALSE
  OBVIOUS
<1>2. PICK k \in Bad : \A j \in Bad : k <= j
  <2>1. Bad \in SUBSET Nat
    OBVIOUS
  <2> HIDE DEF Bad
  <2>2. QED
    BY <1>1, <2>1, LeastOf
<1>3. k \in Nat /\ ~ \E g : Joins(seqs, k, g)
  OBVIOUS
<1>4. k # 0
  <2> DEFINE g == [i \in 1 .. 0 |-> seqs[i]]
  <2>1. \A i : i \notin 1 .. 0
    OBVIOUS
  <2>2. Joins(seqs, 0, g)
    BY <2>1 DEF Joins
  <2>3. QED
    BY <1>3, <2>2
<1>5. k - 1 \in Nat /\ k - 1 \notin Bad
  BY <1>2, <1>3, <1>4
<1>6. PICK h : Joins(seqs, k - 1, h)
  BY <1>5
<1> DEFINE g == [i \in 1 .. k |->
                   IF i = k THEN IF i = 1 THEN seqs[i] ELSE h[i - 1] \o seqs[i]
                   ELSE h[i]]
<1>7. ASSUME NEW i \in 1 .. k
      PROVE  g[i] = IF i = 1 THEN seqs[i] ELSE g[i - 1] \o seqs[i]
  <2>0. k \in Nat /\ i \in Nat /\ 1 <= i /\ i <= k
    BY <1>3
  <2>1. i # 1 => i - 1 \in 1 .. k /\ i - 1 # k
    BY <2>0
  <2>2. CASE i = k
    BY <2>1, <2>2
  <2>3. CASE i # k
    <3>1. i \in 1 .. k - 1
      BY <2>0, <2>3
    <3>2. h[i] = IF i = 1 THEN seqs[i] ELSE h[i - 1] \o seqs[i]
      BY <1>6, <3>1 DEF Joins
    <3>3. g[i] = h[i] /\ (i # 1 => g[i - 1] = h[i - 1])
      BY <2>1, <2>3
    <3> HIDE DEF g
    <3>4. QED
      BY <3>2, <3>3
  <2>4. QED
    BY <2>2, <2>3
<1>8. g = [i \in 1 .. k |-> IF i = 1 THEN seqs[i] ELSE g[i - 1] \o seqs[i]]
  <2>1. g = [i \in 1 .. k |-> g[i]]
    OBVIOUS
  <2> HIDE DEF g
  <2>2. QED
    BY <1>7, <2>1
<1>9. Joins(seqs, k, g)
  BY <1>8 DEF Joins
<1>10. QED
  BY <1>3, <1>9

LEMMA JoinedSteps ==
  ASSUME NEW D, NEW seqs \in Seq(Seq(D))
  PROVE  /\ Joined(seqs)[0] = << >>
         /\ \A i \in 1 .. Len(seqs) : Joined(seqs)[i] = Joined(seqs)[i - 1] \o seqs[i]
         /\ Joined(seqs)[Len(seqs)] = FlattenSeq(seqs)
<1> DEFINE n == Len(seqs)
           f == CHOOSE g : Joins(seqs, n, g)
           r == [i \in 0 .. n |-> IF i = 0 THEN << >> ELSE f[i]]
<1>0. n \in Nat /\ \A i \in 1 .. n : seqs[i] \in Seq(D)
  OBVIOUS
<1>1. Joins(seqs, n, f)
  BY <1>0, JoinExists
<1>2. FlattenSeq(seqs) = IF n = 0 THEN seqs ELSE f[n]
  BY DEF FlattenSeq, Joins
<1> HIDE DEF f
<1>3. r[0] = << >>
  BY <1>0
<1>4. ASSUME NEW i \in 1 .. n
      PROVE  r[i] = r[i - 1] \o seqs[i]
  <2>0. n \in Nat /\ i \in Nat /\ 1 <= i /\ i <= n
    BY <1>0
  <2>1. i \in 0 .. n /\ i - 1 \in 0 .. n /\ i # 0
    BY <2>0
  <2>2. r[i] = f[i] /\ f[i] = IF i = 1 THEN seqs[i] ELSE f[i - 1] \o seqs[i]
    BY <1>1, <2>1 DEF Joins
  <2>3. CASE i = 1
    <3>1. r[i - 1] = << >> /\ seqs[i] \in Seq(D)
      BY <1>0, <1>3, <2>3
    <3>2. << >> \o seqs[i] = seqs[i]
      BY <3>1, ConcatEmptySeq
    <3> HIDE DEF r
    <3>3. QED
      BY <2>2, <2>3, <3>1, <3>2
  <2>4. CASE i # 1
    <3>1. r[i - 1] = f[i - 1]
      BY <2>0, <2>1, <2>4
    <3> HIDE DEF r
    <3>2. QED
      BY <2>2, <2>4, <3>1
  <2>5. QED
    BY <2>3, <2>4
<1>5. r[n] = FlattenSeq(seqs)
  <2>1. n \in 0 .. n
    BY <1>0
  <2>2. n = 0 => seqs = << >>
    BY <1>0
  <2>3. QED
    BY <1>2, <2>1, <2>2
<1> HIDE DEF r
<1>6. QED
  BY <1>3, <1>4, <1>5 DEF Joined

-----------------------------------------------------------------------------
(* While nothing is lost, catm has written its inputs joined. *)

(* The input being copied, or nothing after the last. *)
Here == IF arg \in DOMAIN Sources THEN Sources[arg] ELSE << >>

InOrder ==
  ~lost => Written = Joined(Sources)[arg - 1] \o SubSeq(Here, 1, Passed)

LEMMA SourcesType ==
  ASSUME TypeOK
  PROVE  /\ Sources \in Seq(Seq(Datum)) /\ DOMAIN Sources = 1 .. Len(Sources)
         /\ Len(Sources) = Len(args) - 1 /\ Len(Sources) \in Nat
         /\ Here \in Seq(Datum) /\ arg \in Nat \ {0} /\ arg <= Len(Sources) + 1
<1>1. Len(args) \in Nat /\ Len(args) # 0
  BY DEF TypeOK
<1>2. \A p : Source(p) \in Seq(Datum)
  BY DEF TypeOK, Source
<1>3. Sources \in [1 .. Len(args) - 1 -> Seq(Datum)]
  BY <1>2 DEF Sources
<1>4. Sources \in Seq(Seq(Datum)) /\ Len(Sources) = Len(args) - 1
  BY <1>1, <1>3
<1>5. arg \in Nat \ {0} /\ arg <= Len(args)
  BY <1>1 DEF TypeOK
<1>6. QED
  BY <1>1, <1>4, <1>5 DEF Here

LEMMA PassedType ==
  ASSUME IInv
  PROVE  /\ Passed \in 0 .. Len(Here) /\ Written \in Seq(Datum)
         /\ pc # "copy" => Passed = 0
<1>1. TypeOK /\ Table
  BY DEF IInv, Table
<1>2. Written \in Seq(Datum)
  BY <1>1 DEF Written, TypeOK, Table, Made
<1>3. Here \in Seq(Datum)
  BY <1>1, SourcesType
<1>4. CASE pc = "copy" /\ IsOpen(in_handle, "read")
  <2>1. /\ Here = Sources[arg] /\ Passed = handles[in_handle].off
        /\ Len(Sources[arg]) - Passed = Rest(in_handle) /\ Rest(in_handle) \in Nat
    BY <1>1, <1>4, SourceIsContent DEF Here
  <2>2. Passed \in Nat
    BY <1>1, <1>4, <2>1 DEF IsOpen, TypeOK, OpenFile
  <2>3. Len(Here) \in Nat
    BY <1>3
  <2>4. QED
    BY <1>2, <1>4, <2>1, <2>2, <2>3
<1>5. CASE ~(pc = "copy" /\ IsOpen(in_handle, "read"))
  BY <1>2, <1>3, <1>5 DEF Passed
<1>6. QED
  BY <1>4, <1>5

LEMMA JoinedType ==
  ASSUME NEW D, NEW seqs \in Seq(Seq(D))
  PROVE  \A i \in 0 .. Len(seqs) : Joined(seqs)[i] \in Seq(D)
<1> DEFINE n == Len(seqs)
           r == Joined(seqs)
           Bad == {k \in 0 .. n : r[k] \notin Seq(D)}
<1>0. n \in Nat /\ \A i \in 1 .. n : seqs[i] \in Seq(D)
  OBVIOUS
<1>1. r[0] = << >> /\ \A i \in 1 .. n : r[i] = r[i - 1] \o seqs[i]
  BY JoinedSteps
<1> HIDE DEF r
<1>2. SUFFICES ASSUME Bad # {} PROVE FALSE
  BY DEF r
<1>3. Bad \in SUBSET Nat
  BY <1>0
<1>4. PICK k \in Bad : \A j \in Bad : k <= j
  <2> HIDE DEF Bad
  <2>1. QED
    BY <1>2, <1>3, LeastOf
<1>5. k # 0
  <2>1. << >> \in Seq(D)
    OBVIOUS
  <2>2. r[k] \notin Seq(D)
    OBVIOUS
  <2>3. QED
    BY <1>1, <2>1, <2>2
<1>6. k \in 1 .. n /\ k - 1 \in 0 .. n /\ ~(k <= k - 1)
  BY <1>0, <1>5
<1>7. r[k - 1] \in Seq(D)
  BY <1>4, <1>6
<1>8. r[k] \in Seq(D)
  <2>1. seqs[k] \in Seq(D) /\ r[k] = r[k - 1] \o seqs[k]
    BY <1>0, <1>1, <1>6
  <2>2. QED
    BY <1>7, <2>1, ConcatProperties
<1>9. QED
  BY <1>6, <1>8

(* ConcatSpec's steps keep the order; that is all it takes. *)
LEMMA InOrderStep ==
  ASSUME IInv, IInv', InOrder, Concat!Next \/ UNCHANGED Abstract
  PROVE  InOrder'
<1> DEFINE src == Sources[arg]
           r   == Joined(Sources)
<1>0. TypeOK /\ TypeOK'
  BY DEF IInv
<1>1. /\ Sources \in Seq(Seq(Datum)) /\ DOMAIN Sources = 1 .. Len(Sources)
      /\ Len(Sources) \in Nat /\ Here \in Seq(Datum)
      /\ arg \in Nat \ {0} /\ arg <= Len(Sources) + 1
  BY <1>0, SourcesType
<1>2. Passed \in 0 .. Len(Here) /\ Written \in Seq(Datum)
  BY PassedType
<1>3. CASE UNCHANGED Abstract
  BY <1>3 DEF Abstract, InOrder, Here
<1>4. CASE Concat!Next
  <2>0. arg \in DOMAIN Sources /\ Here = src /\ src \in Seq(Datum) /\ Len(src) \in Nat
    BY <1>1, <1>4 DEF Concat!Next, Here
  <2>00. arg \in 1 .. Len(Sources) /\ arg - 1 \in 0 .. Len(Sources)
    BY <1>1, <2>0
  <2>01. r[arg - 1] \in Seq(Datum)
    BY <1>1, <2>00, JoinedType
  <2>1. CASE Concat!Turn
    <3>1. /\ arg' = arg + 1 /\ Passed' = 0 /\ Written' = Written /\ Sources' = Sources
          /\ lost' = (lost \/ Len(src) - Passed > 0)
      BY <2>1 DEF Concat!Turn, Concat!Left
    <3> SUFFICES ASSUME ~lost'
                 PROVE  Written' = r'[arg' - 1] \o SubSeq(Here', 1, Passed')
      BY DEF InOrder
    <3>2. ~lost /\ Passed = Len(src)
      <4>1. ~lost /\ ~(Len(src) - Passed > 0)
        BY <3>1, Zenon
      <4>2. QED
        BY <1>2, <2>0, <4>1
    <3>3. SubSeq(Here, 1, Passed) = src
      BY <2>0, <3>2, SubSeqFull
    <3>4. Written = r[arg - 1] \o src
      BY <3>2, <3>3 DEF InOrder
    <3>5. r[arg] = r[arg - 1] \o src
      BY <1>1, <2>00, JoinedSteps
    <3>6. arg' - 1 = arg /\ r' = r
      BY <1>1, <3>1
    <3>7. SubSeq(Here', 1, Passed') = << >>
      BY <3>1, SubSeqEmpty
    <3>8. Written \o << >> = Written
      BY <1>2, ConcatEmptySeq
    <3>9. QED
      BY <3>1, <3>4, <3>5, <3>6, <3>7, <3>8
  <2>2. ASSUME NEW n \in 1 .. Concat!Left, Concat!Take(n) PROVE InOrder'
    <3>1. /\ arg' = arg /\ Passed' = Passed + n /\ Sources' = Sources /\ lost' = lost
          /\ Written' = Written \o SubSeq(src, Passed + 1, Passed + n)
      BY <2>2 DEF Concat!Take
    <3> SUFFICES ASSUME ~lost
                 PROVE  Written' = r'[arg' - 1] \o SubSeq(Here', 1, Passed')
      BY <3>1 DEF InOrder
    <3>2. Here' = src /\ r' = r /\ arg' - 1 = arg - 1
      BY <2>0, <3>1 DEF Here
    <3>3. n \in Nat /\ Passed \in Nat /\ Passed + n <= Len(src) /\ 1 <= n
      BY <1>2, <2>0, <2>2 DEF Concat!Left
    <3>4. SubSeq(src, 1, Passed) \o SubSeq(src, Passed + 1, Passed + n)
            = SubSeq(src, 1, Passed + n)
      <4>1. /\ 1 \in 1 .. Len(src) + 1 /\ Passed \in 1 - 1 .. Len(src)
            /\ Passed + n \in Passed .. Len(src)
        BY <2>0, <3>3
      <4>2. QED
        BY <2>0, <4>1, ConcatAdjacentSubSeq
    <3>5. SubSeq(src, 1, Passed) \in Seq(Datum)
          /\ SubSeq(src, Passed + 1, Passed + n) \in Seq(Datum)
      BY <2>0, <3>3
    <3>6. Written = r[arg - 1] \o SubSeq(src, 1, Passed)
      BY <2>0 DEF InOrder
    <3>7. Written' = r[arg - 1] \o SubSeq(src, 1, Passed + n)
      <4> DEFINE A == SubSeq(src, 1, Passed)
                 B == SubSeq(src, Passed + 1, Passed + n)
                 all == r[arg - 1]
      <4>1. all \in Seq(Datum) /\ A \in Seq(Datum) /\ B \in Seq(Datum)
        BY <2>01, <3>5
      <4>2. Written' = (all \o A) \o B /\ A \o B = SubSeq(src, 1, Passed + n)
        BY <3>1, <3>4, <3>6
      <4> HIDE DEF A, B, all
      <4>3. (all \o A) \o B = all \o (A \o B)
        BY <4>1, ConcatAssociative
      <4>4. Written' = all \o SubSeq(src, 1, Passed + n)
        BY <4>2, <4>3
      <4>5. QED
        BY <4>4 DEF all
    <3>8. QED
      BY <3>1, <3>2, <3>7
  <2>3. ASSUME NEW n \in 1 .. Concat!Left, Concat!Skip(n) PROVE InOrder'
    BY <2>3 DEF Concat!Skip, InOrder
  <2>4. QED
    BY <1>4, <2>1, <2>2, <2>3 DEF Concat!Next
<1>5. QED
  BY <1>3, <1>4

-----------------------------------------------------------------------------
(* What a missing input costs when no call fails. *)

Barred == Len(args) > 1 /\ ~Present(2)

OneWriter == \A h \in DOMAIN handles :
  "write" \in handles[h].rights => h = out_handle

(* A missing first input leaves in_handle the output's handle, which then  *)
(* is closed; otherwise that stays open and no input has its number.       *)
Cost ==
  (granted /\ fails = 0) =>
    /\ pc = "start" => ~lost
    /\ (pc # "start" /\ Barred) =>
         /\ files[Output] = << >>
         /\ arg = 1 /\ pc = "next" =>
              g_handle = out_handle /\ IsOpen(out_handle, "write")
         /\ arg = 1 /\ pc = "copy" =>
              in_handle = out_handle /\ ~IsOpen(in_handle, "read")
         /\ arg > 1 => NoWriter
    /\ (pc # "start" /\ ~Barred) =>
         /\ ~lost
         /\ pc # "exit" => IsOpen(out_handle, "write")
         /\ pc # "exit" /\ (pc = "copy" \/ arg > 1) => g_handle # out_handle

LEMMA OneWriterStep ==
  ASSUME IInv, OneWriter, [Next]_vars
  PROVE  OneWriter'
<1>0. TypeOK /\ Fresh /\ Table
  BY DEF IInv, Table
<1>1. CASE OpenOutput
  <2>1. DOMAIN handles = {} /\ out_handle' = g_handle'
    BY <1>0, <1>1 DEF OpenOutput, Fresh, OpenedHandle
  <2>2. CASE granted
    BY <1>1, <2>1, <2>2, OpensOne DEF OpenOutput, OneWriter
  <2>3. CASE ~granted
    BY <1>1, <2>1, <2>3 DEF OpenOutput, FailsToOpen, OneWriter
  <2>4. QED
    BY <2>2, <2>3
<1>2. CASE NextInput
  <2> DEFINE path == NtPath(args[arg + 1])
  <2>1. out_handle' = out_handle
    BY <1>2 DEF NextInput
  <2>2. CASE Opens(path, {"read"})
    <3>1. /\ DOMAIN handles' = DOMAIN handles \cup {g_handle'}
          /\ handles'[g_handle'] = [path |-> path, rights |-> {"read"}, off |-> 0]
          /\ \A k \in DOMAIN handles : handles'[k] = handles[k]
      BY <2>2, OpensOne
    <3>2. QED
      BY <2>1, <3>1 DEF OneWriter
  <2>3. CASE FailsToOpen
    BY <2>1, <2>3 DEF FailsToOpen, OneWriter
  <2>4. QED
    BY <1>2, <2>2, <2>3 DEF NextInput, ReadAccess
<1>3. CASE Copy
  BY <1>0, <1>3, CopyChanges DEF OneWriter
<1>4. CASE CloseInput
  BY <1>4, ClosesOne DEF CloseInput, OneWriter
<1>5. CASE Finish
  BY <1>5, ClosesOne DEF Finish, OneWriter
<1>6. CASE UNCHANGED vars
  BY <1>6 DEF vars, OneWriter
<1>7. QED
  BY <1>1, <1>2, <1>3, <1>4, <1>5, <1>6 DEF Next

(* Which files there are is settled when the output is made. *)
LEMMA BarredKept ==
  ASSUME UNCHANGED <<args, granted>>, granted,
         DOMAIN files' = DOMAIN files \/ DOMAIN files' = DOMAIN files \cup {Output}
  PROVE  Barred' = Barred /\ Output' = Output
BY NamedKept DEF Barred, Present, Output

LEMMA CostStep ==
  ASSUME IInv, IInv', OneWriter, Cost, [Next]_vars
  PROVE  Cost'
<1>0. /\ TypeOK /\ Fresh /\ Table /\ TypeOK' /\ fails \in Nat
      /\ arg \in Nat /\ arg >= 1 /\ Len(args) \in Nat
  BY DEF IInv, Table, TypeOK
<1>1. UNCHANGED <<args, granted>> /\ (fails' = fails \/ fails' = fails + 1)
  BY DEF Next, vars, start, OpenOutput, NextInput, Copy, CloseInput, Finish, MayFail
<1> SUFFICES ASSUME granted, fails' = 0 PROVE Cost'
  BY <1>1 DEF Cost
<1>2. fails = 0 /\ fails' = fails
  BY <1>0, <1>1
<1>3. /\ pc = "start" => ~lost
      /\ (pc # "start" /\ Barred) =>
           /\ files[Output] = << >>
           /\ arg = 1 /\ pc = "next" =>
              g_handle = out_handle /\ IsOpen(out_handle, "write")
           /\ arg = 1 /\ pc = "copy" =>
                in_handle = out_handle /\ ~IsOpen(in_handle, "read")
           /\ arg > 1 => NoWriter
      /\ (pc # "start" /\ ~Barred) =>
           /\ ~lost
           /\ pc # "exit" => IsOpen(out_handle, "write")
           /\ pc # "exit" /\ (pc = "copy" \/ arg > 1) => g_handle # out_handle
  BY <1>2 DEF Cost
<1>4. CASE OpenOutput
  <2>1. /\ pc = "start" /\ pc' = "next" /\ arg' = arg /\ arg = 1 /\ lost' = lost
        /\ Opens(Output, {"write"}) /\ out_handle' = g_handle'
        /\ files' = [p \in DOMAIN files \cup {Output} |->
                       IF p = Output THEN << >> ELSE files[p]]
    BY <1>0, <1>4 DEF OpenOutput, OpenedHandle, Fresh
  <2>2. DOMAIN files' = DOMAIN files \cup {Output} /\ files'[Output] = << >>
    BY <2>1
  <2>3. Barred' = Barred /\ Output' = Output
    BY <1>1, <2>2, BarredKept
  <2>4. /\ DOMAIN handles' = DOMAIN handles \cup {g_handle'}
        /\ handles'[g_handle'] = [path |-> Output, rights |-> {"write"}, off |-> 0]
    BY <2>1, OpensOne
  <2>5. IsOpen(out_handle, "write")'
    BY <2>1, <2>4 DEF IsOpen
  <2>6. QED
    BY <1>0, <1>3, <2>1, <2>2, <2>3, <2>5 DEF Cost
<1>5. CASE NextInput
  <2> DEFINE path == NtPath(args[arg + 1])
             can  == path \in DOMAIN files /\ Shareable(path)
  <2>1. /\ pc = "next" /\ pc' = "copy" /\ in_handle' = g_handle'
        /\ arg < Len(args) /\ UNCHANGED <<files, arg, out_handle, lost>>
    BY <1>5 DEF NextInput, OpenedHandle
  <2>2. Barred' = Barred /\ Output' = Output
    BY <1>1, <2>1, BarredKept
  <2>21. path = Due /\ (arg = 1 => Due = Named(2))
    BY <1>0, <2>1, PathIsDue DEF Table, Due
  <2>3. CASE can
    <3>1. Opens(path, {"read"})
      BY <1>5, <2>3 DEF NextInput, ReadAccess
    <3>2. /\ DOMAIN handles' = DOMAIN handles \cup {g_handle'}
          /\ g_handle' \notin DOMAIN handles
          /\ handles'[g_handle'] = [path |-> path, rights |-> {"read"}, off |-> 0]
          /\ \A k \in DOMAIN handles : handles'[k] = handles[k]
      BY <3>1, OpensOne
    <3>3. CASE Barred
      <4>1. arg > 1
        <5>1. SUFFICES ASSUME arg = 1 PROVE FALSE
          BY <1>0
        <5>2. path = Named(2) /\ path = Output /\ path \in DOMAIN files
          BY <2>3, <2>21, <3>3, <5>1 DEF Barred, Present
        <5>3. IsOpen(out_handle, "write")
          BY <1>3, <2>1, <3>3, <5>1
        <5>4. QED
          BY <1>0, <2>3, <5>2, <5>3 DEF IsOpen, Shareable, Table, Writers
      <4>2. NoWriter'
        BY <1>3, <2>1, <3>2, <3>3, <4>1 DEF NoWriter
      <4>3. QED
        BY <1>0, <1>3, <2>1, <2>2, <3>3, <4>1, <4>2 DEF Cost
    <3>4. CASE ~Barred
      <4>1. IsOpen(out_handle, "write") /\ out_handle \in DOMAIN handles
        BY <1>3, <2>1, <3>4 DEF IsOpen
      <4>2. IsOpen(out_handle, "write")' /\ g_handle' # out_handle'
        BY <2>1, <3>2, <4>1 DEF IsOpen
      <4>3. QED
        BY <1>3, <2>1, <2>2, <3>4, <4>2 DEF Cost
    <3>5. QED
      BY <3>3, <3>4
  <2>4. CASE ~can
    <3>1. UNCHANGED <<handles, g_handle>>
      BY <1>5, <2>4 DEF NextInput, FailsToOpen
    <3>2. \A h \in DOMAIN handles : "read" \notin handles[h].rights
      BY <1>0, <2>1 DEF Table, Readers
    <3>3. CASE Barred
      <4>1. ~IsOpen(in_handle, "read")'
        BY <3>1, <3>2 DEF IsOpen
      <4>2. NoWriter' = NoWriter
        BY <3>1 DEF NoWriter
      <4>3. QED
        BY <1>3, <2>1, <2>2, <3>1, <3>3, <4>1, <4>2 DEF Cost
    <3>4. CASE ~Barred
      <4>1. arg > 1
        <5>1. SUFFICES ASSUME arg = 1 PROVE FALSE
          BY <1>0
        <5>2. path = Named(2) /\ path \in DOMAIN files /\ path # Output
          BY <1>0, <2>1, <2>21, <3>4, <5>1 DEF Barred, Present
        <5>3. Shareable(path)
          BY <1>0, <5>2 DEF Shareable, Table, Writers
        <5>4. QED
          BY <2>4, <5>2, <5>3
      <4>2. IsOpen(out_handle, "write")'
        BY <1>3, <2>1, <3>1, <3>4 DEF IsOpen
      <4>3. QED
        BY <1>3, <2>1, <2>2, <3>1, <3>4, <4>1, <4>2 DEF Cost
    <3>5. QED
      BY <3>3, <3>4
  <2>5. QED
    BY <2>3, <2>4
<1>6. CASE Copy
  <2>1. /\ pc = "copy" /\ pc' = "copy" /\ in_handle \in DOMAIN handles
        /\ UNCHANGED <<arg, g_handle, in_handle, out_handle>>
        /\ DOMAIN handles' = DOMAIN handles
        /\ \A h \in DOMAIN handles : handles'[h].rights = handles[h].rights
        /\ DOMAIN files' = DOMAIN files
        /\ ~IsOpen(out_handle, "write") => files' = files
    BY <1>0, <1>6, CopyChanges
  <2>2. Barred' = Barred /\ Output' = Output
    BY <1>1, <2>1, BarredKept
  <2>3. IsOpen(in_handle, "read")
    BY <1>6 DEF Copy
  <2>4. CASE Barred
    <3>1. arg > 1 /\ NoWriter
      BY <1>0, <1>3, <2>1, <2>3, <2>4
    <3>2. NoWriter' /\ files' = files
      BY <2>1, <3>1 DEF NoWriter, IsOpen
    <3>3. QED
      BY <1>0, <1>3, <2>1, <2>2, <2>4, <3>1, <3>2 DEF Cost
  <2>5. CASE ~Barred
    <3>1. IsOpen(out_handle, "write") /\ ~lost /\ g_handle # out_handle
      BY <1>3, <2>1, <2>5
    <3>2. lost' = lost
      BY <1>0, <1>2, <1>6, <3>1 DEF Copy, MayFail
    <3>3. IsOpen(out_handle, "write")'
      BY <2>1, <3>1 DEF IsOpen
    <3>4. QED
      BY <2>1, <2>2, <2>5, <3>1, <3>2, <3>3 DEF Cost
  <2>6. QED
    BY <2>4, <2>5
<1>7. CASE CloseInput
  <2>1. /\ pc = "copy" /\ pc' = "next" /\ arg' = arg + 1
        /\ UNCHANGED <<files, g_handle, in_handle, out_handle>>
        /\ DOMAIN handles' = DOMAIN handles \ {in_handle}
        /\ \A k \in DOMAIN handles' : handles'[k] = handles[k]
    BY <1>7, ClosesOne DEF CloseInput
  <2>2. Barred' = Barred /\ Output' = Output
    BY <1>1, <2>1, BarredKept
  <2>3. lost' = lost
    BY <1>0, <1>2, <1>7 DEF CloseInput, MayFail
  <2>4. arg' > 1 /\ arg' # 1
    BY <1>0, <2>1
  <2>5. CASE Barred
    <3>1. NoWriter'
      <4>1. CASE arg = 1
        BY <1>3, <2>1, <2>5, <4>1 DEF NoWriter, OneWriter
      <4>2. CASE arg > 1
        BY <1>3, <2>1, <2>5, <4>2 DEF NoWriter
      <4>3. QED
        BY <1>0, <4>1, <4>2
    <3>2. QED
      BY <1>3, <2>1, <2>2, <2>4, <2>5, <3>1 DEF Cost
  <2>6. CASE ~Barred
    <3>1. IsOpen(out_handle, "write") /\ ~lost /\ g_handle # out_handle
      BY <1>3, <2>1, <2>6
    <3>2. in_handle # out_handle
      BY <1>0, <2>1, <3>1 DEF Table, Current
    <3>3. IsOpen(out_handle, "write")'
      BY <2>1, <3>1, <3>2 DEF IsOpen
    <3>4. QED
      BY <2>1, <2>2, <2>3, <2>6, <3>1, <3>3 DEF Cost
  <2>7. QED
    BY <2>5, <2>6
<1>8. CASE Finish
  <2>1. /\ pc = "next" /\ pc' = "exit"
        /\ UNCHANGED <<files, arg, g_handle, in_handle, out_handle, lost>>
        /\ DOMAIN handles' = DOMAIN handles \ {out_handle}
        /\ \A k \in DOMAIN handles' : handles'[k] = handles[k]
    BY <1>8, ClosesOne DEF Finish
  <2>2. Barred' = Barred /\ Output' = Output
    BY <1>1, <2>1, BarredKept
  <2>3. NoWriter => NoWriter'
    BY <2>1 DEF NoWriter
  <2>4. QED
    BY <1>3, <2>1, <2>2, <2>3 DEF Cost
<1>9. CASE UNCHANGED vars
  <2>1. UNCHANGED <<files, pc, arg, handles, g_handle, in_handle, out_handle, lost>>
    BY <1>9 DEF vars
  <2>2. Barred' = Barred /\ Output' = Output
    BY <1>1, <2>1, BarredKept
  <2>3. QED
    BY <1>3, <2>1, <2>2 DEF Cost, NoWriter, IsOpen
<1>10. QED
  BY <1>4, <1>5, <1>6, <1>7, <1>8, <1>9 DEF Next

Ended == pc = "exit" => arg = Len(args)

CInv == IInv /\ InOrder /\ OneWriter /\ Cost /\ Ended

LEMMA CostInductive == Spec => []CInv
<1>1. Init => CInv
  <2> SUFFICES ASSUME Init PROVE CInv
    OBVIOUS
  <2>1. IInv
    BY InitType, InitTable DEF IInv, Table
  <2>2. arg - 1 = 0 /\ Written = << >> /\ Passed = 0
    BY DEF Init, Written, Passed
  <2>3. Joined(Sources)[0] = << >>
    BY <2>1, SourcesType, JoinedSteps DEF IInv
  <2>4. SubSeq(Here, 1, 0) = << >> /\ << >> \o << >> = << >>
    BY SubSeqEmpty
  <2>5. InOrder
    BY <2>2, <2>3, <2>4 DEF InOrder
  <2>6. QED
    BY <2>1, <2>5 DEF CInv, OneWriter, Cost, Ended, Init
<1>2. CInv /\ [Next]_vars => CInv'
  <2>1. Ended /\ [Next]_vars => Ended'
    BY DEF Ended, Next, OpenOutput, NextInput, Copy, CloseInput, Finish, start, vars
  <2>2. QED
    BY <2>1, NextInv, AbstractStep, InOrderStep, OneWriterStep, CostStep DEF CInv
<1>3. QED
  BY <1>1, <1>2, PTL DEF Spec

(* Unless a read or a write fails, a first input that is missing or cannot *)
(* be converted costs the whole output, any other missing input itself,    *)
(* and nothing else is lost.                                               *)
THEOREM MissingCosts == Spec => []WhatMissingCosts
<1>1. CInv => WhatMissingCosts
  <2> SUFFICES ASSUME CInv, pc = "exit", fails = 0, granted
               PROVE  files[Output] = IF Len(args) > 1 /\ ~Present(2)
                                        THEN << >> ELSE FlattenSeq(Sources)
    BY DEF WhatMissingCosts
  <2>1. CASE Barred
    BY <2>1 DEF CInv, Cost, Barred
  <2>2. CASE ~Barred
    <3>1. ~lost
      BY <2>2 DEF CInv, Cost
    <3>2. /\ TypeOK /\ Len(Sources) = Len(args) - 1 /\ Len(Sources) \in Nat
          /\ DOMAIN Sources = 1 .. Len(Sources) /\ arg = Len(args)
          /\ Sources \in Seq(Seq(Datum))
      BY SourcesType DEF CInv, IInv, Ended
    <3>3. Here = << >> /\ arg - 1 = Len(Sources)
      BY <3>2 DEF Here
    <3>4. Passed = 0 /\ Written = files[Output]
      BY DEF Passed, Written
    <3>5. Joined(Sources)[Len(Sources)] = FlattenSeq(Sources)
          /\ FlattenSeq(Sources) \in Seq(Datum)
      <4>1. Len(Sources) \in 0 .. Len(Sources)
        BY <3>2
      <4>2. QED
        BY <3>2, <4>1, JoinedSteps, JoinedType
    <3>6. SubSeq(Here, 1, Passed) = << >>
      BY <3>3, <3>4, SubSeqEmpty
    <3>7. FlattenSeq(Sources) \o << >> = FlattenSeq(Sources)
      BY <3>5, ConcatEmptySeq
    <3>8. Written = Joined(Sources)[arg - 1] \o SubSeq(Here, 1, Passed)
      BY <3>1 DEF CInv, InOrder
    <3>9. Written = FlattenSeq(Sources)
      BY <3>3, <3>5, <3>6, <3>7, <3>8
    <3>10. QED
      BY <2>2, <3>4, <3>9 DEF Barred
  <2>3. QED
    BY <2>1, <2>2
<1>2. QED
  BY <1>1, CostInductive, PTL
=============================================================================
