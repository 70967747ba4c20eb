-------------------------------- MODULE Catm --------------------------------
(***************************************************************************)
(* catm_pe32 (x86/Development/gen_catm.py): catm OUTPUT INPUT ... appends  *)
(* the inputs to the output, a buffer at a time, through a table of NT     *)
(* handles whose numbers are used again after they are closed.             *)
(*                                                                         *)
(* No status is looked at but the sign of NtReadFile's.  A file that could *)
(* not be opened is read, written or closed through whatever NtCreateFile  *)
(* left in g_handle: 0, or the handle that was opened before it.  Nor does *)
(* open_file look at what RtlDosPathNameToNtPathName_U returned: for an    *)
(* argument it cannot convert, nt_path still names the file before, and    *)
(* that file is opened again.                                              *)
(***************************************************************************)
EXTENDS Integers, Sequences, SequencesExt

CONSTANTS
  Path,      (* the files                                                   *)
  NoPath,    (* an argument that cannot be converted; nt_path while empty   *)
  Datum,     (* what a byte can be                                          *)
  Handle,    (* the handles there can be                                    *)
  NoHandle,  (* 0, which is no handle                                       *)
  BUFSZ,     (* the buffer                                                  *)
  Disks,     (* the contents of the existing files, at the start            *)
  Args,      (* the command lines: the output, then the inputs              *)
  MaxFails   (* reads and writes that fail, at most                         *)

ASSUME HandleAssumption == NoHandle \notin Handle
ASSUME PathAssumption == NoPath \notin Path
ASSUME BufferAssumption == BUFSZ \in Nat \ {0} /\ MaxFails \in Nat
ASSUME StartAssumption  ==
  /\ \A d \in Disks : DOMAIN d \subseteq Path /\ d \in [DOMAIN d -> Seq(Datum)]
  /\ Args \subseteq Seq(Path \cup {NoPath}) /\ \A a \in Args : a # << >>

VARIABLES
  files,     (* the contents of the files that exist                        *)
  args,      (* the command line                                            *)
  granted,   (* the output can be opened for writing                        *)
  pc,        (* "start", "next", "copy" or "exit"                           *)
  arg,       (* the input being copied, or the one next_token comes to      *)
  handles,   (* the open handles: the file, the rights, the position    *)
  nt_path,   (* what was last converted                                     *)
  g_handle,  (* NtCreateFile's out-parameter                                *)
  in_handle,
  out_handle,
  fails,     (* reads and writes that have failed                           *)
  lost       (* history: a byte of an input was passed over                 *)

start == <<args, granted>>
vars  == <<files, start, pc, arg, handles, nt_path, g_handle, in_handle,
           out_handle, fails, lost>>

-----------------------------------------------------------------------------
Output == args[1]

(* Opened with that right, and still open. *)
IsOpen(h, right) == h \in DOMAIN handles /\ right \in handles[h].rights

Content(h) == files[handles[h].path]
Rest(h)    == Len(Content(h)) - handles[h].off

(* One more open handle, of a number that is not in use. *)
Opens(path, rights) == \E h \in Handle \ DOMAIN handles :
  /\ g_handle' = h
  /\ handles' = [k \in DOMAIN handles \cup {h} |->
       IF k = h THEN [path |-> path, rights |-> rights, off |-> 0] ELSE handles[k]]

Closes(h) == handles' = [k \in DOMAIN handles \ {h} |-> handles[k]]

FailsToOpen == UNCHANGED <<handles, g_handle>>

(* ShareAccess is FILE_SHARE_READ: a file open for writing cannot be opened *)
(* again.                                                                  *)
Shareable(path) == \A k \in DOMAIN handles :
  handles[k].path = path => "write" \notin handles[k].rights

MayFail == fails < MaxFails /\ fails' = fails + 1

(* OBJECT_ATTRIBUTES.ObjectName is &nt_path, converted or not. *)
NtPath(a) == IF a = NoPath THEN nt_path ELSE a

(* open_file without check_status returns g_handle, opened or not. *)
CheckedHandle(ok) == IF ok THEN g_handle' ELSE NoHandle            \* mutant
OpenedHandle(ok)  == g_handle'

(* The output is opened first, and emptied, or created. *)
OpenOutput ==
  /\ pc = "start" /\ pc' = "next" /\ nt_path' = NtPath(Output)
  /\ \/ /\ granted /\ Opens(Output, {"write"})
        /\ files' = [p \in DOMAIN files \cup {Output} |->
                       IF p = Output THEN << >> ELSE files[p]]
     \/ ~granted /\ FailsToOpen /\ UNCHANGED files
  /\ out_handle' = OpenedHandle(granted)
  /\ UNCHANGED <<start, arg, in_handle, fails, lost>>

(* GENERIC_READ, FILE_OPEN: the file has to exist. *)
BothAccess == {"read", "write"}                                    \* mutant
ReadAccess == {"read"}

NextInput ==
  /\ pc = "next" /\ arg < Len(args) /\ pc' = "copy"
  /\ LET path == NtPath(args[arg + 1])
         can  == path \in DOMAIN files /\ Shareable(path)
     IN  /\ nt_path' = path
         /\ \/ can /\ Opens(path, ReadAccess)
            \/ ~can /\ FailsToOpen
         /\ in_handle' = OpenedHandle(can)
  /\ UNCHANGED <<files, start, arg, out_handle, fails, lost>>

(* iosb_info, the bytes actually read. *)
WholeBuffer == BUFSZ                                               \* mutant
Count       == IF Rest(in_handle) < BUFSZ THEN Rest(in_handle) ELSE BUFSZ

(***************************************************************************)
(* A buffer is read and written.  A write that fails, because of the disk  *)
(* or because out_handle is no handle open for writing, is not noticed and *)
(* the next one goes to the same place.                                    *)
(***************************************************************************)
Copy ==
  /\ pc = "copy" /\ IsOpen(in_handle, "read") /\ Rest(in_handle) > 0
  /\ LET from  == handles[in_handle].off
         piece == SubSeq(Content(in_handle), from + 1, from + Count)
     IN  /\ handles' = [handles EXCEPT ![in_handle].off = from + Count]
         /\ \/ /\ IsOpen(out_handle, "write")
               /\ files' = [files EXCEPT ![handles[out_handle].path] = @ \o piece]
               /\ UNCHANGED <<fails, lost>>
            \/ /\ IF IsOpen(out_handle, "write") THEN MayFail
                                                 ELSE UNCHANGED fails
               /\ lost' = TRUE
               /\ UNCHANGED files
  /\ UNCHANGED <<start, pc, arg, nt_path, g_handle, in_handle, out_handle>>

(***************************************************************************)
(* A read that fails is the end of the input, whatever made it fail: a     *)
(* handle that is not open for reading, the end of the file, the disk.     *)
(***************************************************************************)
EndOfFile  == IsOpen(in_handle, "read") /\ Rest(in_handle) = 0    \* mutant
CannotRead  == IsOpen(in_handle, "read") => Rest(in_handle) = 0

CloseInput ==
  /\ pc = "copy" /\ pc' = "next"
  /\ \/ CannotRead /\ UNCHANGED <<fails, lost>>
     \/ ~CannotRead /\ MayFail /\ lost' = TRUE
  /\ Closes(in_handle)
  /\ arg' = arg + 1
  /\ UNCHANGED <<files, start, nt_path, g_handle, in_handle, out_handle>>

Finish ==
  /\ pc = "next" /\ arg = Len(args) /\ pc' = "exit"
  /\ Closes(out_handle)
  /\ UNCHANGED <<files, start, arg, nt_path, g_handle, in_handle, out_handle,
                 fails, lost>>

Init ==
  /\ files \in Disks /\ args \in Args
  /\ granted \in BOOLEAN /\ (granted => Output # NoPath)
  /\ pc = "start" /\ arg = 1 /\ nt_path = NoPath
  /\ handles = [h \in {} |-> << >>]
  /\ g_handle = NoHandle /\ in_handle = NoHandle /\ out_handle = NoHandle
  /\ fails = 0 /\ lost = FALSE

Next == OpenOutput \/ NextInput \/ Copy \/ CloseInput \/ Finish

Spec == Init /\ [][Next]_vars

(* catm is one thread that never waits: it runs until it exits. *)
FairSpec == Spec /\ WF_vars(Next)

-----------------------------------------------------------------------------
(* Properties. *)

OpenFile == [path : DOMAIN files, rights : {{"read"}, {"write"}}, off : Nat]

TypeOK ==
  /\ DOMAIN files \subseteq Path /\ files \in [DOMAIN files -> Seq(Datum)]
  /\ args \in Seq(Path \cup {NoPath}) /\ args # << >>
  /\ granted \in BOOLEAN /\ (granted => Output \in Path)
  /\ pc \in {"start", "next", "copy", "exit"}
  /\ arg \in 1 .. Len(args) /\ (pc = "copy" => arg < Len(args))
  /\ DOMAIN handles \subseteq Handle /\ handles \in [DOMAIN handles -> OpenFile]
  /\ \A h \in DOMAIN handles : Rest(h) >= 0
  /\ nt_path \in Path \cup {NoPath}
  /\ {g_handle, in_handle, out_handle} \subseteq Handle \cup {NoHandle}
  /\ fails \in Nat /\ fails <= MaxFails /\ lost \in BOOLEAN

(***************************************************************************)
(* Whatever numbers handles are given, and whichever are closed too early, *)
(* nothing is ever written to a file but the one named first.              *)
(***************************************************************************)
OnlyTheOutput ==
  [][\A p \in DOMAIN files \ {Output} : files'[p] = files[p]]_files

(* The file that argument i stands for: the one it names or, when it cannot *)
(* be converted, the one the last argument before it that can be names.    *)
Named(i) ==
  LET converted == {k \in 1 .. i : args[k] # NoPath}
  IN  IF converted = {} THEN NoPath ELSE args[Max(converted)]

(* The file as it stood when catm started, or nothing. *)
Source(p) == IF p \notin DOMAIN files \/ (p = Output /\ granted)
               THEN << >> ELSE files[p]

Sources == [i \in 1 .. Len(args) - 1 |-> Source(Named(i + 1))]

(* Can the argument's file be opened for reading, being its turn? *)
Present(i) == Named(i) \in DOMAIN files /\ (Named(i) = Output => ~granted)

(***************************************************************************)
(* What an argument costs that is missing or cannot be converted, when     *)
(* nothing else goes wrong.  The first input costs everything: in_handle   *)
(* is then the output's handle, which close_input closes.  Any other, if   *)
(* it is missing, costs itself; if it cannot be converted, the file before *)
(* it is there once more in its place.                                     *)
(***************************************************************************)
WhatMissingCosts ==
  (pc = "exit" /\ fails = 0 /\ granted) =>
    files[Output] = IF Len(args) > 1 /\ ~Present(2)
                      THEN << >> ELSE FlattenSeq(Sources)

Written == IF granted /\ pc # "start" THEN files[Output] ELSE << >>

Passed == IF pc = "copy" /\ IsOpen(in_handle, "read")
            THEN handles[in_handle].off ELSE 0

Concat == INSTANCE ConcatSpec WITH source <- Sources, off <- Passed,
                                   output <- Written

(***************************************************************************)
(* Whatever fails, catm writes for each argument in turn bytes of its file *)
(* in their order and each at most once, and nothing else.  A file is read *)
(* once for each argument that stands for it: an argument that cannot be   *)
(* converted stands for the file before it.                                *)
(***************************************************************************)
ImplementsConcat == Concat!Spec
=============================================================================
