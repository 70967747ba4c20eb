-------------------------------- MODULE Fork --------------------------------
(***************************************************************************)
(* fork without a fork: the parent starts its own program again, lets the  *)
(* copy run its startup under a flag that keeps it out of main, and        *)
(* overwrites it with itself.                                              *)
(*                                                                         *)
(* The child's half is _start, _start_park, __fork_setjmp and the words    *)
(* they share, in x86/libc-core.M1.  The parent's half is fork in          *)
(* M2libc's x86/windows/process.c, which the repository names and uses but *)
(* does not hold: it is modelled from libc-core.M1's comments beside those *)
(* words, the README's account and the fork tests, and is external.        *)
(***************************************************************************)
EXTENDS Integers, Sequences

CONSTANTS
  Proc,      (* process identifiers, positive                               *)
  Root,      (* the process a user started                                  *)
  Handle,    (* file handles                                                *)
  Pages,     (* pages in the stack reservation (SizeOfStackReserve)         *)
  MaxForks,  (* bound: forks along one line of descent                      *)
  Unsteady   (* whether calls may fail and processes be killed              *)

ASSUME ProcAssumption  == Proc \subseteq Nat \ {0} /\ Root \in Proc
ASSUME BoundAssumption == Pages \in Nat \ {0} /\ MaxForks \in Nat
ASSUME UnsteadyAssumption == Unsteady \in BOOLEAN

VARIABLES
  life,      (* "unused", "suspended", "running" or "dead"                  *)
  at,        (* where the process's thread stands                           *)
  eax,       (* what a call it is in has for it                             *)
  kernel,    (* whether it stands inside a system call                      *)
  mem,       (* its image: code, globals and heap                           *)
  stk,       (* its stack                                                   *)
  handles,   (* the handles the kernel holds for it                         *)
  child,     (* the process its last fork was making, None before           *)
  released   (* history: fork has let it go                                 *)

thread == <<at, eax, kernel>>
vars   == <<life, thread, mem, stk, handles, child, released>>

None == 0

(***************************************************************************)
(* The image of a program just loaded: both words of the handshake are     *)
(* NULL.  log stands for the globals and the heap, fds for the handles the *)
(* program remembers.                                                      *)
(***************************************************************************)
Fresh == [flag |-> 0, parked |-> 0, eip |-> "none", log |-> << >>, fds |-> {}]

(***************************************************************************)
(* A stack: its frames hold what the callers of fork keep in locals (log); *)
(* some of its pages are committed, and it grows when the page below those *)
(* is the guard page.                                                      *)
(***************************************************************************)
NewStack == [log |-> << >>, committed |-> 1, guard |-> TRUE]

Startup == {"loader", "start", "flagtest"}
Making  == {"spawn", "flag", "resume", "poll", "suspend", "commit",
            "copyimage", "copystack", "context", "release"}

Runs(p, where) == life[p] = "running" /\ at[p] = where /\ ~kernel[p]

Moves(p, where) == at' = [at EXCEPT ![p] = where]

-----------------------------------------------------------------------------
(* A process starting: loader init, then _start. *)

(* Each of the two makes system calls; LeaveKernel is the way out of one.  *)
LoaderInit(c) ==
  /\ Runs(c, "loader")
  /\ kernel' = [kernel EXCEPT ![c] = TRUE]
  /\ Moves(c, "start")
  /\ UNCHANGED <<life, eax, mem, stk, handles, child, released>>

(* resolve_all and __libc_init. *)
StartUp(c) ==
  /\ Runs(c, "start")
  /\ kernel' = [kernel EXCEPT ![c] = TRUE]
  /\ Moves(c, "flagtest")
  /\ UNCHANGED <<life, eax, mem, stk, handles, child, released>>

(* A call's status lands in EAX on the way out of the kernel. *)
LeaveKernel(c) ==
  /\ life[c] = "running" /\ kernel[c]
  /\ kernel' = [kernel EXCEPT ![c] = FALSE]
  /\ eax' = [eax EXCEPT ![c] = 1]
  /\ UNCHANGED <<life, at, mem, stk, handles, child, released>>

AlwaysMain(c) == "main"                                            \* mutant
Branch(c)     == IF mem[c].flag = 0 THEN "main" ELSE "park"

(* _start tests __fork_child_flag. *)
FlagTest(c) ==
  /\ Runs(c, "flagtest")
  /\ Moves(c, Branch(c))
  /\ UNCHANGED <<life, eax, kernel, mem, stk, handles, child, released>>

SleepsParked(c) == TRUE                                            \* mutant
CallsParked(c)  == FALSE

(* _start_park: the word is written again on every turn of the spin. *)
Park(c) ==
  /\ Runs(c, "park")
  /\ mem' = [mem EXCEPT ![c].parked = 1]
  /\ kernel' = [kernel EXCEPT ![c] = CallsParked(c)]
  /\ UNCHANGED <<life, at, eax, stk, handles, child, released>>

-----------------------------------------------------------------------------
(* The program: it opens files, calls deeply, forks, ends. *)

OpenFile(p, h) ==
  /\ Runs(p, "main") /\ h \notin handles[p]
  /\ handles' = [handles EXCEPT ![p] = @ \cup {h}]
  /\ mem' = [mem EXCEPT ![p].fds = @ \cup {h}]
  /\ UNCHANGED <<life, thread, stk, child, released>>

(* A call that reaches the page below the committed ones: the guard page   *)
(* is committed and moves down, or, without one, the access faults.        *)
Recurse(p) ==
  /\ Runs(p, "main") /\ stk[p].committed < Pages
  /\ IF stk[p].guard
       THEN /\ stk' = [stk EXCEPT ![p].committed = @ + 1]
            /\ UNCHANGED at
       ELSE /\ Moves(p, "fault")
            /\ UNCHANGED stk
  /\ UNCHANGED <<life, eax, kernel, mem, handles, child, released>>

AimInside == "inside"                                              \* mutant
AimCaller == "caller"

(* fork begins with __fork_setjmp. *)
CallFork(p) ==
  /\ Runs(p, "main") /\ Len(mem[p].log) < MaxForks
  /\ mem' = [mem EXCEPT ![p].eip = AimCaller]
  /\ Moves(p, "spawn")
  /\ UNCHANGED <<life, eax, kernel, stk, handles, child, released>>

(* Both sides come back from fork: the result goes into memory and locals. *)
Return(p) ==
  /\ Runs(p, "caller")
  /\ mem' = [mem EXCEPT ![p].log = Append(@, eax[p])]
  /\ stk' = [stk EXCEPT ![p].log = Append(@, eax[p])]
  /\ Moves(p, "main")
  /\ UNCHANGED <<life, eax, kernel, handles, child, released>>

(* __exit, or the process is killed from outside wherever it stands. *)
End(p) ==
  /\ \/ Runs(p, "main")
     \/ Unsteady /\ life[p] \in {"running", "suspended"}
  /\ life' = [life EXCEPT ![p] = "dead"]
  /\ UNCHANGED <<thread, mem, stk, handles, child, released>>

-----------------------------------------------------------------------------
(* fork, in the parent (external). *)

(* The steps that act on a child that is there. *)
Making1(p, stage, next) ==
  /\ Runs(p, stage) /\ life[child[p]] # "dead"
  /\ Moves(p, next)

InheritNone(p) == {}                                               \* mutant
Inherited(p)   == handles[p]

Spawn(p) ==
  /\ Runs(p, "spawn")
  /\ \E c \in Proc :
       /\ life[c] = "unused"
       /\ child' = [child EXCEPT ![p] = c]
       /\ life' = [life EXCEPT ![c] = "suspended"]
       /\ handles' = [handles EXCEPT ![c] = Inherited(p)]
  /\ Moves(p, "flag")
  /\ UNCHANGED <<eax, kernel, mem, stk, released>>

WriteFlag(p) ==
  /\ Making1(p, "flag", "resume")
  /\ mem' = [mem EXCEPT ![child[p]].flag = 1]
  /\ UNCHANGED <<life, eax, kernel, stk, handles, child, released>>

Resume(p) ==
  /\ Making1(p, "resume", "poll")
  /\ life' = [life EXCEPT ![child[p]] = "running"]
  /\ UNCHANGED <<eax, kernel, mem, stk, handles, child, released>>

PollFlag(p)     == mem[child[p]].flag = 0                          \* mutant
SaysParked(p)   == mem[child[p]].parked = 1

(* Reading __fork_parked out of the child until it is set. *)
Poll(p) ==
  /\ Making1(p, "poll", "suspend") /\ SaysParked(p)
  /\ UNCHANGED <<life, eax, kernel, mem, stk, handles, child, released>>

Suspend(p) ==
  /\ Making1(p, "suspend", "commit")
  /\ life' = [life EXCEPT ![child[p]] = "suspended"]
  /\ UNCHANGED <<eax, kernel, mem, stk, handles, child, released>>

CommitSame(p)    == stk[p].committed                               \* mutant
CommitBeyond(p)  == Pages + 1                                      \* mutant
CommitReserve(p) == Pages

CommitStack(p) ==
  /\ Making1(p, "commit", "copyimage")
  /\ stk' = [stk EXCEPT ![child[p]].committed = CommitReserve(p)]
  /\ UNCHANGED <<life, eax, kernel, mem, handles, child, released>>

(* From 0x401000 to the top of the heap. *)
CopyImage(p) ==
  /\ Making1(p, "copyimage", "copystack")
  /\ mem' = [mem EXCEPT ![child[p]] = mem[p]]
  /\ UNCHANGED <<life, eax, kernel, stk, handles, child, released>>

OwnFrames(p)    == stk[child[p]].log                               \* mutant
CopiedFrames(p) == stk[p].log

(* The parent's committed stack goes over the child's guard page.          *)
CopyStack(p) ==
  /\ Making1(p, "copystack", "context")
  /\ stk' = [stk EXCEPT ![child[p]].log = CopiedFrames(p),
                        ![child[p]].guard = FALSE]
  /\ UNCHANGED <<life, eax, kernel, mem, handles, child, released>>

SetContext(p) ==
  /\ Runs(p, "context") /\ life[child[p]] # "dead"
  /\ at' = [at EXCEPT ![p] = "release", ![child[p]] = mem[p].eip]
  /\ eax' = [eax EXCEPT ![child[p]] = 0]
  /\ UNCHANGED <<life, kernel, mem, stk, handles, child, released>>

Release(p) ==
  /\ Making1(p, "release", "caller")
  /\ life' = [life EXCEPT ![child[p]] = "running"]
  /\ eax' = [eax EXCEPT ![p] = child[p]]
  /\ released' = [released EXCEPT ![child[p]] = TRUE]
  /\ UNCHANGED <<kernel, mem, stk, handles, child>>

(* No process to be had, or the child has died under the parent's hands. *)
Stuck(p) ==
  \/ at[p] = "spawn" /\ \A c \in Proc : life[c] # "unused"
  \/ at[p] \in Making \ {"spawn"} /\ life[child[p]] = "dead"

(* A call of fork's failed: fork returns -1.  Whether the half-made child  *)
(* is ended or left where it stands is not said; both happen here.         *)
Fail(p) ==
  /\ at[p] \in Making /\ Runs(p, at[p])
  /\ Unsteady \/ Stuck(p)
  /\ Moves(p, "caller")
  /\ eax' = [eax EXCEPT ![p] = -1]
  /\ \/ UNCHANGED life
     \/ at[p] # "spawn" /\ life' = [life EXCEPT ![child[p]] = "dead"]
  /\ UNCHANGED <<kernel, mem, stk, handles, child, released>>

-----------------------------------------------------------------------------
Init ==
  /\ life = [p \in Proc |-> IF p = Root THEN "running" ELSE "unused"]
  /\ at = [p \in Proc |-> "loader"]
  /\ eax = [p \in Proc |-> 0]
  /\ kernel = [p \in Proc |-> FALSE]
  /\ mem = [p \in Proc |-> Fresh]
  /\ stk = [p \in Proc |-> NewStack]
  /\ handles = [p \in Proc |-> {}]
  /\ child = [p \in Proc |-> None]
  /\ released = [p \in Proc |-> p = Root]

(* What a thread does once it has begun it. *)
Starts(p) == LoaderInit(p) \/ StartUp(p) \/ LeaveKernel(p) \/ FlagTest(p) \/ Park(p)

Forks(p) ==
  \/ Spawn(p) \/ WriteFlag(p) \/ Resume(p) \/ Poll(p) \/ Suspend(p)
  \/ CommitStack(p) \/ CopyImage(p) \/ CopyStack(p) \/ SetContext(p)
  \/ Release(p) \/ Return(p)

Chooses(p) ==
  \/ CallFork(p) \/ Recurse(p) \/ End(p)
  \/ \E h \in Handle : OpenFile(p, h)

Next == \E p \in Proc : Starts(p) \/ Forks(p) \/ Fail(p) \/ Chooses(p)

Spec == Init /\ [][Next]_vars

(***************************************************************************)
(* The scheduler runs every thread that can run, so what a thread has      *)
(* begun it goes on with.  What the program chooses to do is not promised, *)
(* nor is a failure, except that a parent that cannot go on is told so.    *)
(***************************************************************************)
Fairness == \A p \in Proc : /\ WF_vars(Starts(p))
                           /\ WF_vars(Forks(p) \/ (Stuck(p) /\ Fail(p)))

FairSpec == Spec /\ Fairness

-----------------------------------------------------------------------------
(* Properties. *)

Copying == {"commit", "copyimage", "copystack", "context", "release"}

Where == Startup \cup {"park", "main", "caller", "inside", "fault", "none"}
           \cup Making

Result == {-1, 0, 1} \cup Proc
Image  == [flag : {0, 1}, parked : {0, 1}, eip : {"none", "caller", "inside"},
           log : Seq(Result), fds : SUBSET Handle]
Stack  == [log : Seq(Result), committed : 1 .. Pages, guard : BOOLEAN]

TypeOK ==
  /\ life \in [Proc -> {"unused", "suspended", "running", "dead"}]
  /\ at \in [Proc -> Where]
  /\ eax \in [Proc -> Result]
  /\ kernel \in [Proc -> BOOLEAN]
  /\ mem \in [Proc -> Image]
  /\ stk \in [Proc -> Stack]
  /\ handles \in [Proc -> SUBSET Handle]
  /\ child \in [Proc -> Proc \cup {None}]
  /\ released \in [Proc -> BOOLEAN]

(***************************************************************************)
(* Only a process fork has let go runs the program: a copy still being     *)
(* made never enters main, whichever of its parent's calls fails and       *)
(* whenever its parent dies.                                               *)
(***************************************************************************)
OnlyReleasedRunMain ==
  \A p \in Proc :
    (life[p] = "running" /\ at[p] \notin Startup \cup {"park"}) => released[p]

(***************************************************************************)
(* What fork overwrites stands still: while its image, stack and context   *)
(* are written the child is suspended, out of its startup, and in user     *)
(* mode, where no call's status can come back over the EAX it is given.    *)
(***************************************************************************)
StillWhileCopied ==
  \A p \in Proc :
    (/\ life[p] = "running" /\ at[p] \in Copying
     /\ life[child[p]] # "dead")
    => /\ life[child[p]] = "suspended"
       /\ at[child[p]] \in (IF at[p] = "release" THEN {"caller"} ELSE {"park"})
       /\ ~kernel[child[p]]

(***************************************************************************)
(* The image and the stack are copied one after the other, and still the   *)
(* locals of a running program belong with its globals.                    *)
(***************************************************************************)
HalvesAgree ==
  \A p \in Proc : released[p] /\ life[p] = "running" => mem[p].log = stk[p].log

(***************************************************************************)
(* A descriptor a program remembers is a handle it holds, across fork: the *)
(* child was started with its parent's handles before it was given its     *)
(* parent's memory (open_file asks for OBJ_INHERIT).                       *)
(***************************************************************************)
DescriptorsOpen ==
  \A p \in Proc : released[p] => mem[p].fds \subseteq handles[p]

(***************************************************************************)
(* No program dies of calling deeply inside its stack reservation, however *)
(* many forks lie behind it.                                               *)
(***************************************************************************)
StackGrows == \A p \in Proc : at[p] # "fault"

(***************************************************************************)
(* Every call of fork comes back, to a program still running: the child    *)
(* parks, or the parent is told it cannot have one.                        *)
(***************************************************************************)
ForkComesBack ==
  \A p \in Proc : at[p] = "spawn" ~> (at[p] = "main" \/ life[p] = "dead")

(***************************************************************************)
(* fork is ForkSpec's fork: a child comes into being in one step, when it  *)
(* is let go, with its parent's log and a 0 where its parent has its pid;  *)
(* a fork that fails leaves no child behind that runs the program.         *)
(***************************************************************************)
AbsState == [p \in Proc |-> IF ~released[p] THEN "none"
                            ELSE IF life[p] = "dead" THEN "gone" ELSE "running"]
AbsLog == [p \in Proc |-> IF ~released[p] THEN << >>
                          ELSE IF at[p] = "caller" THEN Append(mem[p].log, eax[p])
                          ELSE mem[p].log]

Promise == INSTANCE ForkSpec WITH state <- AbsState, log <- AbsLog

ImplementsFork == Promise!Spec
=============================================================================
