----------------------------- MODULE ForkProofs -----------------------------
(***************************************************************************)
(* fork, for any set of processes, any number of forks and any failures.   *)
(*                                                                         *)
(* The invariant follows the process being made.  Until it is let go it is *)
(* in its startup, parked, or aimed at fork's caller and suspended         *)
(* (Unmade); while its parent is at a stage of fork it is where that stage *)
(* needs it (Stage), unless it has died; and no two parents make the same  *)
(* child (Owner).  Descriptors (Inherits) and stacks (Room) have           *)
(* invariants of their own, which rest on it.                              *)
(***************************************************************************)
EXTENDS Fork, TLAPS

(* The stages of fork at which there is a child. *)
MakingChild == Making \ {"spawn"}

Started(c) == life[c] # "unused"
Gone(c)    == life[c] = "dead"

(* A process not yet let go. *)
Unmade ==
  \A c \in Proc : ~released[c] =>
    /\ at[c] \in Startup \cup {"park", "caller"}
    /\ life[c] = "unused" => mem[c] = Fresh /\ at[c] = "loader"
    /\ life[c] = "running" => mem[c].flag = 1 /\ at[c] # "caller"
    /\ at[c] \in Startup => mem[c].parked = 0

(* A system call is in progress only during startup. *)
InKernel == \A p \in Proc : kernel[p] => at[p] \in {"start", "flagtest"}

(* A program that has been let go is never suspended, and the word that    *)
(* says where fork returns to is set before fork does anything else.       *)
Made ==
  \A p \in Proc :
    /\ released[p] => life[p] \in {"running", "dead"}
    /\ at[p] \in Making => mem[p].eip = "caller" /\ released[p]

Owner ==
  /\ \A p \in Proc : at[p] \in MakingChild =>
       child[p] \in Proc /\ ~released[child[p]] /\ Started(child[p])
  /\ \A p, q \in Proc :
       (p # q /\ at[p] \in MakingChild /\ at[q] \in MakingChild)
         => child[p] # child[q]

(* What each stage of fork finds in the child it is making. *)
StageOf(p) ==
  at[p] \in MakingChild /\ ~Gone(child[p]) =>
    LET c == child[p] IN
    /\ at[p] \in {"flag", "resume"} => life[c] = "suspended" /\ at[c] = "loader"
    /\ at[p] = "resume" => mem[c].flag = 1
    /\ at[p] \in {"poll", "suspend"} => life[c] = "running"
    /\ at[p] = "suspend" => at[c] = "park"
    /\ at[p] \in Copying => life[c] = "suspended"
    /\ at[p] \in Copying \ {"release"} => at[c] = "park"
    /\ at[p] = "release" => at[c] = "caller" /\ eax[c] = 0
    /\ at[p] \in {"copystack", "context", "release"} => mem[c].log = mem[p].log
    /\ at[p] \in {"context", "release"} => stk[c].log = stk[p].log

Stage == \A p \in Proc : StageOf(p)

Handshake == Unmade /\ InKernel /\ Made /\ Owner /\ Stage /\ HalvesAgree

IInv == TypeOK /\ Handshake

-----------------------------------------------------------------------------
(* Type correctness. *)

(* Every write the actions make to an image or a stack leaves it one. *)
LEMMA ImageUpdates ==
  ASSUME NEW m \in Image
  PROVE  /\ [m EXCEPT !.flag = 1] \in Image
         /\ [m EXCEPT !.parked = 1] \in Image
         /\ [m EXCEPT !.eip = "caller"] \in Image
         /\ \A h \in Handle : [m EXCEPT !.fds = m.fds \cup {h}] \in Image
         /\ \A r \in Result : [m EXCEPT !.log = Append(m.log, r)] \in Image
<1>1. \A r \in Result : Append(m.log, r) \in Seq(Result)
  BY DEF Image
<1>2. \A h \in Handle : m.fds \cup {h} \in SUBSET Handle
  BY DEF Image
<1>3. QED
  BY <1>1, <1>2 DEF Image

LEMMA StackUpdates ==
  ASSUME NEW s \in Stack
  PROVE  /\ [s EXCEPT !.committed = Pages] \in Stack
         /\ s.committed < Pages =>
              [s EXCEPT !.committed = s.committed + 1] \in Stack
         /\ \A t \in Stack : [s EXCEPT !.log = t.log, !.guard = FALSE] \in Stack
         /\ \A r \in Result : [s EXCEPT !.log = Append(s.log, r)] \in Stack
<1>1. \A r \in Result : Append(s.log, r) \in Seq(Result)
  BY DEF Stack
<1>2. s.committed \in 1 .. Pages /\ Pages \in 1 .. Pages
  BY BoundAssumption DEF Stack
<1>3. s.committed < Pages => s.committed + 1 \in 1 .. Pages
  BY <1>2, BoundAssumption
<1>4. QED
  BY <1>1, <1>2, <1>3 DEF Stack

LEMMA FreshType == Fresh \in Image /\ NewStack \in Stack
BY BoundAssumption DEF Fresh, NewStack, Image, Stack, Result

(* A step of startup writes at most the parked word of its own image. *)
LEMMA StartsType ==
  ASSUME TypeOK, NEW p \in Proc, Starts(p)
  PROVE  TypeOK'
<1> USE DEF TypeOK, Runs, Moves
<1>1. CASE LoaderInit(p)
  BY <1>1 DEF LoaderInit, Where, Startup
<1>2. CASE StartUp(p)
  BY <1>2 DEF StartUp, Where, Startup
<1>3. CASE LeaveKernel(p)
  BY <1>3 DEF LeaveKernel, Result
<1>4. CASE FlagTest(p)
  BY <1>4 DEF FlagTest, Branch, Where
<1>5. CASE Park(p)
  <2>1. [mem[p] EXCEPT !.parked = 1] \in Image
    BY ImageUpdates
  <2>2. mem' = [mem EXCEPT ![p] = [mem[p] EXCEPT !.parked = 1]]
    BY <1>5 DEF Park
  <2>3. QED
    BY <1>5, <2>1, <2>2 DEF Park, CallsParked
<1>6. QED
  BY <1>1, <1>2, <1>3, <1>4, <1>5 DEF Starts

LEMMA ChoosesType ==
  ASSUME TypeOK, NEW p \in Proc, Chooses(p)
  PROVE  TypeOK'
<1> USE DEF TypeOK, Runs, Moves
<1>1. CASE CallFork(p)
  <2>1. [mem[p] EXCEPT !.eip = "caller"] \in Image
    BY ImageUpdates
  <2>2. mem' = [mem EXCEPT ![p] = [mem[p] EXCEPT !.eip = "caller"]]
    BY <1>1 DEF CallFork, AimCaller
  <2>3. QED
    BY <1>1, <2>1, <2>2 DEF CallFork, Where, Making
<1>2. CASE Recurse(p)
  <2>2. stk[p].committed < Pages
          => [stk[p] EXCEPT !.committed = stk[p].committed + 1] \in Stack
    BY StackUpdates
  <2>3. CASE stk[p].guard
    <3>1. stk' = [stk EXCEPT ![p] =
                    [stk[p] EXCEPT !.committed = stk[p].committed + 1]]
      BY <1>2, <2>3 DEF Recurse
    <3>2. QED
      BY <1>2, <2>2, <2>3, <3>1 DEF Recurse
  <2>4. CASE ~stk[p].guard
    BY <1>2, <2>4 DEF Recurse, Where
  <2>5. QED
    BY <2>3, <2>4
<1>3. CASE End(p)
  BY <1>3 DEF End, thread
<1>4. ASSUME NEW h \in Handle, OpenFile(p, h) PROVE TypeOK'
  <2>1. [mem[p] EXCEPT !.fds = mem[p].fds \cup {h}] \in Image
    BY ImageUpdates
  <2>2. mem' = [mem EXCEPT ![p] = [mem[p] EXCEPT !.fds = mem[p].fds \cup {h}]]
    BY <1>4 DEF OpenFile
  <2>3. handles' \in [Proc -> SUBSET Handle]
    BY <1>4 DEF OpenFile
  <2>4. QED
    BY <1>4, <2>1, <2>2, <2>3 DEF OpenFile, thread
<1>5. QED
  BY <1>1, <1>2, <1>3, <1>4 DEF Chooses

LEMMA FailType ==
  ASSUME TypeOK, NEW p \in Proc, Fail(p)
  PROVE  TypeOK'
BY DEF TypeOK, Fail, Moves, Where, Result

(* The stages of fork, given that there is a child where one is needed. *)
LEMMA ForksType ==
  ASSUME TypeOK, NEW p \in Proc, Forks(p),
         at[p] \in MakingChild => child[p] \in Proc
  PROVE  TypeOK'
<1> USE DEF TypeOK, Runs, Moves, Making1
<1> DEFINE c == child[p]
<1>0. at[p] \in MakingChild => mem[c] \in Image /\ stk[c] \in Stack
  OBVIOUS
<1>1. CASE Spawn(p)
  BY <1>1 DEF Spawn, Inherited, Where, Making
<1>2. CASE WriteFlag(p)
  <2>1. c \in Proc /\ [mem[c] EXCEPT !.flag = 1] \in Image
    BY <1>0, <1>2, ImageUpdates DEF WriteFlag, MakingChild, Making
  <2>2. mem' = [mem EXCEPT ![c] = [mem[c] EXCEPT !.flag = 1]]
    BY <1>2 DEF WriteFlag
  <2>3. QED
    BY <1>2, <2>1, <2>2 DEF WriteFlag, Where, Making
<1>3. CASE Resume(p)
  BY <1>3 DEF Resume, MakingChild, Where, Making
<1>4. CASE Poll(p)
  BY <1>4 DEF Poll, Where, Making
<1>5. CASE Suspend(p)
  BY <1>5 DEF Suspend, MakingChild, Where, Making
<1>6. CASE CommitStack(p)
  <2>1. c \in Proc /\ [stk[c] EXCEPT !.committed = Pages] \in Stack
    BY <1>0, <1>6, StackUpdates DEF CommitStack, MakingChild, Making
  <2>2. stk' = [stk EXCEPT ![c] = [stk[c] EXCEPT !.committed = Pages]]
    BY <1>6 DEF CommitStack, CommitReserve
  <2>3. QED
    BY <1>6, <2>1, <2>2 DEF CommitStack, Where, Making
<1>7. CASE CopyImage(p)
  BY <1>7 DEF CopyImage, MakingChild, Where, Making
<1>8. CASE CopyStack(p)
  <2>1. c \in Proc /\ stk[p] \in Stack /\ stk[c] \in Stack
    BY <1>0, <1>8 DEF CopyStack, MakingChild, Making
  <2>2. [stk[c] EXCEPT !.log = stk[p].log, !.guard = FALSE] \in Stack
    BY <2>1, StackUpdates
  <2>3. stk' = [stk EXCEPT ![c] =
                  [stk[c] EXCEPT !.log = stk[p].log, !.guard = FALSE]]
    BY <1>8 DEF CopyStack, CopiedFrames
  <2>4. stk' \in [Proc -> Stack]
    BY <2>1, <2>2, <2>3
  <2>5. at' \in [Proc -> Where]
        /\ UNCHANGED <<life, eax, kernel, mem, handles, child, released>>
    BY <1>8 DEF CopyStack, Where, Making
  <2>6. QED
    BY <2>4, <2>5
<1>9. CASE SetContext(p)
  <2>1. c \in Proc /\ mem[p].eip \in Where
    BY <1>9 DEF SetContext, MakingChild, Making, Image, Where
  <2>2. QED
    BY <1>9, <2>1 DEF SetContext, Where, Making, Result
<1>10. CASE Release(p)
  BY <1>10 DEF Release, MakingChild, Where, Making, Result
<1>11. CASE Return(p)
  <2>2. /\ [mem[p] EXCEPT !.log = Append(mem[p].log, eax[p])] \in Image
        /\ [stk[p] EXCEPT !.log = Append(stk[p].log, eax[p])] \in Stack
    BY ImageUpdates, StackUpdates
  <2>3. /\ mem' = [mem EXCEPT ![p] =
                     [mem[p] EXCEPT !.log = Append(mem[p].log, eax[p])]]
        /\ stk' = [stk EXCEPT ![p] =
                     [stk[p] EXCEPT !.log = Append(stk[p].log, eax[p])]]
    BY <1>11 DEF Return
  <2>4. QED
    BY <1>11, <2>2, <2>3 DEF Return, Where
<1>12. QED
  BY <1>1, <1>2, <1>3, <1>4, <1>5, <1>6, <1>7, <1>8, <1>9, <1>10, <1>11
     DEF Forks
-----------------------------------------------------------------------------
(* The handshake is kept. *)

LEMMA StartsKeeps ==
  ASSUME IInv, NEW p \in Proc, Starts(p)
  PROVE  Handshake'
<1> USE DEF IInv, TypeOK, Handshake, Unmade, InKernel, Made, Owner, Stage, StageOf,
            HalvesAgree, Started, Gone, Runs, Moves, Startup, Making,
            MakingChild, Copying, Image, Stack
<1>1. CASE LoaderInit(p)
  BY <1>1 DEF LoaderInit
<1>2. CASE StartUp(p)
  BY <1>2 DEF StartUp
<1>3. CASE LeaveKernel(p)
  BY <1>3 DEF LeaveKernel
<1>4. CASE FlagTest(p)
  BY <1>4 DEF FlagTest, Branch
<1>5. CASE Park(p)
  BY <1>5 DEF Park, CallsParked
<1>6. QED
  BY <1>1, <1>2, <1>3, <1>4, <1>5 DEF Starts

(* A move within main, or out of it by a fault, disturbs nothing. *)
LEMMA RecurseKeeps ==
  ASSUME IInv, NEW p \in Proc, Recurse(p)
  PROVE  Handshake'
<1>1. /\ at[p] = "main"
      /\ at' = at \/ at' = [at EXCEPT ![p] = "fault"]
      /\ UNCHANGED <<life, eax, kernel, mem, handles, child, released>>
  BY DEF Recurse, Runs, Moves
<1>2. \A q \in Proc : stk'[q].log = stk[q].log
  <2>1. CASE stk[p].guard
    <3>1. stk' = [stk EXCEPT ![p] =
                    [stk[p] EXCEPT !.committed = stk[p].committed + 1]]
      BY <2>1 DEF Recurse
    <3>2. stk \in [Proc -> Stack]
      BY DEF IInv, TypeOK
    <3>3. [stk[p] EXCEPT !.committed = stk[p].committed + 1].log = stk[p].log
      BY <3>2 DEF Stack
    <3>4. QED
      BY <3>1, <3>2, <3>3
  <2>2. CASE ~stk[p].guard
    BY <2>2 DEF Recurse
  <2>3. QED
    BY <2>1, <2>2
<1>3. at \in [Proc -> Where] /\ released[p] /\ ~kernel[p]
  BY <1>1 DEF IInv, TypeOK, Handshake, Unmade, InKernel, Startup
<1>4. \A q \in Proc : at'[q] = at[q] \/ (q = p /\ at'[q] = "fault")
  BY <1>1, <1>3
<1>5. Unmade' /\ InKernel' /\ Made'
  BY <1>1, <1>3, <1>4 DEF IInv, Handshake, Unmade, InKernel, Made, Startup, Making
<1>6. Owner' /\ HalvesAgree'
  BY <1>1, <1>2, <1>4 DEF IInv, Handshake, Owner, HalvesAgree, Started, Making,
     MakingChild
<1>7. Stage'
  BY <1>1, <1>2, <1>3, <1>4
     DEF IInv, Handshake, Owner, Stage, StageOf, Gone, Making, MakingChild, Copying
<1>8. QED
  BY <1>5, <1>6, <1>7 DEF Handshake

LEMMA ChoosesKeeps ==
  ASSUME IInv, NEW p \in Proc, Chooses(p)
  PROVE  Handshake'
<1> USE DEF IInv, TypeOK, Handshake, Unmade, InKernel, Made, Owner, Stage, StageOf,
            HalvesAgree, Started, Gone, Runs, Moves, Startup, Making,
            MakingChild, Copying, Image, Stack
<1>1. CASE CallFork(p)
  <2>1. released[p]
    BY <1>1 DEF CallFork
  <2>2. mem'[p].eip = "caller"
    BY <1>1 DEF CallFork, AimCaller
  <2>3. Made'
    BY <1>1, <2>1, <2>2 DEF CallFork
  <2>4. Unmade' /\ InKernel' /\ Owner' /\ Stage' /\ HalvesAgree'
    BY <1>1 DEF CallFork, AimCaller
  <2>5. QED
    BY <2>3, <2>4
<1>2. CASE Recurse(p)
  BY <1>2, RecurseKeeps
<1>3. CASE End(p)
  BY <1>3 DEF End, thread
<1>4. ASSUME NEW h \in Handle, OpenFile(p, h) PROVE Handshake'
  BY <1>4 DEF OpenFile, thread
<1>5. QED
  BY <1>1, <1>2, <1>3, <1>4 DEF Chooses

LEMMA FailKeeps ==
  ASSUME IInv, NEW p \in Proc, Fail(p)
  PROVE  Handshake'
<1>1. /\ at[p] \in Making /\ life[p] = "running" /\ ~kernel[p]
      /\ at' = [at EXCEPT ![p] = "caller"]
      /\ eax' = [eax EXCEPT ![p] = -1]
      /\ \/ UNCHANGED life
         \/ at[p] \in MakingChild /\ life' = [life EXCEPT ![child[p]] = "dead"]
      /\ UNCHANGED <<kernel, mem, stk, child, released>>
  BY DEF Fail, Runs, Moves, MakingChild
<1>2. released[p]
  BY <1>1 DEF IInv, Handshake, Made
<1>3. /\ at \in [Proc -> Where] /\ eax \in [Proc -> Result]
      /\ life \in [Proc -> {"unused", "suspended", "running", "dead"}]
  BY DEF IInv, TypeOK
<1>4. \A q \in Proc : life'[q] = life[q] \/ (Gone(q)' /\ Started(q) /\ ~released[q])
  BY <1>1, <1>3 DEF IInv, Handshake, Owner, Gone
<1>5. \A q \in Proc : q # p => at'[q] = at[q] /\ eax'[q] = eax[q]
  BY <1>1, <1>3
<1>6. at'[p] = "caller"
  BY <1>1, <1>3
<1>7. Unmade' /\ InKernel'
  BY <1>1, <1>2, <1>4, <1>5, <1>6
     DEF IInv, Handshake, Unmade, InKernel, Gone, Started
<1>8. Made' /\ HalvesAgree'
  BY <1>1, <1>2, <1>4, <1>5, <1>6
     DEF IInv, Handshake, Made, HalvesAgree, Gone, Making
<1>9. Owner'
  BY <1>1, <1>2, <1>4, <1>5, <1>6
     DEF IInv, Handshake, Owner, Gone, Started, Making, MakingChild
<1>10. Stage'
  BY <1>1, <1>2, <1>4, <1>5, <1>6, <1>9
     DEF IInv, Handshake, Owner, Stage, StageOf, Gone, Making, MakingChild, Copying
<1>11. QED
  BY <1>7, <1>8, <1>9, <1>10 DEF Handshake

(* A child that says so is parked: it clears its startup before it says so. *)
LEMMA Parked ==
  ASSUME IInv, NEW c \in Proc, ~released[c], life[c] = "running", mem[c].parked = 1
  PROVE  at[c] = "park"
BY DEF IInv, Handshake, Unmade

LEMMA SetContextKeeps ==
  ASSUME IInv, NEW p \in Proc, SetContext(p)
  PROVE  Handshake'
<1> DEFINE c == child[p]
<1>1. /\ at[p] = "context" /\ ~Gone(c) /\ ~kernel[p]
      /\ at' = [at EXCEPT ![p] = "release", ![c] = mem[p].eip]
      /\ eax' = [eax EXCEPT ![c] = 0]
      /\ UNCHANGED <<life, kernel, mem, stk, child, released>>
  BY DEF SetContext, Runs, Gone
<1>2. released[p] /\ mem[p].eip = "caller"
  BY <1>1 DEF IInv, Handshake, Made, Making
<1>3. c \in Proc /\ ~released[c] /\ c # p
  BY <1>1, <1>2 DEF IInv, Handshake, Owner, MakingChild, Making
<1>4. life[c] = "suspended" /\ at[c] = "park"
  BY <1>1 DEF IInv, Handshake, Stage, StageOf, Copying, MakingChild, Making
<1>5. ~kernel[c]
  BY <1>3, <1>4 DEF IInv, Handshake, InKernel
<1>6. at \in [Proc -> Where] /\ eax \in [Proc -> Result]
  BY DEF IInv, TypeOK
<1>7. /\ at'[p] = "release" /\ at'[c] = "caller" /\ eax'[c] = 0
      /\ \A q \in Proc : q # c => eax'[q] = eax[q]
      /\ \A q \in Proc : q # c /\ q # p => at'[q] = at[q]
  BY <1>1, <1>2, <1>3, <1>6
<1>8. \A q \in Proc : at[q] \in MakingChild /\ q # p
                        => child[q] \in Proc \ {c, p}
  BY <1>1, <1>2 DEF IInv, Handshake, Owner, MakingChild, Making
<1>9. \A q \in Proc : at'[q] \in MakingChild <=> at[q] \in MakingChild
  BY <1>1, <1>4, <1>7 DEF MakingChild, Making
<1> HIDE DEF c
<1>10. Unmade' /\ InKernel'
  <2>1. Unmade'
    <3>1. \A d \in Proc : ~released[d] => at'[d] = at[d] \/ d = c
      BY <1>2, <1>7
    <3>2. UNCHANGED <<life, mem, released>>
      BY <1>1
    <3>3. Unmade
      BY DEF IInv, Handshake
    <3>4. QED
      BY <1>4, <1>7, <3>1, <3>2, <3>3 DEF Unmade, Startup
  <2>2. InKernel'
    BY <1>1, <1>5, <1>7 DEF IInv, Handshake, InKernel
  <2>3. QED
    BY <2>1, <2>2
<1>11. Made' /\ HalvesAgree'
  BY <1>1, <1>2, <1>3, <1>7 DEF IInv, Handshake, Made, HalvesAgree, Making
<1>12. Owner'
  BY <1>1, <1>9 DEF IInv, Handshake, Owner, Started
<1>13. Stage'
  <2>1. child[p] = c
    BY DEF c
  <2>2. mem[c].log = mem[p].log /\ stk[c].log = stk[p].log
    BY <1>1, <2>1 DEF IInv, Handshake, Stage, StageOf, MakingChild, Making
  <2>3. SUFFICES ASSUME NEW q \in Proc, at[q] \in MakingChild
                 PROVE  StageOf(q)'
    BY <1>9 DEF Stage, StageOf
  <2>4. CASE q = p
    BY <1>1, <1>2, <1>3, <1>4, <1>7, <2>1, <2>2, <2>4 DEF StageOf, Gone, Copying
  <2>5. CASE q # p
    <3>1. child[q] \in Proc \ {c, p} /\ q # c /\ StageOf(q)
      BY <1>4, <1>8, <2>3, <2>5
         DEF IInv, Handshake, Stage, MakingChild, Making
    <3>2. at'[q] = at[q] /\ at'[child[q]] = at[child[q]]
          /\ eax'[child[q]] = eax[child[q]]
      BY <1>7, <2>5, <3>1
    <3>3. QED
      BY <1>1, <3>1, <3>2 DEF StageOf, Gone
  <2>6. QED
    BY <2>4, <2>5
<1>14. QED
  BY <1>10, <1>11, <1>12, <1>13 DEF Handshake

(* A stage of fork is passed by the parent, which has been let go, and acts *)
(* on its own child, which has not.                                        *)
LEMMA ForksKeeps ==
  ASSUME IInv, NEW p \in Proc, Forks(p)
  PROVE  Handshake'
<1> USE DEF IInv, TypeOK, Handshake, Unmade, InKernel, Made, Owner, Stage, StageOf,
            HalvesAgree, Started, Gone, Runs, Moves, Startup, Making,
            MakingChild, Copying, Image, Stack
<1> DEFINE c == child[p]
<1>1. CASE Spawn(p)
  <2>1. PICK d \in Proc : /\ life[d] = "unused"
                          /\ child' = [child EXCEPT ![p] = d]
                          /\ life' = [life EXCEPT ![d] = "suspended"]
    BY <1>1 DEF Spawn
  <2>2. ~released[d] /\ mem[d] = Fresh /\ at[d] = "loader" /\ released[p] /\ d # p
    BY <1>1, <2>1 DEF Spawn
  <2>3. /\ at' = [at EXCEPT ![p] = "flag"]
        /\ UNCHANGED <<eax, kernel, mem, stk, released>>
    BY <1>1 DEF Spawn
  <2>4. \A q \in Proc : at[q] \in MakingChild => child[q] # d
    BY <2>1
  <2>5. Owner'
    BY <2>1, <2>2, <2>3, <2>4
  <2>6. Stage'
    BY <2>1, <2>2, <2>3, <2>4
  <2>7. Unmade' /\ InKernel' /\ Made' /\ HalvesAgree'
    BY <1>1, <2>1, <2>2, <2>3 DEF Spawn
  <2>8. QED
    BY <2>5, <2>6, <2>7
<1>2. CASE WriteFlag(p)
  BY <1>2 DEF WriteFlag, Making1
<1>3. CASE Resume(p)
  BY <1>3 DEF Resume, Making1
<1>4. CASE Poll(p)
  <2>0. /\ c \in Proc /\ ~released[c] /\ life[c] = "running"
        /\ mem[c].parked = 1
    BY <1>4 DEF Poll, SaysParked, Making1
  <2>1. at[c] = "park"
    BY <2>0, Parked
  <2>2. Stage'
    BY <1>4, <2>1 DEF Poll, Making1
  <2>3. Unmade' /\ InKernel' /\ Made' /\ Owner' /\ HalvesAgree'
    BY <1>4 DEF Poll, Making1
  <2>4. QED
    BY <2>2, <2>3
<1>5. CASE Suspend(p)
  BY <1>5 DEF Suspend, Making1
<1>6. CASE CommitStack(p)
  BY <1>6 DEF CommitStack, CommitReserve, Making1
<1>7. CASE CopyImage(p)
  BY <1>7 DEF CopyImage, Making1
<1>8. CASE CopyStack(p)
  BY <1>8 DEF CopyStack, CopiedFrames, Making1
<1>9. CASE SetContext(p)
  BY <1>9, SetContextKeeps
<1>10. CASE Release(p)
  <2>1. /\ c \in Proc /\ life[p] = "running" /\ released[p]
        /\ mem[c].log = mem[p].log /\ stk[c].log = stk[p].log
    BY <1>10 DEF Release, Making1
  <2>2. HalvesAgree'
    BY <1>10, <2>1 DEF Release
  <2>3. Unmade' /\ InKernel' /\ Made' /\ Owner' /\ Stage'
    BY <1>10 DEF Release, Making1
  <2>4. QED
    BY <2>2, <2>3
<1>11. CASE Return(p)
  BY <1>11 DEF Return
<1>12. QED
  BY <1>1, <1>2, <1>3, <1>4, <1>5, <1>6, <1>7, <1>8, <1>9, <1>10, <1>11
     DEF Forks

-----------------------------------------------------------------------------
(* The inductive invariant, and what follows from it. *)

LEMMA InitIInv == Init => IInv
<1> SUFFICES ASSUME Init PROVE IInv
  OBVIOUS
<1>1. TypeOK
  BY FreshType, ProcAssumption DEF Init, TypeOK, Where, Startup, Result
<1>2. Unmade
  BY DEF Init, Unmade, Startup, Fresh
<1>3. InKernel
  BY DEF Init, InKernel
<1>4. Made
  BY ProcAssumption DEF Init, Made, Making
<1>5. Owner /\ Stage
  BY DEF Init, Owner, Stage, StageOf, MakingChild, Making
<1>6. HalvesAgree
  BY DEF Init, HalvesAgree, Fresh, NewStack
<1>7. QED
  BY <1>1, <1>2, <1>3, <1>4, <1>5, <1>6 DEF IInv, Handshake

LEMMA NextIInv == IInv /\ [Next]_vars => IInv'
<1> SUFFICES ASSUME IInv, [Next]_vars PROVE IInv'
  OBVIOUS
<1>1. ASSUME NEW p \in Proc, Starts(p) PROVE IInv'
  BY <1>1, StartsType, StartsKeeps DEF IInv
<1>2. ASSUME NEW p \in Proc, Forks(p) PROVE IInv'
  <2>1. at[p] \in MakingChild => child[p] \in Proc
    BY DEF IInv, Handshake, Owner
  <2>2. QED
    BY <1>2, <2>1, ForksType, ForksKeeps DEF IInv
<1>3. ASSUME NEW p \in Proc, Fail(p) PROVE IInv'
  BY <1>3, FailType, FailKeeps DEF IInv
<1>4. ASSUME NEW p \in Proc, Chooses(p) PROVE IInv'
  BY <1>4, ChoosesType, ChoosesKeeps DEF IInv
<1>5. CASE UNCHANGED vars
  BY <1>5 DEF vars, thread, IInv, TypeOK, Handshake, Unmade, InKernel, Made,
     Owner, Stage, StageOf, HalvesAgree, Started, Gone
<1>6. QED
  BY <1>1, <1>2, <1>3, <1>4, <1>5 DEF Next

LEMMA Invariance == Spec => []IInv
<1>1. IInv /\ [Next]_vars => IInv'
  BY NextIInv
<1>2. QED
  BY InitIInv, <1>1, PTL DEF Spec

(* The variables have their types. *)
THEOREM TypeCorrect == Spec => []TypeOK
<1>1. IInv => TypeOK
  BY DEF IInv
<1>2. QED
  BY Invariance, <1>1, PTL

(* A copy still being made never enters main: what runs beyond the park    *)
(* has been let go, whatever fails and whoever is killed meanwhile.        *)
THEOREM CopiesStayOut == Spec => []OnlyReleasedRunMain
<1>1. IInv => OnlyReleasedRunMain
  BY DEF IInv, Handshake, Unmade, OnlyReleasedRunMain
<1>2. QED
  BY Invariance, <1>1, PTL

(* What fork overwrites is suspended, parked and out of the kernel.        *)
THEOREM CopiesAreStill == Spec => []StillWhileCopied
<1>1. IInv => StillWhileCopied
  BY DEF IInv, Handshake, Owner, Stage, StageOf, InKernel, StillWhileCopied,
     Gone, MakingChild, Making, Copying
<1>2. QED
  BY Invariance, <1>1, PTL

(* The locals of a running program belong with its globals.                *)
THEOREM StackMatchesImage == Spec => []HalvesAgree
<1>1. IInv => HalvesAgree
  BY DEF IInv, Handshake
<1>2. QED
  BY Invariance, <1>1, PTL

-----------------------------------------------------------------------------
(* Descriptors. *)

(* A child holds what its parent does for as long as it is being made: its *)
(* parent opens nothing then.                                              *)
Inherits ==
  /\ \A p \in Proc : mem[p].fds \subseteq handles[p]
  /\ \A p \in Proc : at[p] \in MakingChild => handles[child[p]] = handles[p]

(* A step that neither opens a file nor gives out handles or descriptors.  *)
OpensNothing ==
  /\ UNCHANGED handles
  /\ \A q \in Proc : mem'[q].fds = mem[q].fds
  /\ \A q \in Proc : at'[q] \in MakingChild
                       => at[q] \in MakingChild /\ child'[q] = child[q]

LEMMA InheritsKept ==
  ASSUME Inherits, OpensNothing
  PROVE  Inherits'
BY DEF Inherits, OpensNothing

LEMMA StartsOpenNothing ==
  ASSUME TypeOK, NEW p \in Proc, Starts(p)
  PROVE  OpensNothing
<1> USE DEF TypeOK, Runs, Moves, OpensNothing, Image, MakingChild, Making
<1>1. CASE LoaderInit(p)
  BY <1>1 DEF LoaderInit
<1>2. CASE StartUp(p)
  BY <1>2 DEF StartUp
<1>3. CASE LeaveKernel(p)
  BY <1>3 DEF LeaveKernel
<1>4. CASE FlagTest(p)
  BY <1>4 DEF FlagTest, Branch
<1>5. CASE Park(p)
  BY <1>5 DEF Park
<1>6. QED
  BY <1>1, <1>2, <1>3, <1>4, <1>5 DEF Starts

LEMMA StagesOpenNothing ==
  ASSUME IInv, NEW p \in Proc, Forks(p), ~Spawn(p), ~CopyImage(p)
  PROVE  OpensNothing
<1> USE DEF IInv, TypeOK, Runs, Moves, OpensNothing, Image, MakingChild, Making, Making1
<1>1. CASE WriteFlag(p)
  BY <1>1 DEF WriteFlag
<1>2. CASE Resume(p) \/ Poll(p) \/ Suspend(p)
  BY <1>2 DEF Resume, Poll, Suspend
<1>3. CASE CommitStack(p) \/ CopyStack(p) \/ Release(p)
  BY <1>3 DEF CommitStack, CopyStack, Release
<1>4. CASE SetContext(p)
  BY <1>4 DEF SetContext, Handshake, Made
<1>5. CASE Return(p)
  BY <1>5 DEF Return
<1>6. QED
  BY <1>1, <1>2, <1>3, <1>4, <1>5 DEF Forks

LEMMA SpawnInherits ==
  ASSUME IInv, Inherits, NEW p \in Proc, Spawn(p)
  PROVE  Inherits'
<1>1. PICK c \in Proc : /\ life[c] = "unused"
                        /\ child' = [child EXCEPT ![p] = c]
                        /\ handles' = [handles EXCEPT ![c] = handles[p]]
  BY DEF Spawn, Inherited
<1>2. /\ at[p] = "spawn" /\ at' = [at EXCEPT ![p] = "flag"] /\ mem' = mem
  BY DEF Spawn, Runs, Moves
<1>3. mem[c].fds = {} /\ at[c] = "loader"
  BY <1>1 DEF IInv, Handshake, Unmade, Made, Fresh
<1>4. \A q \in Proc : at[q] \in MakingChild => child[q] \in Proc \ {c}
  BY <1>1 DEF IInv, Handshake, Owner, Started
<1>5. c # p
  BY <1>2, <1>3
<1>6. \A q \in Proc : handles'[q] = IF q = c THEN handles[p] ELSE handles[q]
  BY <1>1 DEF IInv, TypeOK
<1>7. \A q \in Proc : mem'[q].fds \subseteq handles'[q]
  BY <1>2, <1>3, <1>6 DEF Inherits
<1>8. ASSUME NEW q \in Proc, at'[q] \in MakingChild
      PROVE  handles'[child'[q]] = handles'[q]
  <2>1. CASE q = p
    BY <1>1, <1>5, <1>6, <2>1 DEF IInv, TypeOK
  <2>2. CASE q # p
    <3>1. at[q] \in MakingChild /\ child'[q] = child[q] /\ q # c
      BY <1>1, <1>2, <1>3, <1>8, <2>2 DEF IInv, TypeOK, MakingChild, Making
    <3>2. QED
      BY <1>4, <1>6, <3>1 DEF Inherits
  <2>3. QED
    BY <2>1, <2>2
<1>9. QED
  BY <1>7, <1>8 DEF Inherits

LEMMA CopyImageInherits ==
  ASSUME IInv, Inherits, NEW p \in Proc, CopyImage(p)
  PROVE  Inherits'
<1>1. /\ at[p] = "copyimage" /\ at' = [at EXCEPT ![p] = "copystack"]
      /\ mem' = [mem EXCEPT ![child[p]] = mem[p]]
      /\ UNCHANGED <<handles, child>>
  BY DEF CopyImage, Making1, Runs, Moves
<1>2. handles[child[p]] = handles[p]
  BY <1>1 DEF Inherits, MakingChild, Making
<1>3. \A q \in Proc : mem'[q].fds \subseteq handles'[q]
  BY <1>1, <1>2 DEF Inherits, IInv, TypeOK
<1>4. \A q \in Proc : at'[q] \in MakingChild => at[q] \in MakingChild
  BY <1>1 DEF MakingChild, Making, IInv, TypeOK
<1>5. QED
  BY <1>1, <1>3, <1>4 DEF Inherits

LEMMA OpenFileInherits ==
  ASSUME IInv, Inherits, NEW p \in Proc, NEW h \in Handle, OpenFile(p, h)
  PROVE  Inherits'
<1>1. /\ at[p] = "main" /\ UNCHANGED <<at, child>>
      /\ handles' = [handles EXCEPT ![p] = @ \cup {h}]
      /\ mem' = [mem EXCEPT ![p].fds = @ \cup {h}]
  BY DEF OpenFile, Runs, thread
<1>2. \A q \in Proc : at[q] \in MakingChild => q # p /\ child[q] # p
  <2>1. released[p]
    BY <1>1 DEF IInv, Handshake, Unmade, Startup
  <2>2. QED
    BY <1>1, <2>1 DEF IInv, Handshake, Owner, MakingChild, Making
<1>3. \A q \in Proc : mem'[q].fds \subseteq handles'[q]
  BY <1>1 DEF Inherits, IInv, TypeOK, Image
<1>4. \A q \in Proc : q # p => handles'[q] = handles[q]
  BY <1>1 DEF IInv, TypeOK
<1>5. \A q \in Proc : at[q] \in MakingChild => child[q] \in Proc
  BY DEF IInv, Handshake, Owner
<1>6. QED
  BY <1>1, <1>2, <1>3, <1>4, <1>5 DEF Inherits

LEMMA NextInherits ==
  ASSUME IInv, Inherits, [Next]_vars
  PROVE  Inherits'
<1>1. ASSUME NEW p \in Proc, Starts(p) PROVE Inherits'
  BY <1>1, StartsOpenNothing, InheritsKept DEF IInv
<1>2. ASSUME NEW p \in Proc, Forks(p) PROVE Inherits'
  BY <1>2, StagesOpenNothing, InheritsKept, SpawnInherits, CopyImageInherits
<1>3. ASSUME NEW p \in Proc, Fail(p) PROVE Inherits'
  <2>1. OpensNothing
    BY <1>3 DEF Fail, Moves, OpensNothing, IInv, TypeOK, MakingChild, Making
  <2>2. QED
    BY <2>1, InheritsKept
<1>4. ASSUME NEW p \in Proc, CallFork(p) \/ Recurse(p) \/ End(p) PROVE Inherits'
  <2> USE DEF Moves, thread, OpensNothing, IInv, TypeOK, MakingChild, Making
  <2>1. CASE CallFork(p)
    BY <2>1, InheritsKept DEF CallFork, Image
  <2>2. CASE Recurse(p)
    <3>1. at' = at \/ at' = [at EXCEPT ![p] = "fault"]
      BY <2>2 DEF Recurse
    <3>2. OpensNothing
      BY <2>2, <3>1 DEF Recurse
    <3>3. QED
      BY <3>2, InheritsKept
  <2>3. CASE End(p)
    BY <2>3, InheritsKept DEF End
  <2>4. QED
    BY <1>4, <2>1, <2>2, <2>3
<1>5. CASE UNCHANGED vars
  BY <1>5 DEF vars, thread, Inherits
<1>6. QED
  BY <1>1, <1>2, <1>3, <1>4, <1>5, OpenFileInherits DEF Next, Chooses

(* What a program remembers as a descriptor is a handle it holds, across   *)
(* any number of forks, failed ones included.                              *)
THEOREM DescriptorsStayOpen == Spec => []DescriptorsOpen
<1>1. Init => Inherits
  BY DEF Init, Inherits, Fresh, MakingChild, Making
<1>2. IInv /\ Inherits /\ [Next]_vars => Inherits'
  BY NextInherits
<1>3. Inherits => DescriptorsOpen
  BY DEF Inherits, DescriptorsOpen
<1>4. QED
  BY Invariance, <1>1, <1>2, <1>3, PTL DEF Spec

-----------------------------------------------------------------------------
(* The stack. *)

(* A stack without a guard page needs none: all of it is committed, before *)
(* the copy goes over the page.                                            *)
Room ==
  /\ \A p \in Proc : at[p] # "fault"
  /\ \A p \in Proc : stk[p].guard \/ stk[p].committed = Pages
  /\ \A p \in Proc : (at[p] \in {"copyimage", "copystack"} /\ ~Gone(child[p]))
                      => stk[child[p]].committed = Pages

(* A step that neither faults, takes pages nor gets a copy to where its    *)
(* stack is counted on.                                                    *)
Stays ==
  /\ \A q \in Proc : at'[q] = "fault" => at[q] = "fault"
  /\ \A q \in Proc : stk'[q].guard = stk[q].guard /\ stk'[q].committed = stk[q].committed
  /\ \A q \in Proc : at'[q] \in {"copyimage", "copystack"}
       => /\ at[q] \in {"copyimage", "copystack"} /\ child'[q] = child[q]
          /\ Gone(child[q]) => Gone(child[q])'

LEMMA RoomKept ==
  ASSUME IInv, Room, Stays
  PROVE  Room'
<1>1. \A q \in Proc : at[q] \in {"copyimage", "copystack"} => child[q] \in Proc
  BY DEF IInv, Handshake, Owner, MakingChild, Making
<1>2. QED
  BY <1>1 DEF Room, Stays, Gone

LEMMA StartsStay ==
  ASSUME TypeOK, NEW p \in Proc, Starts(p)
  PROVE  Stays
<1> USE DEF TypeOK, Runs, Moves, Stays, Gone
<1>1. CASE LoaderInit(p)
  BY <1>1 DEF LoaderInit
<1>2. CASE StartUp(p)
  BY <1>2 DEF StartUp
<1>3. CASE LeaveKernel(p)
  BY <1>3 DEF LeaveKernel
<1>4. CASE FlagTest(p)
  BY <1>4 DEF FlagTest, Branch
<1>5. CASE Park(p)
  BY <1>5 DEF Park
<1>6. QED
  BY <1>1, <1>2, <1>3, <1>4, <1>5 DEF Starts

LEMMA StagesStay ==
  ASSUME IInv, NEW p \in Proc, Forks(p), ~CommitStack(p), ~CopyStack(p)
  PROVE  Stays
<1> USE DEF IInv, TypeOK, Runs, Moves, Stays, Gone, Making1
<1>1. CASE Spawn(p)
  <2>1. \A q \in Proc : life[q] = "dead" => life'[q] = "dead"
    BY <1>1 DEF Spawn
  <2>2. \A q \in Proc : at[q] \in {"copyimage", "copystack"}
                         => child[q] \in Proc /\ child'[q] = child[q]
    BY <1>1 DEF Spawn, Handshake, Owner, MakingChild, Making
  <2>3. QED
    BY <1>1, <2>1, <2>2 DEF Spawn
<1>2. CASE WriteFlag(p) \/ Poll(p) \/ CopyImage(p)
  BY <1>2 DEF WriteFlag, Poll, CopyImage
<1>3. CASE Resume(p) \/ Suspend(p) \/ Release(p)
  <2>1. \A q \in Proc : life[q] = "dead" => life'[q] = "dead"
    BY <1>3 DEF Resume, Suspend, Release
  <2>2. \A q \in Proc : at[q] \in {"copyimage", "copystack"} => child[q] \in Proc
    BY DEF Handshake, Owner, MakingChild, Making
  <2>3. QED
    BY <1>3, <2>1, <2>2 DEF Resume, Suspend, Release
<1>4. CASE SetContext(p)
  BY <1>4 DEF SetContext, Handshake, Made, Making
<1>5. CASE Return(p)
  BY <1>5 DEF Return, Stack
<1>6. QED
  BY <1>1, <1>2, <1>3, <1>4, <1>5 DEF Forks

LEMMA CommitStackRoom ==
  ASSUME IInv, Room, NEW p \in Proc, CommitStack(p)
  PROVE  Room'
<1>1. /\ at[p] = "commit" /\ at' = [at EXCEPT ![p] = "copyimage"]
      /\ stk' = [stk EXCEPT ![child[p]].committed = Pages]
      /\ UNCHANGED <<life, child>>
  BY DEF CommitStack, CommitReserve, Making1, Runs, Moves
<1>2. child[p] \in Proc
  BY <1>1 DEF IInv, Handshake, Owner, MakingChild, Making
<1>3. \A q \in Proc : /\ stk'[q].guard = stk[q].guard
                       /\ stk'[q].committed = IF q = child[p] THEN Pages ELSE stk[q].committed
  BY <1>1, <1>2 DEF IInv, TypeOK, Stack
<1>4. \A q \in Proc : at'[q] = IF q = p THEN "copyimage" ELSE at[q]
  BY <1>1 DEF IInv, TypeOK
<1>5. \A q \in Proc : at[q] \in {"copyimage", "copystack"} => child[q] \in Proc
  BY DEF IInv, Handshake, Owner, MakingChild, Making
<1>6. ASSUME NEW q \in Proc, at'[q] \in {"copyimage", "copystack"}, ~Gone(child[q])
      PROVE  stk'[child[q]].committed = Pages
  <2>1. CASE q = p
    BY <1>2, <1>3, <2>1
  <2>2. CASE q # p
    BY <1>3, <1>4, <1>5, <1>6, <2>2 DEF Room
  <2>3. QED
    BY <2>1, <2>2
<1>7. QED
  BY <1>1, <1>3, <1>4, <1>6 DEF Room, Gone

LEMMA CopyStackRoom ==
  ASSUME IInv, Room, NEW p \in Proc, CopyStack(p)
  PROVE  Room'
<1>1. /\ at[p] = "copystack" /\ at' = [at EXCEPT ![p] = "context"]
      /\ stk' = [stk EXCEPT ![child[p]].log = stk[p].log, ![child[p]].guard = FALSE]
      /\ UNCHANGED <<life, child>> /\ ~Gone(child[p])
  BY DEF CopyStack, CopiedFrames, Making1, Runs, Moves, Gone
<1>2. child[p] \in Proc /\ stk[child[p]].committed = Pages
  BY <1>1 DEF Room, IInv, Handshake, Owner, MakingChild, Making
<1>3. \A q \in Proc : /\ stk'[q].committed = stk[q].committed
                       /\ stk'[q].guard = IF q = child[p] THEN FALSE ELSE stk[q].guard
  BY <1>1, <1>2 DEF IInv, TypeOK, Stack
<1>4. \A q \in Proc : at'[q] = IF q = p THEN "context" ELSE at[q]
  BY <1>1 DEF IInv, TypeOK
<1>5. \A q \in Proc : at[q] \in {"copyimage", "copystack"} => child[q] \in Proc
  BY DEF IInv, Handshake, Owner, MakingChild, Making
<1>6. \A q \in Proc : stk'[q].guard \/ stk'[q].committed = Pages
  BY <1>2, <1>3 DEF Room
<1>7. ASSUME NEW q \in Proc, at'[q] \in {"copyimage", "copystack"}, ~Gone(child[q])
      PROVE  stk'[child[q]].committed = Pages
  BY <1>3, <1>4, <1>5, <1>7 DEF Room
<1>8. \A q \in Proc : at'[q] # "fault"
  BY <1>4 DEF Room
<1>9. QED
  BY <1>1, <1>6, <1>7, <1>8 DEF Room, Gone

(* A deep call finds the guard page, or has all of the stack already. *)
LEMMA RecurseRoom ==
  ASSUME IInv, Room, NEW p \in Proc, Recurse(p)
  PROVE  Room'
<1>1. /\ at[p] = "main" /\ stk[p].committed < Pages /\ stk[p].guard
      /\ stk' = [stk EXCEPT ![p].committed = @ + 1]
      /\ UNCHANGED <<life, at, child>>
  <2>1. stk[p].committed # Pages
    BY BoundAssumption DEF Recurse, IInv, TypeOK, Stack
  <2>2. QED
    BY <2>1 DEF Recurse, Room, Runs
<1>2. \A q \in Proc : /\ stk'[q].guard = stk[q].guard
                       /\ q # p => stk'[q].committed = stk[q].committed
  BY <1>1 DEF IInv, TypeOK, Stack
<1>3. \A q \in Proc : at[q] \in {"copyimage", "copystack"}
                       => child[q] \in Proc /\ child[q] # p
  BY <1>1 DEF IInv, Handshake, Unmade, Owner, MakingChild, Making, Startup
<1>4. QED
  BY <1>1, <1>2, <1>3 DEF Room, Gone

LEMMA NextRoom ==
  ASSUME IInv, Room, [Next]_vars
  PROVE  Room'
<1>1. ASSUME NEW p \in Proc, Starts(p) PROVE Room'
  BY <1>1, StartsStay, RoomKept DEF IInv
<1>2. ASSUME NEW p \in Proc, Forks(p) PROVE Room'
  BY <1>2, StagesStay, RoomKept, CommitStackRoom, CopyStackRoom
<1>3. ASSUME NEW p \in Proc, Fail(p) PROVE Room'
  <2>1. \A q \in Proc : life[q] = "dead" => life'[q] = "dead"
    BY <1>3 DEF Fail, IInv, TypeOK
  <2>2. \A q \in Proc : at[q] \in {"copyimage", "copystack"} => child[q] \in Proc
    BY DEF IInv, Handshake, Owner, MakingChild, Making
  <2>3. Stays
    BY <1>3, <2>1, <2>2 DEF Fail, Moves, Stays, Gone, IInv, TypeOK
  <2>4. QED
    BY <2>3, RoomKept
<1>4. ASSUME NEW p \in Proc, End(p) PROVE Room'
  <2>1. \A q \in Proc : at[q] \in {"copyimage", "copystack"} => child[q] \in Proc
    BY DEF IInv, Handshake, Owner, MakingChild, Making
  <2>2. Stays
    BY <1>4, <2>1 DEF End, thread, Stays, Gone, IInv, TypeOK
  <2>3. QED
    BY <2>2, RoomKept
<1>5. ASSUME NEW p \in Proc, CallFork(p) PROVE Room'
  BY <1>5, RoomKept DEF CallFork, Moves, Stays, Gone, IInv, TypeOK
<1>6. ASSUME NEW p \in Proc, NEW h \in Handle, OpenFile(p, h) PROVE Room'
  BY <1>6, RoomKept DEF OpenFile, thread, Stays, Gone
<1>7. CASE UNCHANGED vars
  BY <1>7 DEF vars, thread, Room, Gone
<1>8. QED
  BY <1>1, <1>2, <1>3, <1>4, <1>5, <1>6, <1>7, RecurseRoom DEF Next, Chooses

(* No program dies of calling deeply inside its reservation, for any size  *)
(* of it and however many forks lie behind.                                *)
THEOREM StackAlwaysGrows == Spec => []StackGrows
<1>1. Init => Room
  BY DEF Init, Room, NewStack
<1>2. IInv /\ Room /\ [Next]_vars => Room'
  BY NextRoom
<1>3. Room => StackGrows
  BY DEF Room, StackGrows
<1>4. QED
  BY Invariance, <1>1, <1>2, <1>3, PTL DEF Spec

-----------------------------------------------------------------------------
(* fork implements ForkSpec. *)

(* A step that shows the user of p nothing. *)
Unseen(p) ==
  /\ released'[p] = released[p]
  /\ released[p] =>
       /\ Gone(p)' <=> Gone(p)
       /\ mem'[p].log = mem[p].log
       /\ at'[p] = "caller" <=> at[p] = "caller"
       /\ at[p] = "caller" => eax'[p] = eax[p]

LEMMA AbsFunctions ==
  /\ AbsState = [q \in Proc |-> AbsState[q]] /\ AbsState' = [q \in Proc |-> AbsState'[q]]
  /\ AbsLog = [q \in Proc |-> AbsLog[q]] /\ AbsLog' = [q \in Proc |-> AbsLog'[q]]
BY DEF AbsState, AbsLog

LEMMA UnseenStutters ==
  ASSUME \A p \in Proc : Unseen(p)
  PROVE  UNCHANGED <<AbsState, AbsLog>>
BY DEF Unseen, AbsState, AbsLog, Gone

LEMMA StartsUnseen ==
  ASSUME IInv, NEW p \in Proc, Starts(p)
  PROVE  \A q \in Proc : Unseen(q)
<1> USE DEF IInv, TypeOK, Runs, Moves, Unseen, Gone
<1>1. CASE LoaderInit(p)
  BY <1>1 DEF LoaderInit
<1>2. CASE StartUp(p)
  BY <1>2 DEF StartUp
<1>3. CASE LeaveKernel(p)
  BY <1>3 DEF LeaveKernel, Handshake, InKernel
<1>4. CASE FlagTest(p)
  BY <1>4 DEF FlagTest, Branch
<1>5. CASE Park(p)
  BY <1>5 DEF Park, Image
<1>6. QED
  BY <1>1, <1>2, <1>3, <1>4, <1>5 DEF Starts

LEMMA ChoosesUnseen ==
  ASSUME IInv, NEW p \in Proc, Chooses(p), ~End(p)
  PROVE  \A q \in Proc : Unseen(q)
<1> USE DEF IInv, TypeOK, Runs, Moves, Unseen, Gone, Image
<1>1. CASE CallFork(p)
  BY <1>1 DEF CallFork
<1>2. CASE Recurse(p)
  BY <1>2 DEF Recurse
<1>3. ASSUME NEW h \in Handle, OpenFile(p, h) PROVE \A q \in Proc : Unseen(q)
  BY <1>3 DEF OpenFile, thread
<1>4. QED
  BY <1>1, <1>2, <1>3 DEF Chooses

(* A program returns from fork with what ForkSpec's log already has. *)
LEMMA ReturnStutters ==
  ASSUME IInv, NEW p \in Proc, Return(p)
  PROVE  UNCHANGED <<AbsState, AbsLog>>
<1>1. /\ at[p] = "caller" /\ at' = [at EXCEPT ![p] = "main"]
      /\ mem' = [mem EXCEPT ![p] = [mem[p] EXCEPT !.log = Append(mem[p].log, eax[p])]]
      /\ UNCHANGED <<life, eax, released>>
  BY DEF Return, Runs, Moves
<1>2. mem[p] \in Image /\ at \in [Proc -> Where] /\ mem \in [Proc -> Image]
  BY DEF IInv, TypeOK
<1>3. [mem[p] EXCEPT !.log = Append(mem[p].log, eax[p])].log
        = Append(mem[p].log, eax[p])
  BY <1>2 DEF Image
<1>4. /\ at'[p] = "main" /\ mem'[p].log = Append(mem[p].log, eax[p])
      /\ \A q \in Proc : q # p => at'[q] = at[q] /\ mem'[q] = mem[q]
  BY <1>1, <1>2, <1>3
<1>5. QED
  BY <1>1, <1>4 DEF AbsState, AbsLog

LEMMA ForksUnseen ==
  ASSUME IInv, NEW p \in Proc, Forks(p), ~Release(p), ~Return(p)
  PROVE  \A q \in Proc : Unseen(q)
<1> DEFINE c == child[p]
<1>1. at[p] \in MakingChild =>
        c \in Proc /\ ~released[c] /\ released[p] /\ c # p
  BY DEF IInv, Handshake, Owner, Made, MakingChild
<1> USE <1>1 DEF IInv, TypeOK, Runs, Moves, Making1, Unseen, Gone, Making, MakingChild
<1>2. CASE Spawn(p)
  BY <1>2 DEF Spawn, Handshake, Made
<1>3. CASE WriteFlag(p)
  BY <1>3 DEF WriteFlag
<1>4. CASE Resume(p)
  BY <1>4 DEF Resume
<1>5. CASE Poll(p)
  BY <1>5 DEF Poll
<1>6. CASE Suspend(p)
  BY <1>6 DEF Suspend
<1>7. CASE CommitStack(p)
  BY <1>7 DEF CommitStack
<1>8. CASE CopyImage(p)
  BY <1>8 DEF CopyImage
<1>9. CASE CopyStack(p)
  BY <1>9 DEF CopyStack
<1>10. CASE SetContext(p)
  BY <1>10 DEF SetContext
<1>11. QED
  BY <1>2, <1>3, <1>4, <1>5, <1>6, <1>7, <1>8, <1>9, <1>10 DEF Forks

(* Letting the child go is ForkSpec's Fork. *)
LEMMA ReleaseForks ==
  ASSUME IInv, NEW p \in Proc, Release(p)
  PROVE  Promise!Fork(p, child[p])
<1> DEFINE c == child[p]
<1>1. /\ at[p] = "release" /\ life[p] = "running" /\ ~Gone(c)
      /\ at' = [at EXCEPT ![p] = "caller"]
      /\ life' = [life EXCEPT ![c] = "running"]
      /\ eax' = [eax EXCEPT ![p] = c]
      /\ released' = [released EXCEPT ![c] = TRUE]
      /\ UNCHANGED mem
  BY DEF Release, Making1, Runs, Moves, Gone
<1>2. released[p] /\ c \in Proc /\ ~released[c] /\ c # p
  BY <1>1 DEF IInv, Handshake, Owner, Made, MakingChild, Making
<1>3. at[c] = "caller" /\ eax[c] = 0 /\ mem[c].log = mem[p].log
  BY <1>1, <1>2 DEF IInv, Handshake, Stage, StageOf, MakingChild, Making
<1>4. /\ at \in [Proc -> Where] /\ eax \in [Proc -> Result]
      /\ life \in [Proc -> {"unused", "suspended", "running", "dead"}]
      /\ released \in [Proc -> BOOLEAN]
  BY DEF IInv, TypeOK
<1> HIDE DEF c
<1>5. /\ at'[p] = "caller" /\ at'[c] = "caller"
      /\ eax'[p] = c /\ eax'[c] = 0
      /\ released'[p] /\ released'[c] /\ life'[c] = "running" /\ life'[p] = "running"
      /\ \A q \in Proc : q # p /\ q # c =>
           /\ at'[q] = at[q] /\ eax'[q] = eax[q]
           /\ released'[q] = released[q] /\ life'[q] = life[q]
  BY <1>1, <1>2, <1>3, <1>4
<1>6. AbsState[p] = "running" /\ AbsState[c] = "none"
  BY <1>1, <1>2 DEF AbsState
<1>7. AbsState' = [AbsState EXCEPT ![c] = "running"]
  <2>1. \A q \in Proc : AbsState'[q] = IF q = c THEN "running" ELSE AbsState[q]
    BY <1>1, <1>2, <1>5 DEF AbsState
  <2>2. QED
    BY <2>1, AbsFunctions
<1>8. AbsLog' = [AbsLog EXCEPT ![p] = Append(AbsLog[p], c),
                               ![c] = Append(AbsLog[p], 0)]
  <2>1. AbsLog[p] = mem[p].log
    BY <1>1, <1>2 DEF AbsLog
  <2>2. AbsLog'[p] = Append(mem[p].log, c) /\ AbsLog'[c] = Append(mem[p].log, 0)
    BY <1>1, <1>2, <1>3, <1>5 DEF AbsLog
  <2>3. \A q \in Proc : q # p /\ q # c => AbsLog'[q] = AbsLog[q]
    BY <1>1, <1>5 DEF AbsLog
  <2>4. QED
    BY <1>2, <2>1, <2>2, <2>3, AbsFunctions
<1>9. QED
  BY <1>6, <1>7, <1>8 DEF Promise!Fork, c

LEMMA FailForkFails ==
  ASSUME IInv, NEW p \in Proc, Fail(p)
  PROVE  Promise!ForkFails(p)
<1>1. /\ at[p] \in Making /\ life[p] = "running"
      /\ at' = [at EXCEPT ![p] = "caller"]
      /\ eax' = [eax EXCEPT ![p] = -1]
      /\ \/ UNCHANGED life
         \/ at[p] \in MakingChild /\ life' = [life EXCEPT ![child[p]] = "dead"]
      /\ UNCHANGED <<mem, released>>
  BY DEF Fail, Runs, Moves, MakingChild
<1>2. released[p]
  BY <1>1 DEF IInv, Handshake, Made
<1>3. /\ at \in [Proc -> Where] /\ eax \in [Proc -> Result]
      /\ life \in [Proc -> {"unused", "suspended", "running", "dead"}]
  BY DEF IInv, TypeOK
<1>4. \A q \in Proc : released[q] => life'[q] = life[q]
  BY <1>1, <1>3 DEF IInv, Handshake, Owner
<1>5. /\ at'[p] = "caller" /\ eax'[p] = -1
      /\ \A q \in Proc : q # p => at'[q] = at[q] /\ eax'[q] = eax[q]
  BY <1>1, <1>3
<1>6. at[p] # "caller"
  BY <1>1 DEF Making
<1>7. UNCHANGED AbsState
  BY <1>1, <1>4 DEF AbsState
<1>8. AbsLog' = [AbsLog EXCEPT ![p] = Append(AbsLog[p], -1)]
  <2>1. AbsLog[p] = mem[p].log /\ AbsLog'[p] = Append(mem[p].log, -1)
    BY <1>1, <1>2, <1>5, <1>6 DEF AbsLog
  <2>2. \A q \in Proc : q # p => AbsLog'[q] = AbsLog[q]
    BY <1>1, <1>5 DEF AbsLog
  <2>3. QED
    BY <2>1, <2>2, AbsFunctions
<1>9. AbsState[p] = "running"
  BY <1>1, <1>2 DEF AbsState
<1>10. QED
  BY <1>7, <1>8, <1>9 DEF Promise!ForkFails

(* A process that dies is the end of a program, if it was let go.          *)
LEMMA EndEnds ==
  ASSUME IInv, NEW p \in Proc, End(p)
  PROVE  Promise!End(p) \/ UNCHANGED <<AbsState, AbsLog>>
<1>1. /\ life[p] \in {"running", "suspended"} /\ life' = [life EXCEPT ![p] = "dead"]
      /\ UNCHANGED <<at, eax, mem, released>>
  BY DEF End, thread, Runs
<1>2. life \in [Proc -> {"unused", "suspended", "running", "dead"}]
  BY DEF IInv, TypeOK
<1>3. UNCHANGED AbsLog
  BY <1>1 DEF AbsLog
<1>4. CASE released[p]
  <2>1. AbsState[p] = "running"
    BY <1>1, <1>4 DEF AbsState
  <2>2. AbsState' = [AbsState EXCEPT ![p] = "gone"]
    BY <1>1, <1>2, <1>4 DEF AbsState
  <2>3. QED
    BY <1>3, <2>1, <2>2 DEF Promise!End
<1>5. CASE ~released[p]
  BY <1>1, <1>2, <1>3, <1>5 DEF AbsState
<1>6. QED
  BY <1>4, <1>5

(* fork is ForkSpec's fork, for any number of processes and forks, with    *)
(* any call failing and any process killed at any time.                    *)
THEOREM ForkImplementsForkSpec == Spec => ImplementsFork
<1>1. Init => Promise!Init
  <2> SUFFICES ASSUME Init PROVE Promise!Init
    OBVIOUS
  <2>1. \A p \in Proc : /\ released[p] <=> p = Root
                         /\ life[p] # "dead" /\ at[p] # "caller"
                         /\ mem[p].log = << >>
    BY DEF Init, Fresh
  <2>2. AbsState = [p \in Proc |-> IF p = Root THEN "running" ELSE "none"]
    <3>1. AbsState[Root] = "running"
      <4>1. Root \in Proc /\ released[Root] /\ life[Root] # "dead"
        BY ProcAssumption DEF Init
      <4>2. QED
        BY <4>1 DEF AbsState
    <3>2. \A p \in Proc : p # Root => AbsState[p] = "none"
      BY <2>1 DEF AbsState
    <3>3. QED
      BY <3>1, <3>2, AbsFunctions
  <2>3. AbsLog = [p \in Proc |-> << >>]
    BY <2>1 DEF AbsLog
  <2>4. QED
    BY <2>2, <2>3 DEF Promise!Init
<1>2. IInv /\ [Next]_vars => [Promise!Next]_<<AbsState, AbsLog>>
  <2> SUFFICES ASSUME IInv, [Next]_vars
               PROVE  [Promise!Next]_<<AbsState, AbsLog>>
    OBVIOUS
  <2>1. ASSUME NEW p \in Proc, Starts(p) PROVE UNCHANGED <<AbsState, AbsLog>>
    BY <2>1, StartsUnseen, UnseenStutters
  <2>2. ASSUME NEW p \in Proc, Forks(p)
        PROVE  [Promise!Next]_<<AbsState, AbsLog>>
    <3>1. CASE Release(p)
      <4>1. child[p] \in Proc
        BY <3>1 DEF Release, Making1, Runs, IInv, Handshake, Owner, MakingChild,
           Making
      <4>2. QED
        BY <3>1, <4>1, ReleaseForks DEF Promise!Next
    <3>2. CASE Return(p)
      BY <3>2, ReturnStutters
    <3>3. CASE ~Release(p) /\ ~Return(p)
      BY <2>2, <3>3, ForksUnseen, UnseenStutters
    <3>4. QED
      BY <3>1, <3>2, <3>3
  <2>3. ASSUME NEW p \in Proc, Fail(p) PROVE Promise!Next
    BY <2>3, FailForkFails DEF Promise!Next
  <2>4. ASSUME NEW p \in Proc, Chooses(p)
        PROVE  [Promise!Next]_<<AbsState, AbsLog>>
    <3>1. CASE End(p)
      BY <3>1, EndEnds DEF Promise!Next
    <3>2. CASE ~End(p)
      BY <2>4, <3>2, ChoosesUnseen, UnseenStutters
    <3>3. QED
      BY <3>1, <3>2
  <2>5. CASE UNCHANGED vars
    BY <2>5 DEF vars, thread, AbsState, AbsLog
  <2>6. QED
    BY <2>1, <2>2, <2>3, <2>4, <2>5 DEF Next
<1>3. QED
  BY Invariance, <1>1, <1>2, PTL DEF Spec, ImplementsFork, Promise!Spec
=============================================================================
