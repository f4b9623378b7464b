-------------------------- MODULE PublicationProofs --------------------------
(***************************************************************************)
(* Theorems about what module Pipeline delivers: the documents of run/out/ *)
(* and all.vert, and that the pipeline implements module Corpus.           *)
(***************************************************************************)
EXTENDS PipelineProofs

-----------------------------------------------------------------------------
(* A name in a queue that is still to be read has no document in run/out/. *)
(* queueFile tested that when it queued the name, possibly in a run whose  *)
(* find was interrupted and which went on with what was queued by then.    *)

(* From the call of find to the start of the workers: a Ctrl-C takes the   *)
(* way over endfunc and returns.                                           *)
Collecting ==
    \/ main = "find"
    \/ main \in {"endfunc", "finish", "cat"} /\ after = "find"

Undelivered(p, i) == out[queue[p][i]] = None

OutInv ==
    /\ after = "find" => ~trap /\ main # "idle"
    /\ Collecting => AllOff
    /\ Collecting =>
          \A p \in Procs : \A i \in DOMAIN queue[p] : Undelivered(p, i)
    /\ \A p \in Procs : pc[p] # "off" =>
          \A i \in DOMAIN queue[p] : i >= pos[p] => Undelivered(p, i)

LEMMA WorkerSteps ==
    ASSUME TypeInv, NEW p \in Procs, Worker(p) \/ KillFirst(p) \/ KillStage(p)
    PROVE  /\ pc[p] # "off" /\ UNCHANGED <<driverVars, in, allVert>>
           /\ \A q \in Procs \ {p} :
                 UNCHANGED <<pc[q], pos[q], stage[q], inFile[q]>>
           /\ Deliver(p) \/ UNCHANGED <<pos, out>>
<1>1. TypeOK
  BY DEF TypeInv
<1>2. pc[p] # "off" /\ UNCHANGED <<driverVars, in, allVert>>
  BY DEF Worker, ReadLine, Copy, CopyRest, SplitHeader, SplitBody, Skip, Begin,
         AppendLine, Rename, BeginDoc, WriteDoc, RenameDoc, Deliver,
         KillStage, KillFirst
<1>3. ASSUME NEW q \in Procs \ {p}
      PROVE  UNCHANGED <<pc[q], pos[q], stage[q], inFile[q]>>
  BY <1>1, NextStageTexts
  DEF Worker, ReadLine, Copy, CopyRest, SplitHeader, SplitBody, Skip, Begin,
      AppendLine, Rename, BeginDoc, WriteDoc, RenameDoc, Deliver, KillStage,
      KillFirst, TypeOK
<1>4. Deliver(p) \/ UNCHANGED <<pos, out>>
  BY
  DEF Worker, ReadLine, Copy, CopyRest, SplitHeader, SplitBody, Skip, Begin,
      AppendLine, Rename, BeginDoc, WriteDoc, RenameDoc, KillStage, KillFirst
<1> QED
  BY <1>2, <1>3, <1>4

(* All steps that are not a worker's leave the working files alone.        *)
LEMMA OtherSteps ==
    ASSUME [Next]_vars,
           ~ \E p \in Procs : Worker(p) \/ KillFirst(p) \/ KillStage(p)
    PROVE  UNCHANGED workingVars /\ (RemovePreviousOutput \/ UNCHANGED out)
BY
DEF Next, Driver, Disturbance, User, Start, QueueFile, Launch, Exit,
    RemoveAll, OpenAll, CatBegin, CatEnd, CloseAll, Crash, CtrlCInFind,
    CtrlCInFinish, CtrlCInWait, SignalMain, Withdraw, PrepareCorpus,
    RemovePreviousOutput, vars

(* Nor do they set a worker to work in the middle of a file.               *)
LEMMA WorkersAside ==
    ASSUME TypeInv, [Next]_vars,
           ~ \E p \in Procs : Worker(p) \/ KillFirst(p) \/ KillStage(p)
    PROVE  \/ UNCHANGED <<queue, workerVars>>
           \/ \A p \in Procs : pc'[p] \in {"off", "read"}
<1>1. CASE Launch \/ Crash \/ CtrlCInWait
  BY <1>1 DEF Launch, Crash, CtrlCInWait, StopWorkers
<1>2. CASE \/ \E n \in ThreadCounts : Start(n)
           \/ \E f \in Files : QueueFile(f)
  BY <1>2 DEF TypeInv, PhaseOK, AllOff, Start, QueueFile, workerVars
<1> QED
  BY <1>1, <1>2
  DEF Next, Driver, Disturbance, User, Exit, RemoveAll, OpenAll, CatBegin,
      CatEnd, CloseAll, CtrlCInFind, CtrlCInFinish, SignalMain, Withdraw,
      PrepareCorpus, RemovePreviousOutput, vars, driverVars

LEMMA OutInvInit == Init => OutInv
<1> SUFFICES ASSUME Init PROVE OutInv
  OBVIOUS
<1>1. ~Collecting /\ after # "find" /\ \A p \in Procs : pc[p] = "off"
  BY DEF Init, Collecting
<1> QED
  BY <1>1 DEF OutInv

LEMMA OutInvWorker ==
    ASSUME TypeInv, QueuedOnce, OutInv,
           NEW p \in Procs, Worker(p) \/ KillFirst(p) \/ KillStage(p)
    PROVE  OutInv'
<1>1. /\ pc[p] # "off" /\ UNCHANGED driverVars
      /\ \A q \in Procs \ {p} : UNCHANGED <<pc[q], pos[q]>>
      /\ Deliver(p) \/ UNCHANGED <<pos, out>>
  BY WorkerSteps
<1>2. UNCHANGED <<queue, main, after, trap>>
  BY <1>1 DEF driverVars
<1>3. ~Collecting /\ ~Collecting'
  BY <1>1, <1>2 DEF OutInv, Collecting, AllOff
<1>4. ASSUME NEW q \in Procs, pc'[q] # "off",
             NEW i \in DOMAIN queue[q], i >= pos'[q]
      PROVE  out'[queue[q][i]] = None
  <2>1. CASE Deliver(p)
    <3>1. Cur(p) \in Files /\ pos[p] \in DOMAIN queue[p] /\ pos[p] \in Nat
      <4>1. Busy(p)
        BY <2>1 DEF Deliver, Busy
      <4> QED
        BY <4>1, CurIsFile DEF TypeInv, TypeOK
    <3>2. queue[q] \in Seq(Files) /\ i \in Nat /\ queue[q][i] \in Files
      BY DEF TypeInv, TypeOK
    <3>3. pos' = [pos EXCEPT ![p] = @ + 1] /\ pos \in [Procs -> Nat \ {0}]
      BY <2>1 DEF Deliver, TypeInv, TypeOK
    <3>4. q = p => i # pos[p] /\ i >= pos[p]
      BY <1>4, <3>1, <3>2, <3>3
    <3>5. queue[q][i] # Cur(p)
      BY <3>1, <3>4 DEF QueuedOnce, Cur
    <3>6. pc[q] # "off" /\ i >= pos[q]
      BY <1>1, <1>4, <3>4
    <3>7. out[queue[q][i]] = None
      BY <3>6 DEF OutInv, Undelivered
    <3> QED
      BY <2>1, <3>2, <3>5, <3>7 DEF Deliver, TypeInv, TypeOK
  <2>2. CASE UNCHANGED <<pos, out>>
    <3>1. pc[q] # "off"
      BY <1>1, <1>4
    <3> QED
      BY <1>4, <2>2, <3>1 DEF OutInv, Undelivered
  <2> QED
    BY <1>1, <2>1, <2>2
<1> QED
  BY <1>2, <1>3, <1>4 DEF OutInv, Undelivered

LEMMA OutInvQueueFile ==
    ASSUME TypeInv, OutInv, NEW f \in Files, QueueFile(f)
    PROVE  OutInv'
<1>1. /\ main = "find" /\ UNCHANGED <<main, after, trap, out, pc>>
      /\ Collecting /\ Collecting' /\ AllOff /\ AllOff'
  BY DEF QueueFile, workerVars, Collecting, OutInv, AllOff
<1>2. ASSUME NEW p \in Procs, NEW i \in DOMAIN queue'[p]
      PROVE  out[queue'[p][i]] = None
  <2>1. CASE PassedOver(f)
    BY <1>1, <2>1 DEF QueueFile, OutInv, Undelivered
  <2>2. CASE ~PassedOver(f)
    <3>1. queue' = [queue EXCEPT ![Turn] = Append(queue[Turn], f)]
      BY <2>2 DEF QueueFile
    <3>2. queue \in [Procs -> Seq(Files)]
      BY DEF TypeInv, TypeOK
    <3>3. \/ i \in DOMAIN queue[p] /\ queue'[p][i] = queue[p][i]
          \/ queue'[p][i] = f
      <4>1. CASE p = Turn
        BY <3>1, <3>2, <4>1, AppendProperties
      <4>2. CASE p # Turn
        BY <3>1, <3>2, <4>2
      <4> QED
        BY <4>1, <4>2
    <3>4. out[f] = None
      BY <2>2 DEF PassedOver
    <3> QED
      BY <1>1, <3>3, <3>4 DEF OutInv, Undelivered
  <2> QED
    BY <2>1, <2>2
<1> QED
  BY <1>1, <1>2 DEF OutInv, Undelivered, AllOff

LEMMA OutInvOthers ==
    ASSUME TypeInv, QueueInv, OutInv, [Next]_vars,
           ~ \E p \in Procs : Worker(p) \/ KillFirst(p) \/ KillStage(p),
           ~ \E f \in Files : QueueFile(f)
    PROVE  OutInv'
<1>1. ASSUME NEW n \in ThreadCounts, Start(n) PROVE OutInv'
  <2>1. \A p \in Procs : queue'[p] = <<>>
    BY <1>1, StartEmpties
  <2>2. /\ main = "idle" /\ main' = "find" /\ UNCHANGED <<after, pc>>
        /\ AllOff /\ AllOff'
    BY <1>1 DEF Start, workerVars, TypeInv, PhaseOK, AllOff
  <2> QED
    BY <2>1, <2>2 DEF OutInv
<1>2. CASE Launch
  <2>1. UNCHANGED <<queue, out, after, trap>> /\ main = "find"
        /\ main' = "wait"
    BY <1>2 DEF Launch
  <2>2. ~Collecting'
    BY <2>1 DEF Collecting
  <2>3. \A p \in Procs : \A i \in DOMAIN queue[p] : Undelivered(p, i)
    BY <2>1 DEF OutInv, Collecting
  <2> QED
    BY <2>1, <2>2, <2>3 DEF OutInv, Undelivered
<1>3. CASE Exit \/ CtrlCInWait \/ Crash
  <2>1. ~Collecting' /\ after' = "idle" /\ AllOff'
    BY <1>3 DEF Exit, CtrlCInWait, Crash, Collecting, AllOff, StopWorkers,
                workerVars
  <2> QED
    BY <2>1 DEF OutInv, AllOff
<1>4. CASE SignalMain
  <2>1. ~Collecting' /\ after' = "idle" /\ UNCHANGED <<queue, out, workerVars>>
    BY <1>4 DEF SignalMain, Collecting
  <2> QED
    BY <2>1 DEF OutInv, Undelivered, workerVars
<1>5. CASE \/ CtrlCInFind \/ CtrlCInFinish
           \/ RemoveAll \/ OpenAll \/ CloseAll
           \/ \E f \in Files : CatBegin(f) \/ CatEnd(f)
  <2>1. /\ UNCHANGED <<queue, out, workerVars>>
        /\ Collecting' => Collecting
        /\ after' = "find" => ~trap' /\ main' # "idle"
    BY <1>5
    DEF CtrlCInFind, CtrlCInFinish, RemoveAll, OpenAll, CloseAll, CatBegin,
        CatEnd, driverVars, Collecting, OutInv
  <2> QED
    BY <2>1 DEF OutInv, Undelivered, workerVars, AllOff
<1>6. CASE \/ \E f \in Files : Withdraw(f)
           \/ PrepareCorpus \/ UNCHANGED vars
  <2>1. UNCHANGED <<driverVars, out, workerVars>>
    BY <1>6 DEF Withdraw, PrepareCorpus, vars
  <2> QED
    BY <2>1 DEF driverVars, OutInv, Undelivered, Collecting, workerVars,
                AllOff
<1>7. CASE RemovePreviousOutput
  <2>1. UNCHANGED <<driverVars, workerVars>> /\ main = "idle"
    BY <1>7 DEF RemovePreviousOutput
  <2>2. ~Collecting' /\ after' # "find" /\ AllOff'
    BY <2>1 DEF driverVars, workerVars, Collecting, OutInv, AllOff, TypeInv,
                PhaseOK
  <2> QED
    BY <2>2 DEF OutInv, AllOff
<1> QED
  BY <1>1, <1>2, <1>3, <1>4, <1>5, <1>6, <1>7
  DEF Next, Driver, Disturbance, User

LEMMA OutInvNext ==
    ASSUME TypeInv, QueueInv, OutInv, [Next]_vars
    PROVE  OutInv'
BY OutInvWorker, OutInvQueueFile, OutInvOthers DEF QueueInv

(* A document is delivered where there was none, and then stays.           *)
LEMMA DocumentsStay ==
    ASSUME TypeInv, OutInv, NEW p \in Procs, Deliver(p)
    PROVE  Cur(p) \in Files /\ out[Cur(p)] = None
<1>1. pc[p] = "deliver" /\ Busy(p)
  BY DEF Deliver, Busy
<1>2. /\ Cur(p) \in Files /\ pos[p] \in DOMAIN queue[p]
      /\ pos[p] \in Nat
  BY <1>1, CurIsFile DEF TypeInv, TypeOK
<1> QED
  BY <1>1, <1>2 DEF OutInv, Undelivered, Cur

(* While finish.sh works out/ stands still, and all.vert has of each name  *)
(* that find has still to pass to cat nothing or a part, of the others the *)
(* document.                                                               *)
AssemblyInv ==
    /\ main = "finish" => allVert = None
    /\ main = "cat" => \A f \in Files :
          IF f \in todo
          THEN out[f] # None /\ allVert[f] \in {None, Part}
          ELSE allVert[f] = out[f]

LEMMA AssemblyInvInit == Init => AssemblyInv
BY DEF Init, AssemblyInv

LEMMA AssemblyInvNext ==
    ASSUME TypeInv, AssemblyInv, [Next]_vars
    PROVE  AssemblyInv'
<1>t. /\ main = "cat" => allVert \in [Files -> Seq(Blocks) \cup {None}]
      /\ out \in [Files -> Seq(Blocks) \cup {None}]
  BY DEF TypeInv, TypeOK, PhaseOK
<1>1. ASSUME NEW f \in Files, CatBegin(f) PROVE AssemblyInv'
  <2>1. /\ UNCHANGED <<main, todo, out>> /\ main = "cat" /\ f \in todo
        /\ allVert' = [allVert EXCEPT ![f] = Part]
    BY <1>1 DEF CatBegin, driverVars
  <2> QED
    BY <1>t, <2>1 DEF AssemblyInv
<1>2. ASSUME NEW f \in Files, CatEnd(f) PROVE AssemblyInv'
  <2>1. /\ UNCHANGED <<main, out>> /\ main = "cat" /\ f \in todo
        /\ todo' = todo \ {f}
        /\ allVert' = [allVert EXCEPT ![f] = out[f]]
    BY <1>2 DEF CatEnd
  <2> QED
    BY <1>t, <2>1 DEF AssemblyInv
<1>3. CASE OpenAll
  <2>1. /\ main' = "cat" /\ UNCHANGED out /\ allVert' = NoFile
        /\ todo' = {f \in Files : out[f] # None}
    BY <1>3 DEF OpenAll
  <2> QED
    BY <2>1 DEF AssemblyInv, NoFile
<1>4. CASE RemoveAll
  BY <1>4 DEF RemoveAll, AssemblyInv
<1>5. CASE \/ Launch \/ Exit \/ CloseAll \/ Crash \/ CtrlCInFind
           \/ CtrlCInWait \/ CtrlCInFinish \/ SignalMain
           \/ \E n \in ThreadCounts : Start(n)
           \/ \E f \in Files : QueueFile(f)
  <2>1. main' \notin {"finish", "cat"}
    BY <1>5
    DEF Launch, Exit, CloseAll, Crash, CtrlCInFind, CtrlCInWait,
        CtrlCInFinish, SignalMain, Start, QueueFile, TypeInv, TypeOK
  <2> QED
    BY <2>1 DEF AssemblyInv
<1>6. CASE \E p \in Procs : Worker(p) \/ KillFirst(p) \/ KillStage(p)
  <2>1. UNCHANGED main /\ main \notin {"finish", "cat"}
    BY <1>6, WorkerSteps DEF driverVars, TypeInv, PhaseOK, AllOff
  <2> QED
    BY <2>1 DEF AssemblyInv
<1>7. CASE PrepareCorpus \/ RemovePreviousOutput
  <2>1. UNCHANGED main /\ main = "idle"
    BY <1>7 DEF PrepareCorpus, RemovePreviousOutput, driverVars
  <2> QED
    BY <2>1 DEF AssemblyInv
<1>8. CASE (\E f \in Files : Withdraw(f)) \/ UNCHANGED vars
  BY <1>8 DEF Withdraw, vars, driverVars, AssemblyInv
<1> QED
  BY <1>1, <1>2, <1>3, <1>4, <1>5, <1>6, <1>7, <1>8
  DEF Next, Driver, Disturbance, User

(* The end of the assembly is the end of find's list: all.vert then has    *)
(* all documents of out/, for any numbers of threads, whatever has stopped *)
(* or killed what before.                                                  *)
LEMMA WholeAtTheEnd == TypeInv /\ AssemblyInv => AssembledWhole
<1> SUFFICES ASSUME TypeInv, AssemblyInv, main = "cat", todo = {}
             PROVE  allVert = out
  BY DEF AssembledWhole
<1>1. /\ allVert \in [Files -> Seq(Blocks) \cup {None}]
      /\ out \in [Files -> Seq(Blocks) \cup {None}]
  BY DEF TypeInv, TypeOK, PhaseOK
<1>2. \A f \in Files : allVert[f] = out[f]
  BY DEF AssemblyInv
<1> QED
  BY <1>1, <1>2

THEOREM AssembledIsWhole == Spec => []AssembledWhole
<1> DEFINE IInv == TypeInv /\ AssemblyInv
<1>1. Init => IInv
  BY TypeInvInit, AssemblyInvInit
<1>2. IInv /\ [Next]_vars => IInv'
  BY TypeInvNext, AssemblyInvNext
<1> QED
  BY <1>1, <1>2, WholeAtTheEnd, PTL DEF Spec

LEMMA AgreementInit == Init => PartsAgree
BY NoneIsNoContent DEF Init, PartsAgree

LEMMA AgreementNext ==
    ASSUME TypeInv, OutInv, AssemblyInv, PartsAgree, [Next]_vars
    PROVE  PartsAgree'
<1>1. CASE \E p \in Procs : Worker(p) \/ KillFirst(p) \/ KillStage(p)
  <2>1. PICK p \in Procs : Worker(p) \/ KillFirst(p) \/ KillStage(p)
    BY <1>1
  <2>2. UNCHANGED allVert /\ (Deliver(p) \/ UNCHANGED out)
    BY <2>1, WorkerSteps
  <2>3. CASE Deliver(p)
    <3>1. Cur(p) \in Files /\ out[Cur(p)] = None
      BY <2>3, DocumentsStay
    <3>2. \A f \in Files \ {Cur(p)} : out'[f] = out[f]
      BY <2>3, <3>1 DEF Deliver, TypeInv, TypeOK
    <3> QED
      BY <2>2, <3>1, <3>2 DEF PartsAgree
  <2> QED
    BY <2>2, <2>3 DEF PartsAgree
<1>2. CASE main' = "cat"
  <2>1. AssemblyInv'
    BY AssemblyInvNext
  <2> QED
    BY <1>2, <2>1 DEF AssemblyInv, PartsAgree
<1>3. CASE /\ main' # "cat"
           /\ ~ \E p \in Procs :
                 Worker(p) \/ KillFirst(p) \/ KillStage(p)
  <2>1. allVert' = None \/ UNCHANGED <<out, allVert>>
    BY <1>3
    DEF Next, Driver, Disturbance, User, Start, QueueFile, Launch, Exit,
        RemoveAll, OpenAll, CatBegin, CatEnd, CloseAll, Crash, CtrlCInFind,
        CtrlCInFinish, CtrlCInWait, SignalMain, Withdraw, PrepareCorpus,
        RemovePreviousOutput, vars, driverVars
  <2> QED
    BY <2>1 DEF PartsAgree
<1> QED
  BY <1>1, <1>2, <1>3

(* With a fixed n all.vert never disagrees with run/out/, wherever the     *)
(* writing of it was stopped: of each file it has nothing, a part or the   *)
(* document that is there, and no document that it has of is replaced      *)
(* before it is assembled anew.                                            *)
THEOREM AllVertIsCurrent ==
    ASSUME FixedThreads
    PROVE  Spec => []AllVertAgrees
<1> DEFINE IInv == TypeInv /\ QueueInv /\ OutInv /\ AssemblyInv
                   /\ PartsAgree
<1>1. Init => IInv
  BY TypeInvInit, QueueInvInit, OutInvInit, AssemblyInvInit, AgreementInit
<1>2. IInv /\ [Next]_vars => IInv'
  BY TypeInvNext, QueueInvNext, OutInvNext, AssemblyInvNext, AgreementNext
<1>3. IInv => AllVertAgrees
  BY WholeAtTheEnd DEF AllVertAgrees
<1> QED
  BY <1>1, <1>2, <1>3, PTL DEF Spec

-----------------------------------------------------------------------------
(* The documents.  f.vert and what it is delivered as are one <doc> of one *)
(* text, which has been through all stages unless stages can be killed.    *)

DocPaths == IF "kill" \in Faults THEN Paths ELSE {AllStages}

GoodDocs == {<<[hdr |-> h, body |-> t, path |-> P]>> :
                h \in Editions, t \in Bodies, P \in DocPaths}

(* What the stages before s have written, if all of them have run.         *)
Before(s) == {k \in BodyStages : k < s}

WorkerDocs(p) ==
    /\ "kill" \notin Faults /\ pc[p] \in {"begin", "loop", "rename"} =>
          \A s \in 3..stage[p] : work[Cur(p)][Before(s)] # None
    /\ pc[p] = "loop" /\ "kill" \notin Faults => inFile[p] = Before(stage[p])
    /\ pc[p] = "loop" /\ stage[p] = 5 =>
          /\ OneText(work[Cur(p)][inFile[p]])
          /\ vertTemp[Cur(p)] = <<>>
    /\ pc[p] = "rename" => stage[p] = 5 /\ vertTemp[Cur(p)] \in GoodDocs

DocInv ==
    /\ \A f \in Files : vert[f] # None => vert[f] \in GoodDocs
    /\ \A f \in Files : out[f] # None => out[f] \in GoodDocs
    /\ \A p \in Procs : WorkerDocs(p)

(* The chain of tests at the top of stage s finds the last file of the     *)
(* stages before it.                                                       *)
LEMMA InputAfterAll ==
    ASSUME NEW f \in Files, NEW s \in 2..5,
           \A k \in 3..s : work[f][Before(k)] # None
    PROVE  Input(f, s) = Before(s)
<1>1. /\ Before(2) = {} /\ Before(3) = {2} /\ Before(4) = {2, 3}
      /\ Before(5) = {2, 3, 4}
  BY DEF Before, BodyStages
<1>2. /\ {} \cup {2} = {2} /\ {2} \cup {3} = {2, 3}
      /\ {2, 3} \cup {4} = {2, 3, 4}
  OBVIOUS
<1>3. CASE s = 2
  BY <1>1, <1>3 DEF Input
<1>4. CASE s = 3
  BY <1>1, <1>2, <1>4 DEF Input, Extend
<1>5. CASE s = 4
  <2>1. work[f][{2}] # None /\ work[f][{2, 3}] # None
    BY <1>1, <1>5
  <2>2. Extend(f, {}, 2) = {2}
    BY <1>2, <2>1 DEF Extend
  <2>3. Extend(f, {2}, 3) = {2, 3}
    BY <1>2, <2>1 DEF Extend
  <2> QED
    BY <1>1, <1>5, <2>2, <2>3 DEF Input
<1>6. CASE s = 5
  <2>1. /\ work[f][{2}] # None /\ work[f][{2, 3}] # None
        /\ work[f][{2, 3, 4}] # None
    BY <1>1, <1>6
  <2>2. Extend(f, {}, 2) = {2}
    BY <1>2, <2>1 DEF Extend
  <2>3. Extend(f, {2}, 3) = {2, 3}
    BY <1>2, <2>1 DEF Extend
  <2>4. Extend(f, {2, 3}, 4) = {2, 3, 4}
    BY <1>2, <2>1 DEF Extend
  <2> QED
    BY <1>1, <1>6, <2>2, <2>3, <2>4 DEF Input
<1> QED
  BY <1>3, <1>4, <1>5, <1>6

LEMMA BeforeNext ==
    ASSUME NEW s \in 2..4
    PROVE  Before(s) \cup {s} = Before(s + 1)
BY DEF Before, BodyStages

LEMMA DocInvInit == Init => DocInv
<1> SUFFICES ASSUME Init PROVE DocInv
  OBVIOUS
<1>1. \A f \in Files : vert[f] = None /\ out[f] = None
  BY DEF Init, NoFile
<1>2. \A p \in Procs : WorkerDocs(p)
  BY DEF Init, WorkerDocs
<1> QED
  BY <1>1, <1>2 DEF DocInv

(* What a step of p does to what is said of the others.                    *)
LEMMA DocFrame ==
    ASSUME TypeInv, DocInv, NoSharedFile, NEW p \in Procs,
           UNCHANGED queue,
           \A q \in Procs \ {p} :
              UNCHANGED <<pc[q], pos[q], stage[q], inFile[q]>>,
           \A g \in Files :
              \/ work'[g] = work[g] /\ vertTemp'[g] = vertTemp[g]
              \/ Busy(p) /\ g = Cur(p),
           NEW q \in Procs, q # p
    PROVE  WorkerDocs(q)'
<1>1. WorkerDocs(q) /\ Cur(q)' = Cur(q)
  BY DEF DocInv, Cur
<1>2. CASE Busy(q)
  <2>1. Cur(q) \in Files /\ ~(Busy(p) /\ Cur(q) = Cur(p))
    BY <1>2, CurIsFile DEF NoSharedFile
  <2>2. /\ work'[Cur(q)] = work[Cur(q)]
        /\ vertTemp'[Cur(q)] = vertTemp[Cur(q)]
    BY <2>1
  <2> QED
    BY <1>1, <2>2 DEF WorkerDocs
<1>3. CASE ~Busy(q)
  <2>1. pc'[q] \notin {"begin", "loop", "rename"}
    BY <1>3 DEF Busy
  <2> QED
    BY <2>1 DEF WorkerDocs
<1> QED
  BY <1>2, <1>3

(* Where a step of p changes what DocInv speaks of.                        *)
LEMMA WorkerWritesOwn ==
    ASSUME TypeInv, NEW p \in Procs, Worker(p) \/ KillFirst(p) \/ KillStage(p),
           NEW g \in Files, ~(Busy(p) /\ g = Cur(p))
    PROVE  work'[g] = work[g] /\ vertTemp'[g] = vertTemp[g]
<1>1. work'[g] = work[g]
  BY WhereWorkChanges
<1>2. vertTemp'[g] = vertTemp[g]
  <2>1. CASE BeginDoc(p) \/ WriteDoc(p) \/ RenameDoc(p)
    <3>1. Busy(p) /\ vertTemp \in [Files -> Seq(Blocks) \cup {None}]
      BY <2>1 DEF BeginDoc, WriteDoc, RenameDoc, Busy, TypeInv, TypeOK
    <3> QED
      BY <2>1, <3>1 DEF BeginDoc, WriteDoc, RenameDoc
  <2>2. CASE ~(BeginDoc(p) \/ WriteDoc(p) \/ RenameDoc(p))
    BY <2>2
    DEF Worker, ReadLine, Copy, CopyRest, SplitHeader, SplitBody, Skip, Begin,
        AppendLine, Rename, Deliver, KillStage, KillFirst, workingVars
  <2> QED
    BY <2>1, <2>2
<1> QED
  BY <1>1, <1>2

(* Finished files under the names of run/working/corpus/ and run/out/.     *)
LEMMA DocFiles ==
    ASSUME TypeInv, DocInv, NEW p \in Procs,
           Worker(p) \/ KillFirst(p) \/ KillStage(p)
    PROVE  /\ \A f \in Files : vert'[f] # None => vert'[f] \in GoodDocs
           /\ \A f \in Files : out'[f] # None => out'[f] \in GoodDocs
<1>1. /\ vert \in [Files -> Seq(Blocks) \cup {None}]
      /\ out \in [Files -> Seq(Blocks) \cup {None}]
  BY DEF TypeInv, TypeOK
<1>2. CASE RenameDoc(p)
  <2>1. vertTemp[Cur(p)] \in GoodDocs
    BY <1>2 DEF RenameDoc, DocInv, WorkerDocs
  <2> QED
    BY <1>1, <1>2, <2>1 DEF RenameDoc, DocInv
<1>3. CASE Deliver(p)
  <2>1. Busy(p)
    BY <1>3 DEF Deliver, Busy
  <2>2. Cur(p) \in Files
    BY <2>1, CurIsFile
  <2> QED
    BY <1>1, <1>3, <2>2 DEF Deliver, DocInv
<1>4. CASE ~(RenameDoc(p) \/ Deliver(p))
  <2>1. UNCHANGED <<vert, out>>
    BY <1>4
    DEF Worker, ReadLine, Copy, CopyRest, SplitHeader, SplitBody, Skip, Begin,
        AppendLine, Rename, BeginDoc, WriteDoc, KillStage, KillFirst,
        workingVars
  <2> QED
    BY <2>1 DEF DocInv
<1> QED
  BY <1>2, <1>3, <1>4

(* A worker that enters the next stage finds what the last one wrote.      *)
LEMMA NextStageDocs ==
    ASSUME TypeInv, DocInv, NEW p \in Procs, NextStage(p),
           UNCHANGED <<queue, pos>>, pc[p] \in {"begin", "loop", "rename"},
           \A s \in 3..stage[p] :
              work[Cur(p)][Before(s)] # None =>
                 work'[Cur(p)][Before(s)] # None,
           "kill" \notin Faults /\ stage[p] # 5 =>
              work'[Cur(p)][Before(stage[p] + 1)] # None
    PROVE  WorkerDocs(p)'
<1>1. WorkerDocs(p) /\ Cur(p)' = Cur(p)
  BY DEF DocInv, Cur
<1>2. CASE stage[p] = 5
  <2>1. pc'[p] = "deliver"
    BY <1>2 DEF NextStage, TypeInv, TypeOK
  <2> QED
    BY <2>1 DEF WorkerDocs
<1>3. CASE stage[p] # 5
  <2>1. pc'[p] = "begin" /\ stage'[p] = stage[p] + 1 /\ stage[p] \in 2..5
    BY <1>3 DEF NextStage, TypeInv, TypeOK
  <2>2. ASSUME "kill" \notin Faults, NEW s \in 3..stage'[p]
        PROVE  work'[Cur(p)][Before(s)] # None
    <3>1. CASE s = stage[p] + 1
      BY <1>3, <2>2, <3>1
    <3>2. CASE s # stage[p] + 1
      <4>1. s \in 3..stage[p]
        BY <2>1, <3>2
      <4> QED
        BY <1>1, <2>2, <4>1 DEF WorkerDocs
    <3> QED
      BY <3>1, <3>2
  <2> QED
    BY <1>1, <2>1, <2>2 DEF WorkerDocs
<1> QED
  BY <1>2, <1>3

LEMMA DocInvOwn ==
    ASSUME TypeInv, TextInv, DocInv, NEW p \in Procs,
           Worker(p) \/ KillFirst(p) \/ KillStage(p)
    PROVE  WorkerDocs(p)'
<1> DEFINE f == Cur(p)
<1>t. TypeOK /\ WorkIsText /\ WorkerTexts(p) /\ WorkerDocs(p)
  BY DEF TypeInv, TextInv, DocInv
<1>f. Busy(p) => f \in Files
  BY CurIsFile
<1>s. stage[p] \in 2..5 /\ inFile[p] \in Paths
  BY <1>t DEF TypeOK
<1>d. work \in [Files -> [Paths -> Texts \cup {None}]]
  BY <1>t DEF TypeOK
<1>q. UNCHANGED queue
  BY WorkerSteps DEF driverVars
<1>c. pos'[p] = pos[p] => Cur(p)' = f
  BY <1>q DEF Cur
<1>i. /\ "kill" \notin Faults
      /\ pc[p] = "begin"
      => Input(f, stage[p]) = Before(stage[p])
  <2> SUFFICES ASSUME "kill" \notin Faults, pc[p] = "begin"
               PROVE  Input(f, stage[p]) = Before(stage[p])
    OBVIOUS
  <2>1. f \in Files
    BY <1>f DEF Busy
  <2>2. \A k \in 3..stage[p] : work[f][Before(k)] # None
    BY <1>t DEF WorkerDocs, f
  <2> HIDE DEF f
  <2> QED
    BY <1>s, <2>1, <2>2, InputAfterAll
<1>n. stage[p] # 5 => Before(stage[p]) \cup {stage[p]} = Before(stage[p] + 1)
  BY <1>s, BeforeNext
<1> HIDE DEF f
<1>1. CASE \/ ReadLine(p) \/ Copy(p) \/ CopyRest(p) \/ SplitHeader(p)
           \/ Deliver(p)
  <2>1. pc'[p] \notin {"begin", "loop", "rename"}
    BY <1>1, <1>t DEF ReadLine, Copy, CopyRest, SplitHeader, Deliver, TypeOK
  <2> QED
    BY <2>1 DEF WorkerDocs
<1>2. CASE SplitBody(p) \/ KillFirst(p)
  <2>1. pc'[p] # "split" => pc'[p] = "begin" /\ stage'[p] = 2
    <3>1. pc \in [Procs -> PcTypes] /\ stage \in [Procs -> 2..5]
      BY <1>t DEF TypeOK, PcTypes
    <3> QED
      BY <1>2, <3>1 DEF SplitBody, KillFirst
  <2> QED
    BY <2>1 DEF WorkerDocs
<1>3. CASE Skip(p)
  <2>1. /\ UNCHANGED <<queue, pos, work>> /\ pc[p] = "begin" /\ NextStage(p)
        /\ Exists(f, stage[p])
    BY <1>3, <1>q DEF Skip, workingVars, f
  <2>2. "kill" \notin Faults /\ stage[p] # 5 =>
           work'[f][Before(stage[p] + 1)] # None
    BY <1>i, <1>n, <2>1 DEF Exists
  <2> QED
    BY <2>1, <2>2, NextStageDocs DEF f
<1>4. CASE KillStage(p)
  <2>1. /\ UNCHANGED <<queue, pos, work>> /\ NextStage(p)
        /\ pc[p] \in {"begin", "loop", "rename"} /\ "kill" \in Faults
    BY <1>4, <1>q DEF KillStage, KillFirst, workingVars
  <2> QED
    BY <2>1, NextStageDocs
<1>5. CASE Rename(p)
  <2>1. /\ UNCHANGED <<queue, pos>> /\ pc[p] = "loop" /\ NextStage(p)
        /\ stage[p] # 5 /\ Busy(p) /\ f \in Files
    BY <1>5, <1>q, <1>f DEF Rename, Busy
  <2>2. temp[f][Target(p)] # None
    BY <1>t, <2>1 DEF WorkerTexts, f
  <2>3. work' = [work EXCEPT ![f][Target(p)] = temp[f][Target(p)]]
    BY <1>5, <2>2 DEF Rename, Target, f
  <2>4. Target(p) \in Paths
    <3>1. stage[p] \in BodyStages
      BY <1>s, <2>1 DEF BodyStages
    <3> QED
      BY <1>s, <3>1 DEF Target, Paths
  <2>5. work'[f][Target(p)] # None
    BY <1>d, <2>1, <2>2, <2>3, <2>4
  <2>6. \A P \in Paths : work[f][P] # None => work'[f][P] # None
    BY <1>d, <2>1, <2>2, <2>3, <2>4, UpdatePersists
  <2>7. "kill" \notin Faults => Target(p) = Before(stage[p] + 1)
    <3>1. "kill" \notin Faults => inFile[p] = Before(stage[p])
      BY <1>t, <2>1 DEF WorkerDocs
    <3> QED
      BY <1>n, <2>1, <3>1 DEF Target
  <2>8. \A s : Before(s) \in Paths
    BY DEF Before, Paths
  <2>9. "kill" \notin Faults => work'[f][Before(stage[p] + 1)] # None
    BY <2>5, <2>7
  <2>10. \A s \in 3..stage[p] :
            work[f][Before(s)] # None => work'[f][Before(s)] # None
    BY <2>6, <2>8
  <2> QED
    BY <2>1, <2>9, <2>10, NextStageDocs DEF f
<1>6. CASE RenameDoc(p)
  <2>1. /\ UNCHANGED <<queue, pos, work>> /\ NextStage(p) /\ pc[p] = "rename"
    BY <1>6, <1>q DEF RenameDoc
  <2>2. stage[p] = 5
    BY <1>t, <2>1 DEF WorkerDocs
  <2> QED
    BY <2>1, <2>2, NextStageDocs
<1>7. CASE Begin(p)
  <2>1. /\ UNCHANGED <<queue, pos, work, stage>> /\ pc[p] = "begin"
        /\ stage[p] # 5 /\ pc'[p] = "loop"
        /\ inFile'[p] = Input(f, stage[p])
    BY <1>7, <1>q, <1>t DEF Begin, TypeOK, f
  <2> QED
    BY <1>t, <1>c, <1>i, <2>1 DEF WorkerDocs, f
<1>8. CASE AppendLine(p)
  <2>1. /\ UNCHANGED <<queue, pos, work, stage, inFile, pc>> /\ pc[p] = "loop"
        /\ stage[p] # 5
    BY <1>8, <1>q DEF AppendLine
  <2> QED
    BY <1>t, <1>c, <2>1 DEF WorkerDocs, f
<1>9. CASE BeginDoc(p)
  <2>1. /\ UNCHANGED <<queue, pos, work, stage>> /\ pc[p] = "begin"
        /\ stage[p] = 5 /\ pc'[p] = "loop" /\ inFile'[p] = Input(f, 5)
        /\ vertTemp' = [vertTemp EXCEPT ![f] = <<>>] /\ f \in Files
    BY <1>9, <1>q, <1>t, <1>f DEF BeginDoc, Truncate, TypeOK, f, Busy
  <2>2. OneText(work[f][Input(f, 5)])
    <3>1. OneText(work[f][{}])
      BY <1>t, <2>1 DEF WorkerTexts, f
    <3> QED
      BY <1>s, <1>t, <2>1, <3>1, InputIsText
  <2>3. vertTemp'[f] = <<>>
    BY <1>t, <2>1 DEF TypeOK
  <2> QED
    BY <1>t, <1>c, <1>i, <2>1, <2>2, <2>3 DEF WorkerDocs, f
<1>10. CASE WriteDoc(p)
  <2> DEFINE block == [hdr |-> header[f], body |-> work[f][inFile[p]],
                       path |-> inFile[p]]
  <2>1. /\ UNCHANGED <<queue, pos, work, stage>> /\ pc[p] = "loop"
        /\ stage[p] = 5 /\ pc'[p] = "rename" /\ f \in Files
        /\ vertTemp' = [vertTemp EXCEPT ![f] =
                                    Append(Contents(vertTemp[f]), block)]
    BY <1>10, <1>q, <1>t, <1>f DEF WriteDoc, TypeOK, f, Busy
  <2>2. OneText(work[f][inFile[p]]) /\ vertTemp[f] = <<>>
    BY <1>t, <2>1 DEF WorkerDocs, f
  <2>3. header[f] \in Editions
    BY <1>t, <2>1 DEF TypeInv, WorkerOK, TypeOK, f
  <2>4. inFile[p] \in DocPaths
    <3>1. Before(5) = AllStages
      BY DEF Before, AllStages, BodyStages
    <3>2. "kill" \notin Faults => inFile[p] = Before(5)
      BY <1>t, <2>1 DEF WorkerDocs
    <3> QED
      BY <1>s, <3>1, <3>2 DEF DocPaths
  <2>5. <<block>> \in GoodDocs
    BY <2>2, <2>3, <2>4 DEF GoodDocs, OneText
  <2> HIDE DEF block
  <2>6. vertTemp'[f] = <<block>>
    BY <1>t, <2>1, <2>2 DEF TypeOK, Contents
  <2>7. \A s \in 3..stage[p] :
           "kill" \notin Faults => work[f][Before(s)] # None
    BY <1>t, <2>1 DEF WorkerDocs, f
  <2> QED
    BY <1>c, <2>1, <2>5, <2>6, <2>7 DEF WorkerDocs
<1> QED
  BY <1>1, <1>2, <1>3, <1>4, <1>5, <1>6, <1>7, <1>8, <1>9, <1>10 DEF Worker

LEMMA DocInvNext ==
    ASSUME TypeInv, TextInv, DocInv, NoSharedFile, [Next]_vars
    PROVE  DocInv'
<1>1. ASSUME NEW p \in Procs, Worker(p) \/ KillFirst(p) \/ KillStage(p)
      PROVE  DocInv'
  <2>1. /\ UNCHANGED queue
        /\ \A q \in Procs \ {p} :
              UNCHANGED <<pc[q], pos[q], stage[q], inFile[q]>>
    BY <1>1, WorkerSteps DEF driverVars, TypeInv, TypeOK, Deliver
  <2>2. \A g \in Files :
           \/ work'[g] = work[g] /\ vertTemp'[g] = vertTemp[g]
           \/ Busy(p) /\ g = Cur(p)
    BY <1>1, WorkerWritesOwn
  <2>3. \A q \in Procs : q # p => WorkerDocs(q)'
    BY <2>1, <2>2, DocFrame
  <2>4. WorkerDocs(p)'
    BY <1>1, DocInvOwn
  <2> QED
    BY <1>1, <2>3, <2>4, DocFiles DEF DocInv
<1>2. CASE ~ \E p \in Procs : Worker(p) \/ KillFirst(p) \/ KillStage(p)
  <2>1. UNCHANGED workingVars /\ (RemovePreviousOutput \/ UNCHANGED out)
    BY <1>2, OtherSteps
  <2>2. /\ \A f \in Files : vert'[f] # None => vert'[f] \in GoodDocs
        /\ \A f \in Files : out'[f] # None => out'[f] \in GoodDocs
    BY <2>1 DEF workingVars, RemovePreviousOutput, NoFile, DocInv
  <2>3. CASE UNCHANGED <<queue, workerVars>>
    BY <2>1, <2>2, <2>3 DEF DocInv, WorkerDocs, Cur, workingVars, workerVars
  <2>4. CASE \A p \in Procs : pc'[p] \in {"off", "read"}
    BY <2>2, <2>4 DEF DocInv, WorkerDocs
  <2> QED
    BY <1>2, <2>3, <2>4, WorkersAside
<1> QED
  BY <1>1, <1>2

(* What holds together in every reachable state when n is fixed.           *)
RunInv ==
    /\ TypeInv /\ QueueInv /\ TextInv /\ OutInv /\ AssemblyInv /\ DocInv
    /\ NeverCut => CopyInv

LEMMA RunInvInit == Init => RunInv
BY TypeInvInit, QueueInvInit, TextInvInit, OutInvInit, AssemblyInvInit,
   DocInvInit, CopyInvInit DEF RunInv

LEMMA RunInvNext ==
    ASSUME FixedThreads
    PROVE  RunInv /\ [Next]_vars => RunInv'
<1>1. RunInv => NoSharedFile
  BY WorkersApart DEF RunInv, QueueInv
<1> QED
  BY <1>1, TypeInvNext, QueueInvNext, TextInvNext, OutInvNext,
     AssemblyInvNext, DocInvNext, CutInvNext
  DEF RunInv

LEMMA DocPathsArePaths == DocPaths \subseteq Paths
BY DEF DocPaths, AllStages, Paths

(* With a fixed n a delivered document is one <doc>, and its text is the   *)
(* whole of one edition or the part of it that a stage 1 or a cp which was *)
(* cut short has left: wherever runs are stopped and whatever is killed,   *)
(* no line is in it twice, and none from an earlier attempt.               *)
THEOREM DeliveredOneText ==
    ASSUME FixedThreads
    PROVE  Spec => []DocumentsOfOneText
<1>1. 1 \in Editions
  BY ConstantsOK DEF Editions
<1>2. ASSUME NEW t \in Bodies
      PROVE  \E e \in Editions : t \in {Part, FullBody(e)}
  BY <1>1, <1>2 DEF Bodies
<1>3. RunInv => DocumentsOfOneText
  <2> SUFFICES ASSUME RunInv, NEW f \in Files, out[f] # None
               PROVE  \E h \in Editions, e \in Editions, P \in Paths :
                         \E body \in {Part, FullBody(e)} :
                            out[f] = <<[hdr |-> h, body |-> body, path |-> P]>>
    BY DEF DocumentsOfOneText
  <2>1. out[f] \in GoodDocs
    BY DEF RunInv, DocInv
  <2>2. PICK h \in Editions, t \in Bodies, P \in DocPaths :
           out[f] = <<[hdr |-> h, body |-> t, path |-> P]>>
    BY <2>1 DEF GoodDocs
  <2>3. PICK e \in Editions : t \in {Part, FullBody(e)}
    BY <1>2
  <2> QED
    BY <2>2, <2>3, DocPathsArePaths
<1> QED
  BY <1>3, RunInvInit, RunInvNext, PTL DEF Spec

(* It has all the lines if no text is cut short in a write in place        *)
(* (condition (s)), wherever earlier runs were stopped and whichever       *)
(* scripts of the stages 2 to 5 were killed.                               *)
THEOREM DeliveredWhole ==
    ASSUME FixedThreads, NeverCut
    PROVE  Spec => []DocumentsWhole
<1>1. Bodies = {FullBody(e) : e \in Editions}
  BY DEF Bodies
<1>2. RunInv => DocumentsWhole
  BY <1>1, DocPathsArePaths DEF RunInv, DocInv, GoodDocs, DocumentsWhole
<1> QED
  BY <1>2, RunInvInit, RunInvNext, PTL DEF Spec

(* And all its lines have been through stages 2 to 4, if no stage script   *)
(* is killed by itself.                                                    *)
LEMMA GoodDocsAreFinished ==
    ASSUME "kill" \notin Faults, NeverCut
    PROVE  GoodDocs \subseteq Documents
BY DEF GoodDocs, Bodies, DocPaths, Documents, Doc

THEOREM DeliveredFinished ==
    ASSUME FixedThreads, NeverCut, "kill" \notin Faults
    PROVE  Spec => []DocumentsFinished
<1>1. RunInv => DocumentsFinished
  BY GoodDocsAreFinished DEF RunInv, DocInv, DocumentsFinished
<1> QED
  BY <1>1, RunInvInit, RunInvNext, PTL DEF Spec

-----------------------------------------------------------------------------
(* The pipeline implements the publisher of documents.                     *)

LEMMA NothingPublished == Init => C!CorpusInit
BY DEF Init, NoFile, C!CorpusInit

(* A delivery publishes, whatever else a worker does is hidden.            *)
LEMMA WorkerPublishes ==
    ASSUME NeverCut, "kill" \notin Faults, RunInv, NEW p \in Procs,
           Worker(p) \/ KillFirst(p) \/ KillStage(p)
    PROVE  [C!CorpusNext]_C!corpusVars
<1>t. TypeInv /\ OutInv /\ DocInv
  BY DEF RunInv
<1>m. main # "cat" /\ main' = main
  BY <1>t, WorkerSteps DEF driverVars, TypeInv, PhaseOK, AllOff
<1>1. CASE Deliver(p) /\ vert[Cur(p)] # None
  <2> DEFINE f == Cur(p)
  <2>1. f \in Files /\ out[f] = None
    BY <1>1, <1>t, DocumentsStay
  <2>2. vert[f] \in Documents
    BY <1>1, <1>t, <2>1, GoodDocsAreFinished DEF DocInv
  <2>3. out' = [out EXCEPT ![f] = vert[f]] /\ UNCHANGED allVert
    BY <1>1 DEF Deliver
  <2> HIDE DEF f
  <2>4. C!Publish(f)
    BY <1>m, <2>1, <2>2, <2>3 DEF C!Publish
  <2> QED
    BY <2>1, <2>4 DEF C!CorpusNext
<1>2. CASE ~(Deliver(p) /\ vert[Cur(p)] # None)
  <2>1. UNCHANGED <<out, allVert>>
    BY <1>2, <1>t, WorkerSteps DEF Deliver
  <2> QED
    BY <1>m, <2>1 DEF C!corpusVars
<1> QED
  BY <1>1, <1>2

(* The steps of cat add to all.vert.                                       *)
LEMMA CatAdds ==
    ASSUME RunInv, NEW f \in Files, CatBegin(f) \/ CatEnd(f)
    PROVE  C!Add(f)
<1>1. /\ main = "cat" /\ main' = "cat" /\ UNCHANGED out /\ f \in todo
  BY DEF CatBegin, CatEnd, driverVars
<1>2. \A g \in Files :
         IF g \in todo
         THEN out[g] # None /\ allVert[g] \in {None, Part}
         ELSE allVert[g] = out[g]
  BY <1>1 DEF RunInv, AssemblyInv
<1>3. CASE CatBegin(f)
  <2>1. /\ \A g \in todo : allVert[g] = None
        /\ allVert' = [allVert EXCEPT ![f] = Part]
    BY <1>3 DEF CatBegin
  <2> QED
    BY <1>1, <1>2, <2>1 DEF C!Add
<1>4. CASE CatEnd(f)
  <2>1. allVert[f] = Part /\ allVert' = [allVert EXCEPT ![f] = out[f]]
    BY <1>4 DEF CatEnd
  <2> QED
    BY <1>1, <1>2, <2>1 DEF C!Add
<1> QED
  BY <1>3, <1>4

LEMMA StepsPublish ==
    ASSUME NeverCut, "kill" \notin Faults, RunInv, [Next]_vars
    PROVE  [C!CorpusNext]_C!corpusVars
<1>1. CASE \E p \in Procs : Worker(p) \/ KillFirst(p) \/ KillStage(p)
  BY <1>1, WorkerPublishes
<1>2. CASE RemoveAll
  BY <1>2 DEF RemoveAll, C!CorpusNext, C!Discard
<1>3. CASE OpenAll
  <2>1. allVert = None
    BY <1>3 DEF OpenAll, RunInv, AssemblyInv
  <2> QED
    BY <1>3, <2>1 DEF OpenAll, NoFile, C!CorpusNext, C!Open
<1>4. CASE \E f \in Files : CatBegin(f) \/ CatEnd(f)
  BY <1>4, CatAdds DEF C!CorpusNext
<1>5. CASE CloseAll \/ CtrlCInFinish \/ Crash
  <2>1. UNCHANGED <<out, allVert>> /\ main' # "cat"
    BY <1>5 DEF CloseAll, CtrlCInFinish, Crash, RunInv, TypeInv, TypeOK
  <2> QED
    BY <2>1 DEF C!CorpusNext, C!Close, C!corpusVars
<1>6. CASE RemovePreviousOutput
  BY <1>6 DEF RemovePreviousOutput, NoFile, driverVars, C!CorpusNext, C!Clear
<1>7. CASE \/ \E f \in Files : QueueFile(f) \/ Withdraw(f)
           \/ \E n \in ThreadCounts : Start(n)
           \/ Launch \/ Exit \/ CtrlCInFind \/ CtrlCInWait
           \/ SignalMain \/ PrepareCorpus \/ UNCHANGED vars
  <2>1. UNCHANGED <<out, allVert>> /\ (main' = "cat") = (main = "cat")
    BY <1>7
    DEF QueueFile, Withdraw, Start, Launch, Exit, CtrlCInFind, CtrlCInWait,
        SignalMain, PrepareCorpus, driverVars, vars
  <2> QED
    BY <2>1 DEF C!corpusVars
<1> QED
  BY <1>1, <1>2, <1>3, <1>4, <1>5, <1>6, <1>7
  DEF Next, Driver, Disturbance, User

(* With a fixed n, when no stage script is killed by itself and no text is *)
(* cut short in a write in place, the machinery of queues, workers, stages *)
(* and temporary files, with its crashes and interrupts, is a publisher of *)
(* finished documents: one appears in one step where there was none and is *)
(* not touched again, and all.vert, whole or cut short, is made of         *)
(* documents that are there.                                               *)
THEOREM PipelinePublishes ==
    ASSUME FixedThreads, NeverCut, "kill" \notin Faults
    PROVE  Spec => ImplementsCorpus
<1>1. Init => RunInv /\ C!CorpusInit
  BY RunInvInit, NothingPublished
<1>2. RunInv /\ [Next]_vars => RunInv'
  BY RunInvNext
<1>3. RunInv /\ [Next]_vars => [C!CorpusNext]_C!corpusVars
  BY StepsPublish
<1> QED
  BY <1>1, <1>2, <1>3, PTL DEF Spec, ImplementsCorpus, C!CorpusSpec

-----------------------------------------------------------------------------
(* Nothing is forgotten: from find to the end of a run that is not         *)
(* interrupted, a source file without a document is still to be queued,    *)
(* or is queued for a worker that has not come to its end.                 *)

Waiting(f) ==
    \E p \in Procs : \E i \in DOMAIN queue[p] :
        /\ queue[p][i] = f
        /\ main = "wait" => pc[p] # "off" /\ i >= pos[p]

(* A worker that leaves a file leaves a document.                          *)
WorkerDelivers(p) ==
    /\ pc[p] = "rename" =>
          \/ vertTemp[Cur(p)] # None
          \/ vert[Cur(p)] # None
          \/ out[Cur(p)] # None
    /\ pc[p] = "deliver" => vert[Cur(p)] # None \/ out[Cur(p)] # None
    /\ pc[p] = "rename" => stage[p] = 5

ProgressInv ==
    /\ \A f \in Files : in[f] # None
    /\ \A p \in Procs : WorkerDelivers(p)
    /\ trap => main \in {"find", "wait"}
    /\ main \notin {"find", "cat"} => todo = {}
    /\ trap => \A f \in Files : f \in todo \/ out[f] # None \/ Waiting(f)
LEMMA ProgressInvInit == Init => ProgressInv
<1> SUFFICES ASSUME Init PROVE ProgressInv
  OBVIOUS
<1>1. \A f \in Files : in[f] # None
  <2>1. 1 \in Editions
    BY ConstantsOK DEF Editions
  <2> QED
    BY <2>1, NoneIsNoContent DEF Init
<1>2. \A p \in Procs : WorkerDelivers(p)
  BY DEF Init, WorkerDelivers
<1> QED
  BY <1>1, <1>2 DEF Init, ProgressInv

LEMMA BlockWritten ==
    ASSUME TypeInv, NEW p \in Procs, WriteDoc(p)
    PROVE  \E d \in Seq(Blocks) : vertTemp' = [vertTemp EXCEPT ![Cur(p)] = d]
<1> DEFINE f == Cur(p)
           block == [hdr |-> header[f], body |-> work[f][inFile[p]],
                     path |-> inFile[p]]
<1>1. pc[p] = "loop" /\ Busy(p)
  BY DEF WriteDoc, Busy
<1>2. f \in Files /\ inFile[p] \in Paths
  BY <1>1, CurIsFile DEF TypeInv, TypeOK
<1>3. header[f] # None /\ work[f][inFile[p]] # None
  BY <1>1 DEF TypeInv, WorkerOK
<1>4. vertTemp' = [vertTemp EXCEPT ![f] = Append(Contents(vertTemp[f]), block)]
  BY DEF WriteDoc
<1> HIDE DEF f
<1>5. block \in Blocks
  BY <1>2, <1>3 DEF Blocks, TypeInv, TypeOK
<1>6. Contents(vertTemp[f]) \in Seq(Blocks)
  BY <1>2 DEF Contents, TypeInv, TypeOK
<1> HIDE DEF block
<1>7. Append(Contents(vertTemp[f]), block) \in Seq(Blocks)
  BY <1>5, <1>6
<1> QED
  BY <1>4, <1>7 DEF f

(* What a step of p leaves in place for a worker at the same file: what    *)
(* was there is moved on, and never taken away.                            *)
LEMMA MovedOn ==
    ASSUME TypeInv, NEW p \in Procs, Worker(p), NEW f \in Files
    PROVE  /\ out[f] # None => out'[f] # None
           /\ vert[f] # None => vert'[f] # None \/ out'[f] # None
           /\ vertTemp[f] # None => vertTemp'[f] # None \/ vert'[f] # None
<1>1. /\ vert \in [Files -> Seq(Blocks) \cup {None}]
      /\ vertTemp \in [Files -> Seq(Blocks) \cup {None}]
      /\ out \in [Files -> Seq(Blocks) \cup {None}]
  BY DEF TypeInv, TypeOK
<1>2. CASE BeginDoc(p) \/ WriteDoc(p)
  <2>1. \E d \in Seq(Blocks) : vertTemp' = [vertTemp EXCEPT ![Cur(p)] = d]
    <3>1. CASE BeginDoc(p)
      <4>1. vertTemp' = [vertTemp EXCEPT ![Cur(p)] = <<>>]
        BY <3>1 DEF BeginDoc, Truncate
      <4>2. <<>> \in Seq(Blocks)
        OBVIOUS
      <4> QED
        BY <4>1, <4>2
    <3>2. CASE WriteDoc(p)
      BY <3>2, BlockWritten
    <3> QED
      BY <1>2, <3>1, <3>2
  <2> QED
    BY <1>1, <1>2, <2>1, NoneIsNoContent DEF BeginDoc, WriteDoc
<1>3. CASE RenameDoc(p)
  BY <1>1, <1>3 DEF RenameDoc
<1>4. CASE Deliver(p)
  BY <1>1, <1>4 DEF Deliver
<1>5. CASE ~(BeginDoc(p) \/ WriteDoc(p) \/ RenameDoc(p) \/ Deliver(p))
  BY <1>5
  DEF Worker, ReadLine, Copy, CopyRest, SplitHeader, SplitBody, Skip, Begin,
      AppendLine, Rename, workingVars
<1> QED
  BY <1>2, <1>3, <1>4, <1>5

(* A worker whose position does not change keeps what is said of it.       *)
LEMMA DeliversKept ==
    ASSUME TypeInv, NEW p \in Procs, Worker(p), NEW q \in Procs, q # p,
           WorkerDelivers(q)
    PROVE  WorkerDelivers(q)'
<1>1. UNCHANGED <<pc[q], stage[q]>> /\ Cur(q)' = Cur(q)
  <2>1. /\ UNCHANGED driverVars
        /\ \A r \in Procs \ {p} : UNCHANGED <<pc[r], pos[r], stage[r]>>
    BY WorkerSteps
  <2> QED
    BY <2>1 DEF driverVars, Cur
<1>2. CASE Busy(q)
  <2>1. Cur(q) \in Files
    BY <1>2, CurIsFile
  <2> QED
    BY <1>1, <2>1, MovedOn DEF WorkerDelivers
<1>3. CASE ~Busy(q)
  <2>1. pc'[q] \notin {"rename", "deliver"}
    BY <1>1, <1>3 DEF Busy
  <2> QED
    BY <2>1 DEF WorkerDelivers
<1> QED
  BY <1>2, <1>3

(* Without kills and withdrawals the way to a delivery leads over stage 5. *)
LEMMA DeliversOwn ==
    ASSUME TypeInv, ProgressInv, NEW p \in Procs, Worker(p)
    PROVE  WorkerDelivers(p)'
<1> DEFINE f == Cur(p)
<1>t. TypeOK /\ WorkerDelivers(p)
  BY DEF TypeInv, ProgressInv
<1>f. Busy(p) => f \in Files
  BY CurIsFile
<1>c. UNCHANGED <<queue, in>> /\ (pos'[p] = pos[p] => Cur(p)' = f)
  BY WorkerSteps DEF driverVars, Cur
<1>n. ASSUME NextStage(p)
      PROVE  \/ pc'[p] = "begin"
             \/ pc'[p] = "deliver" /\ stage[p] = 5
  BY <1>t, <1>n DEF NextStage, TypeOK
<1>1. CASE \/ ReadLine(p) \/ CopyRest(p) \/ SplitHeader(p)
           \/ SplitBody(p) \/ Begin(p)
           \/ AppendLine(p) \/ BeginDoc(p) \/ Deliver(p)
  <2>1. pc'[p] \notin {"rename", "deliver"}
    BY <1>1, <1>t DEF ReadLine, CopyRest, SplitHeader, SplitBody, Begin,
                      AppendLine, BeginDoc, Deliver, TypeOK
  <2> QED
    BY <2>1 DEF WorkerDelivers
<1>2. CASE Copy(p)
  <2>1. f \in Files /\ in[f] # None
    BY <1>2, <1>f DEF Copy, CopyRest, Busy, ProgressInv
  <2>2. pc'[p] = "copying"
    BY <1>2, <1>t, <2>1 DEF Copy, TypeOK
  <2> QED
    BY <2>2 DEF WorkerDelivers
<1>3. CASE Rename(p)
  <2>1. pc'[p] = "begin"
    BY <1>3, <1>n DEF Rename
  <2> QED
    BY <2>1 DEF WorkerDelivers
<1>4. CASE Skip(p)
  <2>1. NextStage(p) /\ Exists(f, stage[p]) /\ UNCHANGED <<pos, vert>>
    BY <1>4 DEF Skip, workingVars
  <2> QED
    BY <1>c, <1>n, <2>1 DEF WorkerDelivers, Exists
<1>5. CASE WriteDoc(p)
  <2>1. /\ pc'[p] = "rename" /\ UNCHANGED <<pos, stage>> /\ stage[p] = 5
        /\ Busy(p)
    BY <1>5, <1>t DEF WriteDoc, TypeOK, Busy
  <2>2. vertTemp'[f] # None
    BY <1>5, <1>f, <1>t, <2>1, BlockWritten, NoneIsNoContent DEF TypeOK
  <2> QED
    BY <1>c, <2>1, <2>2 DEF WorkerDelivers
<1>6. CASE RenameDoc(p)
  <2>1. /\ pc[p] = "rename" /\ NextStage(p) /\ UNCHANGED <<pos, out>>
        /\ Busy(p)
    BY <1>6 DEF RenameDoc, Busy
  <2>2. vert'[f] # None \/ out'[f] # None
    <3>1. vertTemp[f] # None \/ vert[f] # None \/ out[f] # None
      BY <1>t, <2>1 DEF WorkerDelivers
    <3> QED
      BY <1>6, <1>f, <1>t, <2>1, <3>1 DEF RenameDoc, TypeOK
  <2>3. pc'[p] # "rename"
    BY <1>n, <2>1
  <2> QED
    BY <1>c, <2>1, <2>2, <2>3 DEF WorkerDelivers
<1> QED
  BY <1>1, <1>2, <1>3, <1>4, <1>5, <1>6 DEF Worker

(* A name leaves the part of a queue that is still to be read only when    *)
(* its document is there.                                                  *)
LEMMA WaitingKept ==
    ASSUME TypeInv, ProgressInv, NEW p \in Procs, Worker(p), trap,
           NEW f \in Files, f \notin todo, out'[f] = None
    PROVE  Waiting(f)'
<1>1. /\ UNCHANGED <<queue, main>> /\ pc[p] # "off" /\ main = "wait"
      /\ \A q \in Procs \ {p} : UNCHANGED <<pc[q], pos[q]>>
      /\ Deliver(p) \/ UNCHANGED pos
  BY WorkerSteps DEF driverVars, ProgressInv, TypeInv, PhaseOK, AllOff
<1>2. out[f] = None
  BY MovedOn
<1>3. PICK q \in Procs : \E i \in DOMAIN queue[q] :
         queue[q][i] = f /\ pc[q] # "off" /\ i >= pos[q]
  BY <1>1, <1>2 DEF ProgressInv, Waiting
<1>4. PICK i \in DOMAIN queue[q] :
         queue[q][i] = f /\ pc[q] # "off" /\ i >= pos[q]
  BY <1>3
<1>5. CASE q # p
  BY <1>1, <1>4, <1>5 DEF Waiting
<1>6. CASE q = p /\ Deliver(p)
  <2>1. Cur(p) \in Files /\ Busy(p)
    <3>1. Busy(p)
      BY <1>6 DEF Deliver, Busy
    <3> QED
      BY <3>1, CurIsFile
  <2>2. vert[Cur(p)] # None \/ out[Cur(p)] # None
    BY <1>6 DEF Deliver, ProgressInv, WorkerDelivers
  <2>3. out'[Cur(p)] # None
    BY <1>6, <2>1, <2>2 DEF Deliver, TypeInv, TypeOK
  <2>4. i # pos[p]
    BY <1>4, <1>6, <2>3 DEF Cur
  <2>5. i \in Nat /\ pos[p] \in Nat /\ pos'[p] = pos[p] + 1 /\ pc'[p] = "read"
    BY <1>6 DEF Deliver, TypeInv, TypeOK
  <2>6. i >= pos'[p]
    BY <1>4, <1>6, <2>4, <2>5
  <2> QED
    BY <1>1, <1>4, <1>6, <2>5, <2>6 DEF Waiting
<1>7. CASE q = p /\ UNCHANGED pos
  <2>1. pc'[p] # "off"
    <3>1. CASE ReadLine(p)
      <4>1. pos[p] <= Len(queue[p])
        BY <1>4, <1>7 DEF TypeInv, TypeOK
      <4>2. Cur(p) \in Files
        BY <4>1 DEF Cur, TypeInv, TypeOK
      <4> QED
        BY <3>1, <4>1, <4>2 DEF ReadLine, ProgressInv, TypeInv, TypeOK
    <3>2. CASE ~ReadLine(p)
      BY <3>2, NextStageTypes
      DEF Worker, Copy, CopyRest, SplitHeader, SplitBody, Skip, Begin,
          AppendLine, Rename, BeginDoc, WriteDoc, RenameDoc, Deliver, TypeInv,
          TypeOK
    <3> QED
      BY <3>1, <3>2
  <2> QED
    BY <1>1, <1>4, <1>7, <2>1 DEF Waiting
<1> QED
  BY <1>1, <1>5, <1>6, <1>7

LEMMA ProgressInvWorker ==
    ASSUME TypeInv, ProgressInv, NEW p \in Procs, Worker(p)
    PROVE  ProgressInv'
<1>1. UNCHANGED <<main, trap, todo, in>>
  BY WorkerSteps DEF driverVars
<1>2. \A q \in Procs : WorkerDelivers(q)'
  BY DeliversOwn, DeliversKept DEF ProgressInv
<1>3. ASSUME trap, NEW f \in Files, f \notin todo, out'[f] = None
      PROVE  Waiting(f)'
  BY <1>3, WaitingKept
<1> QED
  BY <1>1, <1>2, <1>3 DEF ProgressInv

(* What QueueFile does to the names that are queued.                       *)
LEMMA QueueFileQueues ==
    ASSUME TypeInv, NEW f \in Files, QueueFile(f), in[f] # None
    PROVE  /\ \A p \in Procs : \A i \in DOMAIN queue[p] :
                 i \in DOMAIN queue'[p] /\ queue'[p][i] = queue[p][i]
           /\ \/ out[f] # None
              \/ \E p \in Procs : \E i \in DOMAIN queue'[p] : queue'[p][i] = f
<1>1. CASE PassedOver(f)
  BY <1>1 DEF QueueFile, PassedOver
<1>2. CASE ~PassedOver(f)
  <2>1. queue' = [queue EXCEPT ![Turn] = Append(queue[Turn], f)]
    BY <1>2 DEF QueueFile
  <2>2. queue \in [Procs -> Seq(Files)]
    BY DEF TypeInv, TypeOK
  <2>3. Turn \in Procs
    <3>1. nThreads \in Nat \ {0} /\ nThreads \in Procs /\ counter \in Nat
      BY ConstantsOK DEF TypeInv, PhaseOK, QueueFile, TypeOK, Procs
    <3>2. counter % nThreads \in 0..(nThreads - 1)
      BY <3>1
    <3> QED
      BY <3>1, <3>2, ConstantsOK DEF Turn, Procs
  <2> DEFINE t == Turn
             len == Len(queue[t])
  <2> HIDE DEF t
  <2>4. /\ DOMAIN queue'[t] = (DOMAIN queue[t]) \cup {len + 1}
        /\ queue'[t][len + 1] = f
        /\ \A i \in DOMAIN queue[t] : queue'[t][i] = queue[t][i]
    BY <2>1, <2>2, <2>3, AppendProperties DEF t
  <2>5. \A p \in Procs \ {t} : queue'[p] = queue[p]
    BY <2>1, <2>2 DEF t
  <2> QED
    BY <2>3, <2>4, <2>5 DEF t
<1> QED
  BY <1>1, <1>2

LEMMA ProgressInvOthers ==
    ASSUME "withdraw" \notin Faults, "kill" \notin Faults,
           "killFirst" \notin Faults,
           TypeInv, ProgressInv, [Next]_vars, ~ \E p \in Procs : Worker(p)
    PROVE  ProgressInv'
<1>k. /\ \A p \in Procs : ~(Worker(p) \/ KillFirst(p) \/ KillStage(p))
      /\ \A f \in Files : ~Withdraw(f)
  BY DEF KillFirst, KillStage, Withdraw
<1>w. UNCHANGED workingVars /\ (RemovePreviousOutput \/ UNCHANGED out)
  BY <1>k, OtherSteps
<1>1. \A f \in Files : in'[f] # None
  <2>1. CASE PrepareCorpus
    <3>1. edition + 1 \in Editions
      BY <2>1, ConstantsOK DEF PrepareCorpus, TypeInv, TypeOK, Editions
    <3> QED
      BY <2>1, <3>1, NoneIsNoContent DEF PrepareCorpus
  <2>2. CASE ~PrepareCorpus
    <3>1. UNCHANGED in
      BY <1>k, <2>2
      DEF Next, Driver, Disturbance, User, Start, QueueFile, Launch, Exit,
          RemoveAll, OpenAll, CatBegin, CatEnd, CloseAll, Crash, CtrlCInFind,
          CtrlCInFinish, CtrlCInWait, SignalMain, RemovePreviousOutput, vars
    <3> QED
      BY <3>1 DEF ProgressInv
  <2> QED
    BY <2>1, <2>2
<1>2. \A p \in Procs : WorkerDelivers(p)'
  <2>1. CASE UNCHANGED <<queue, workerVars>> /\ UNCHANGED out
    BY <1>w, <2>1 DEF ProgressInv, WorkerDelivers, Cur, workingVars,
                      workerVars
  <2>2. CASE \A p \in Procs : pc'[p] \in {"off", "read"}
    BY <2>2 DEF WorkerDelivers
  <2>3. CASE RemovePreviousOutput
    BY <2>3 DEF RemovePreviousOutput, workerVars, TypeInv, PhaseOK, AllOff,
                WorkerDelivers
  <2> QED
    BY <1>k, <1>w, <2>1, <2>2, <2>3, WorkersAside
<1> DEFINE Run == /\ trap' => main' \in {"find", "wait"}
                  /\ main' \notin {"find", "cat"} => todo' = {}
                  /\ trap' => \A f \in Files :
                        f \in todo' \/ out'[f] # None \/ Waiting(f)'
<1>3. ASSUME NEW n \in ThreadCounts, Start(n) PROVE Run
  BY <1>3 DEF Start, ProgressInv
<1>4. ASSUME NEW g \in Files, QueueFile(g) PROVE Run
  <2>1. /\ main = "find" /\ UNCHANGED <<main, trap, out, pc, pos>>
        /\ todo' = todo \ {g}
    BY <1>4 DEF QueueFile, workerVars
  <2>2. ASSUME trap, NEW f \in Files, f \notin todo', out[f] = None
        PROVE  Waiting(f)'
    <3>1. in[g] # None
      BY DEF ProgressInv
    <3>2. CASE f = g
      BY <1>4, <2>1, <2>2, <3>1, <3>2, QueueFileQueues DEF Waiting
    <3>3. CASE f # g
      <4>1. Waiting(f)
        BY <2>1, <2>2, <3>3 DEF ProgressInv
      <4> QED
        BY <1>4, <2>1, <3>1, <4>1, QueueFileQueues DEF Waiting
    <3> QED
      BY <3>2, <3>3
  <2> QED
    BY <2>1, <2>2 DEF ProgressInv
<1>5. ASSUME Launch PROVE Run
  <2>1. /\ main = "find" /\ main' = "wait" /\ todo = {} /\ todo' = {}
        /\ UNCHANGED <<trap, out, queue>>
        /\ \A p \in Procs : pc'[p] = "read" /\ pos'[p] = 1
    BY <1>5 DEF Launch, First
  <2>2. ASSUME trap, NEW f \in Files, out[f] = None
        PROVE  Waiting(f)'
    <3>1. Waiting(f)
      BY <2>1, <2>2 DEF ProgressInv
    <3>2. PICK p \in Procs : \E i \in DOMAIN queue[p] : queue[p][i] = f
      BY <3>1 DEF Waiting
    <3>3. PICK i \in DOMAIN queue[p] : queue[p][i] = f
      BY <3>2
    <3>4. i >= 1
      BY DEF TypeInv, TypeOK
    <3> QED
      BY <2>1, <3>3, <3>4 DEF Waiting
  <2> QED
    BY <2>1, <2>2
<1>6. ASSUME \/ Exit \/ RemoveAll \/ OpenAll \/ CloseAll
             \/ \E f \in Files : CatBegin(f) \/ CatEnd(f)
             \/ Crash \/ CtrlCInFind \/ CtrlCInWait \/ CtrlCInFinish
             \/ SignalMain
      PROVE  Run
  <2>1. ~trap' /\ (main' \notin {"find", "cat"} => todo' = {})
    BY <1>6
    DEF Exit, RemoveAll, OpenAll, CloseAll, CatBegin, CatEnd, Crash,
        CtrlCInFind, CtrlCInWait, CtrlCInFinish, SignalMain, driverVars,
        ProgressInv
  <2> QED
    BY <2>1
<1>7. ASSUME PrepareCorpus \/ RemovePreviousOutput PROVE Run
  <2>1. ~trap /\ UNCHANGED <<trap, main, todo>>
    BY <1>7 DEF PrepareCorpus, RemovePreviousOutput, driverVars, ProgressInv
  <2> QED
    BY <2>1 DEF ProgressInv
<1>8. ASSUME UNCHANGED vars PROVE Run
  BY <1>8 DEF vars, driverVars, workerVars, ProgressInv, Waiting
<1>9. Run
  BY <1>k, <1>3, <1>4, <1>5, <1>6, <1>7, <1>8
  DEF Next, Driver, Disturbance, User
<1> QED
  BY <1>1, <1>2, <1>9 DEF ProgressInv

LEMMA ProgressInvNext ==
    ASSUME "withdraw" \notin Faults, "kill" \notin Faults,
           "killFirst" \notin Faults,
           TypeInv, ProgressInv, [Next]_vars
    PROVE  ProgressInv'
BY ProgressInvWorker, ProgressInvOthers

(* A run that is left alone ends with a document for every source file,    *)
(* whatever stopped the runs before it and whatever n they were given, as  *)
(* long as no source file is taken away and no stage killed by itself.     *)
THEOREM NoFileForgotten ==
    ASSUME "withdraw" \notin Faults, "kill" \notin Faults,
           "killFirst" \notin Faults
    PROVE  Spec => AllFilesProcessed
<1> DEFINE IInv == TypeInv /\ ProgressInv
           Processed ==
              Exit /\ trap => \A f \in Files : in[f] # None => out[f] # None
<1>1. Init => IInv
  BY TypeInvInit, ProgressInvInit
<1>2. IInv /\ [Next]_vars => IInv'
  BY TypeInvNext, ProgressInvNext
<1>3. IInv => Processed
  <2>1. ASSUME IInv, Exit, trap, NEW f \in Files, out[f] = None
        PROVE  FALSE
    <3>1. main = "wait" /\ AllOff /\ todo = {}
      BY <2>1 DEF Exit, ProgressInv
    <3> QED
      BY <2>1, <3>1 DEF ProgressInv, Waiting, AllOff
  <2> QED
    BY <2>1
<1> QED
  BY <1>1, <1>2, <1>3, PTL DEF Spec, AllFilesProcessed
=============================================================================
