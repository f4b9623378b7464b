--------------------------- MODULE PipelineProofs ---------------------------
(***************************************************************************)
(* Theorems about module Pipeline and their proofs.                        *)
(***************************************************************************)
EXTENDS Pipeline, TLAPS, SequenceTheorems

-----------------------------------------------------------------------------
(* Facts about the operators of the model                                  *)

LEMMA FullBodyIsText ==
    ASSUME NEW e \in Editions
    PROVE  FullBody(e) \in Texts
<1>1. NumLines \in Nat
  BY ConstantsOK
<1>2. \A i \in 1..NumLines : <<e, i>> \in Lines
  BY DEF Lines
<1> QED
  BY <1>1, <1>2 DEF FullBody, Texts

(* A name that >> is used on holds a text afterwards.                      *)
LEMMA ContentsIsText ==
    ASSUME NEW t \in Texts \cup {None}
    PROVE  Contents(t) \in Texts
BY DEF Contents, Texts

(* The chain of existence tests ends at a path, and at one that exists if  *)
(* f.body does.                                                            *)
LEMMA InputExists ==
    ASSUME NEW f \in Files, NEW s \in 2..5,
           work \in [Files -> [Paths -> Texts \cup {None}]],
           work[f][{}] # None
    PROVE  Input(f, s) \in Paths /\ work[f][Input(f, s)] # None
<1> DEFINE Good(P) == P \in Paths /\ work[f][P] # None
<1>1. ASSUME NEW P, Good(P), NEW k \in BodyStages
      PROVE  Good(Extend(f, P, k))
  <2>1. P \cup {k} \in Paths
    BY <1>1 DEF Paths
  <2> QED
    BY <1>1, <2>1 DEF Extend
<1>2. Good({})
  BY DEF Paths
<1>3. 2 \in BodyStages /\ 3 \in BodyStages /\ 4 \in BodyStages
  BY DEF BodyStages
<1>4. Good(Extend(f, {}, 2))
  BY <1>1, <1>2, <1>3
<1>5. Good(Extend(f, Extend(f, {}, 2), 3))
  BY <1>1, <1>3, <1>4
<1>6. Good(Extend(f, Extend(f, Extend(f, {}, 2), 3), 4))
  BY <1>1, <1>3, <1>5
<1>7. s = 2 \/ s = 3 \/ s = 4 \/ s = 5
  OBVIOUS
<1> HIDE DEF Good
<1>8. Good(Input(f, s))
  BY <1>2, <1>4, <1>5, <1>6, <1>7 DEF Input
<1> QED
  BY <1>8 DEF Good

-----------------------------------------------------------------------------
(* Types.  TypeOK is not inductive: a worker's name must be in its queue,  *)
(* and what a script reads must have been written before.                  *)

WorkerOK(p) ==
    /\ Busy(p) => pos[p] \in 1..Len(queue[p])
    /\ pc[p] \in {"copying", "split", "body"} => copy[Cur(p)] # None
    /\ pc[p] \in {"body", "begin", "loop", "rename"} =>
          header[Cur(p)] # None /\ work[Cur(p)][{}] # None
    /\ pc[p] = "loop" => work[Cur(p)][inFile[p]] # None

(* Workers run only between Launch and the end of endfunc, and cat writes  *)
(* to an all.vert that exists.                                             *)
PhaseOK ==
    /\ main \in {"idle", "find", "finish", "cat"} => AllOff
    /\ main = "cat" => allVert # None
    /\ main # "idle" => nThreads \in Procs

TypeInv == TypeOK /\ PhaseOK /\ \A p \in Procs : WorkerOK(p)

(* A file that exists in working/ is never removed, only replaced.         *)
Persist ==
    \A f \in Files :
        /\ copy[f] # None => copy'[f] # None
        /\ header[f] # None => header'[f] # None
        /\ \A P \in Paths : work[f][P] # None => work'[f][P] # None

LEMMA CurIsFile ==
    ASSUME TypeInv, NEW p \in Procs, Busy(p)
    PROVE  Cur(p) \in Files /\ pos[p] \in 1..Len(queue[p])
BY DEF TypeInv, TypeOK, WorkerOK, Cur

(* A step of p leaves what is said of another worker q as it is.           *)
LEMMA OtherWorkerOK ==
    ASSUME TypeInv, Persist, NEW q \in Procs,
           UNCHANGED <<queue, pc[q], pos[q], inFile[q]>>
    PROVE  WorkerOK(q)'
<1>1. WorkerOK(q)
  BY DEF TypeInv
<1>2. Busy(q) => Cur(q) \in Files
  BY CurIsFile
<1>3. Cur(q)' = Cur(q) /\ Busy(q)' = Busy(q)
  BY DEF Cur, Busy
<1>4. inFile[q] \in Paths /\ {} \in Paths
  BY DEF TypeInv, TypeOK, Paths
<1>5. pc[q] \notin {"off", "read"} => Busy(q)
  BY DEF Busy
<1> QED
  BY <1>1, <1>2, <1>3, <1>4, <1>5 DEF WorkerOK, Persist

LEMMA TypeInvInit == Init => TypeInv
<1> SUFFICES ASSUME Init PROVE TypeInv
  OBVIOUS
<1>1. /\ 1 \in Editions /\ 1 \in Nat \ {0} /\ 2 \in 2..5 /\ {} \in Paths
      /\ <<>> \in Texts /\ <<>> \in Seq(Files) /\ 0 \in 0..MaxRuns
  BY ConstantsOK DEF Editions, Paths, Texts
<1>2. TypeOK
  BY <1>1 DEF Init, TypeOK, NoFile
<1>3. PhaseOK
  BY DEF Init, PhaseOK, AllOff
<1>4. \A p \in Procs : WorkerOK(p)
  BY DEF Init, WorkerOK, Busy
<1> QED
  BY <1>2, <1>3, <1>4 DEF TypeInv

(* Replacing one file of a directory by another text or by nothing.        *)
LEMMA UpdateDirectory ==
    ASSUME NEW S, NEW d \in [Files -> [Paths -> S]],
           NEW f \in Files, NEW P \in Paths, NEW x \in S
    PROVE  [d EXCEPT ![f][P] = x] \in [Files -> [Paths -> S]]
OBVIOUS

LEMMA UpdatePersists ==
    ASSUME NEW S, NEW d \in [Files -> [Paths -> S]],
           NEW f \in Files, NEW P \in Paths, NEW x, x # None,
           NEW g \in Files, NEW Q \in Paths, d[g][Q] # None
    PROVE  [d EXCEPT ![f][P] = x][g][Q] # None
OBVIOUS

LEMMA DriverKeepsTypes ==
    ASSUME TypeInv, Driver \/ \E n \in ThreadCounts : Start(n)
    PROVE  TypeInv'
<1> USE DEF TypeInv
<1>1. ASSUME NEW n \in ThreadCounts, Start(n) PROVE TypeInv'
  <2>1. n \in Procs /\ runs + 1 \in 0..MaxRuns
    BY <1>1, ConstantsOK DEF TypeOK, Start
  <2>2. Emptied(n) \in [Procs -> Seq(Files)]
    BY DEF TypeOK, Emptied
  <2>3. TypeOK'
    BY <1>1, <2>1, <2>2 DEF TypeOK, Start, workingVars, workerVars
  <2>4. AllOff /\ AllOff'
    BY <1>1 DEF PhaseOK, Start, AllOff, workerVars
  <2>5. PhaseOK'
    BY <1>1, <2>1, <2>4 DEF PhaseOK, Start
  <2>6. \A p \in Procs : WorkerOK(p)'
    BY <2>4 DEF WorkerOK, Busy, AllOff
  <2> QED
    BY <2>3, <2>5, <2>6
<1>2. ASSUME NEW f \in Files, QueueFile(f) PROVE TypeInv'
  <2>1. PassedOver(f) \/ Turn \in Procs
    <3>1. nThreads \in Nat \ {0} /\ nThreads \in Procs /\ counter \in Nat
      BY <1>2, ConstantsOK DEF PhaseOK, QueueFile, TypeOK, Procs
    <3>2. counter % nThreads \in 0..(nThreads - 1)
      BY <3>1
    <3> QED
      BY <3>1, <3>2, ConstantsOK DEF Turn, Procs
  <2>2. queue' \in [Procs -> Seq(Files)] /\ counter' \in Nat
    <3>1. CASE PassedOver(f)
      BY <1>2, <3>1 DEF TypeOK, QueueFile
    <3>2. CASE ~PassedOver(f)
      <4>1. Append(queue[Turn], f) \in Seq(Files)
        BY <2>1, <3>2 DEF TypeOK
      <4>2. queue \in [Procs -> Seq(Files)] /\ counter \in Nat
        BY DEF TypeOK
      <4>3. /\ queue' = [queue EXCEPT ![Turn] = Append(queue[Turn], f)]
            /\ counter' = counter + 1
        BY <1>2, <3>2 DEF QueueFile
      <4> QED
        BY <2>1, <3>2, <4>1, <4>2, <4>3
    <3> QED
      BY <3>1, <3>2
  <2>3. TypeOK'
    BY <1>2, <2>2 DEF TypeOK, QueueFile, workingVars, workerVars
  <2>4. AllOff /\ AllOff'
    BY <1>2 DEF PhaseOK, QueueFile, AllOff, workerVars
  <2>5. PhaseOK'
    BY <1>2, <2>4 DEF PhaseOK, QueueFile
  <2>6. \A p \in Procs : WorkerOK(p)'
    BY <2>4 DEF WorkerOK, Busy, AllOff
  <2> QED
    BY <2>3, <2>5, <2>6
<1>3. ASSUME Launch PROVE TypeInv'
  <2>1. TypeOK'
    BY <1>3 DEF TypeOK, Launch, First, workingVars
  <2>2. PhaseOK'
    BY <1>3 DEF PhaseOK, Launch
  <2>3. \A p \in Procs : WorkerOK(p)'
    BY <1>3 DEF WorkerOK, Busy, Launch
  <2> QED
    BY <2>1, <2>2, <2>3
<1>4. ASSUME Exit \/ RemoveAll \/ OpenAll \/ CloseAll PROVE TypeInv'
  <2>1. NoFile \in [Files -> Seq(Blocks) \cup {None}] /\ NoFile # None
    BY NoneIsNoContent DEF NoFile
  <2>2. TypeOK'
    BY <1>4, <2>1 DEF TypeOK, Exit, RemoveAll, OpenAll, CloseAll, workingVars,
                      workerVars
  <2>3. AllOff /\ AllOff'
    BY <1>4 DEF PhaseOK, Exit, RemoveAll, OpenAll, CloseAll, AllOff,
                workerVars
  <2>4. PhaseOK'
    BY <1>4, <2>1, <2>3
    DEF PhaseOK, TypeOK, Exit, RemoveAll, OpenAll, CloseAll
  <2>5. \A p \in Procs : WorkerOK(p)'
    BY <2>3 DEF WorkerOK, Busy, AllOff
  <2> QED
    BY <2>2, <2>4, <2>5
<1>5. ASSUME NEW f \in Files, CatBegin(f) \/ CatEnd(f) PROVE TypeInv'
  <2>1. /\ allVert \in [Files -> Seq(Blocks) \cup {None}]
        /\ main = "cat" /\ main' = "cat" /\ UNCHANGED nThreads
    BY <1>5 DEF PhaseOK, TypeOK, CatBegin, CatEnd, driverVars
  <2>2. allVert' \in [Files -> Seq(Blocks) \cup {None}]
    <3>1. Part \in Seq(Blocks) /\ out[f] \in Seq(Blocks) \cup {None}
      BY DEF Part, TypeOK
    <3> QED
      BY <1>5, <2>1, <3>1 DEF CatBegin, CatEnd
  <2>3. TypeOK'
    BY <1>5, <2>2
    DEF TypeOK, CatBegin, CatEnd, driverVars, workingVars, workerVars
  <2>4. AllOff /\ AllOff'
    BY <1>5, <2>1 DEF PhaseOK, CatBegin, CatEnd, AllOff, workerVars
  <2>5. PhaseOK'
    BY <2>1, <2>2, <2>4, NoneIsNoContent DEF PhaseOK
  <2>6. \A p \in Procs : WorkerOK(p)'
    BY <2>4 DEF WorkerOK, Busy, AllOff
  <2> QED
    BY <2>3, <2>5, <2>6
<1> QED
  BY <1>1, <1>2, <1>3, <1>4, <1>5 DEF Driver

LEMMA OthersKeepTypes ==
    ASSUME TypeInv,
           \/ Crash \/ CtrlCInFind \/ CtrlCInWait \/ CtrlCInFinish
           \/ SignalMain
           \/ \E f \in Files : Withdraw(f)
           \/ PrepareCorpus \/ RemovePreviousOutput
    PROVE  TypeInv'
<1> USE DEF TypeInv
<1>1. CASE Crash \/ CtrlCInWait
  <2>1. /\ 1 \in Nat \ {0} /\ 2 \in 2..5 /\ {} \in Paths /\ <<>> \in Texts
    BY DEF Paths, Texts
  <2>2. /\ pos' \in [Procs -> Nat \ {0}] /\ stage' \in [Procs -> 2..5]
        /\ inFile' \in [Procs -> Paths] /\ left' \in [Procs -> Texts]
    BY <1>1, <2>1 DEF Crash, CtrlCInWait, StopWorkers
  <2>3. TypeOK'
    BY <1>1, <2>2
    DEF TypeOK, Crash, CtrlCInWait, StopWorkers, workingVars
  <2>4. AllOff'
    BY <1>1 DEF AllOff, Crash, CtrlCInWait, StopWorkers
  <2>5. PhaseOK'
    BY <1>1, <2>4 DEF PhaseOK, Crash, CtrlCInWait
  <2>6. \A p \in Procs : WorkerOK(p)'
    BY <2>4 DEF WorkerOK, Busy, AllOff
  <2> QED
    BY <2>3, <2>5, <2>6
<1>2. CASE CtrlCInFind \/ CtrlCInFinish \/ SignalMain
  <2>1. TypeOK'
    BY <1>2 DEF TypeOK, CtrlCInFind, CtrlCInFinish, SignalMain, workingVars,
                workerVars
  <2>2. PhaseOK'
    BY <1>2 DEF PhaseOK, TypeOK, CtrlCInFind, CtrlCInFinish, SignalMain,
                AllOff, workerVars
  <2>3. \A p \in Procs : WorkerOK(p)'
    BY <1>2, OtherWorkerOK
    DEF CtrlCInFind, CtrlCInFinish, SignalMain, workingVars, workerVars,
        Persist
  <2> QED
    BY <2>1, <2>2, <2>3
<1>3. CASE \/ \E f \in Files : Withdraw(f)
           \/ PrepareCorpus \/ RemovePreviousOutput
  <2>1. NoFile \in [Files -> Seq(Blocks) \cup {None}]
    BY DEF NoFile
  <2>2. PrepareCorpus => edition + 1 \in Editions
    BY ConstantsOK DEF PrepareCorpus, TypeOK, Editions
  <2>3. TypeOK'
    <3>1. in' \in [Files -> Editions \cup {None}] /\ edition' \in Editions
      BY <1>3, <2>2
      DEF TypeOK, Withdraw, PrepareCorpus, RemovePreviousOutput
    <3>2. /\ out' \in [Files -> Seq(Blocks) \cup {None}]
          /\ allVert' \in [Files -> Seq(Blocks) \cup {None}] \cup {None}
      BY <1>3, <2>1
      DEF TypeOK, Withdraw, PrepareCorpus, RemovePreviousOutput
    <3>3. UNCHANGED <<driverVars, workingVars, workerVars>>
      BY <1>3 DEF Withdraw, PrepareCorpus, RemovePreviousOutput
    <3> QED
      BY <3>1, <3>2, <3>3 DEF TypeOK, driverVars, workingVars, workerVars
  <2>4. PhaseOK'
    BY <1>3
    DEF PhaseOK, Withdraw, PrepareCorpus, RemovePreviousOutput, driverVars,
        workerVars, AllOff
  <2>5. \A p \in Procs : WorkerOK(p)'
    BY <1>3, OtherWorkerOK
    DEF Withdraw, PrepareCorpus, RemovePreviousOutput, driverVars,
        workingVars, workerVars, Persist
  <2> QED
    BY <2>3, <2>4, <2>5
<1> QED
  BY <1>1, <1>2, <1>3

(* What remains to be shown of a step of worker p.                         *)
LEMMA WorkerFrame ==
    ASSUME TypeInv, NEW p \in Procs, pc[p] # "off", UNCHANGED driverVars,
           \A q \in Procs \ {p} : UNCHANGED <<pc[q], pos[q], inFile[q]>>,
           Persist, TypeOK', WorkerOK(p)'
    PROVE  TypeInv'
<1>1. PhaseOK'
  BY DEF TypeInv, PhaseOK, AllOff, driverVars
<1>2. ASSUME NEW q \in Procs PROVE WorkerOK(q)'
  <2>1. CASE q = p
    BY <2>1
  <2>2. CASE q # p
    BY <2>2, OtherWorkerOK DEF driverVars
  <2> QED
    BY <2>1, <2>2
<1> QED
  BY <1>1, <1>2 DEF TypeInv

PcTypes == {"off", "read", "copy", "copying", "split", "body", "begin",
            "loop", "rename", "deliver"}

(* The sequence of allrun.sh goes on to the next stage or to the delivery. *)
LEMMA NextStageTypes ==
    ASSUME TypeOK, NEW p \in Procs, NextStage(p)
    PROVE  /\ pc' \in [Procs -> PcTypes]
           /\ pc'[p] \in {"begin", "deliver"}
           /\ \A q \in Procs \ {p} : pc'[q] = pc[q]
           /\ stage' \in [Procs -> 2..5]
<1>1. CASE stage[p] = 5
  BY <1>1 DEF NextStage, TypeOK, PcTypes
<1>2. CASE stage[p] # 5
  <2>1. stage[p] + 1 \in 2..5
    <3>1. stage[p] \in 2..5
      BY DEF TypeOK
    <3> QED
      BY <1>2, <3>1
  <2> QED
    BY <1>2, <2>1 DEF NextStage, TypeOK, PcTypes
<1> QED
  BY <1>1, <1>2

LEMMA WorkerKeepsTypes ==
    ASSUME TypeInv, NEW p \in Procs, Worker(p) \/ KillFirst(p) \/ KillStage(p)
    PROVE  TypeInv'
<1> DEFINE f == Cur(p)
<1> USE DEF TypeInv
<1>f. Busy(p) => f \in Files /\ pos[p] \in 1..Len(queue[p])
  BY CurIsFile
<1>w. WorkerOK(p)
  OBVIOUS
<1>s. stage[p] \in 2..5 /\ inFile[p] \in Paths /\ left[p] \in Texts
  BY DEF TypeOK
<1>p. /\ {} \in Paths
      /\ \A P \in Paths, k \in 2..5 : k # 5 => P \cup {k} \in Paths
  <2>1. \A k \in 2..5 : k # 5 => k \in BodyStages
    BY DEF BodyStages
  <2> QED
    BY <2>1 DEF Paths
<1>t. <<>> \in Texts
  BY DEF Texts
<1> HIDE DEF f
<1>1. CASE ReadLine(p)
  <2>1. TypeOK'
    BY <1>1 DEF TypeOK, ReadLine, driverVars, workingVars
  <2>2. WorkerOK(p)'
    BY <1>1 DEF WorkerOK, ReadLine, TypeOK, Busy, driverVars
  <2> QED
    BY <1>1, <2>1, <2>2, WorkerFrame
    DEF ReadLine, TypeOK, Persist, workingVars
<1>2. CASE Copy(p)
  <2>1. f \in Files /\ Busy(p)
    BY <1>2, <1>f DEF Busy, Copy
  <2>2. TypeOK'
    <3>1. CASE in[f] = None
      BY <1>2, <2>1, <3>1 DEF TypeOK, Copy, driverVars, f
    <3>2. CASE in[f] # None
      <4>1. /\ pc' = [pc EXCEPT ![p] = "copying"]
            /\ copy' = [copy EXCEPT ![f] = in[f]]
            /\ torn' = torn \cup {f}
        BY <1>2, <3>2 DEF Copy, f
      <4>2. torn' \subseteq Files
        BY <2>1, <4>1 DEF TypeOK
      <4> QED
        BY <1>2, <2>1, <4>1, <4>2 DEF TypeOK, Copy, driverVars
    <3> QED
      BY <3>1, <3>2
  <2>3. WorkerOK(p)'
    BY <1>2, <1>f, <2>1 DEF WorkerOK, Copy, TypeOK, Busy, driverVars, Cur, f
  <2>4. Persist
    BY <1>2, <2>1 DEF Persist, Copy, TypeOK, f
  <2> QED
    BY <1>2, <2>2, <2>3, <2>4, WorkerFrame DEF Copy, TypeOK
<1>13. CASE CopyRest(p) \/ KillFirst(p)
  <2>1. f \in Files /\ Busy(p)
    BY <1>13, <1>f DEF Busy, CopyRest, KillFirst
  <2>2. /\ UNCHANGED <<driverVars, copy, header, work, pos, inFile>>
        /\ pc[p] # "off"
        /\ \A q \in Procs \ {p} : pc'[q] = pc[q]
        /\ \/ pc[p] = "copying" /\ pc'[p] = "split"
           \/ /\ header[f] # None /\ work[f][{}] # None
              /\ pc'[p] = "begin"
    BY <1>13 DEF CopyRest, KillFirst, workingVars, TypeOK, f
  <2>3. TypeOK'
    <3>1. torn' \subseteq Files
      BY <1>13 DEF TypeOK, CopyRest, KillFirst, workingVars
    <3>3. stage' \in [Procs -> 2..5]
      <4>1. 2 \in 2..5 /\ stage \in [Procs -> 2..5]
        BY DEF TypeOK
      <4>2. UNCHANGED stage \/ stage' = [stage EXCEPT ![p] = 2]
        BY <1>13 DEF CopyRest, KillFirst
      <4> QED
        BY <4>1, <4>2
    <3>2. pc' \in [Procs -> PcTypes]
      BY <1>13 DEF TypeOK, PcTypes, CopyRest, KillFirst
    <3> QED
      BY <1>13, <2>2, <3>1, <3>2, <3>3
      DEF TypeOK, PcTypes, CopyRest, KillFirst, driverVars, workingVars
  <2>4. WorkerOK(p)'
    BY <1>f, <1>w, <2>1, <2>2 DEF WorkerOK, Busy, driverVars, Cur, f
  <2> QED
    BY <2>2, <2>3, <2>4, WorkerFrame DEF Persist
<1>3. CASE SplitHeader(p)
  <2>1. f \in Files /\ Busy(p) /\ copy[f] \in Editions
    BY <1>3, <1>f, <1>w DEF Busy, SplitHeader, TypeOK, WorkerOK, f
  <2>2. /\ header' = [header EXCEPT ![f] = copy[f]]
        /\ work' = [work EXCEPT ![f][{}] = <<>>]
    BY <1>3 DEF SplitHeader, Part, f
  <2>3. work' \in [Files -> [Paths -> Texts \cup {None}]]
    BY <1>p, <1>t, <2>1, <2>2, UpdateDirectory DEF TypeOK
  <2>4. TypeOK'
    BY <1>3, <2>1, <2>2, <2>3 DEF TypeOK, SplitHeader, driverVars
  <2>5. WorkerOK(p)'
    <3>1. header'[f] # None /\ work'[f][{}] # None
      BY <1>p, <1>t, <2>1, <2>2, NoneIsNoContent DEF TypeOK
    <3> QED
      BY <1>3, <1>f, <1>w, <2>1, <3>1
      DEF WorkerOK, SplitHeader, TypeOK, Busy, driverVars, Cur, f
  <2>6. Persist
    BY <1>3, <1>t, <2>1, <2>2, NoneIsNoContent
    DEF Persist, SplitHeader, Part, TypeOK
  <2> QED
    BY <1>3, <2>4, <2>5, <2>6, WorkerFrame DEF SplitHeader, TypeOK
<1>4. CASE SplitBody(p)
  <2>1. f \in Files /\ Busy(p) /\ copy[f] \in Editions /\ header[f] # None
    BY <1>4, <1>f, <1>w DEF Busy, SplitBody, TypeOK, WorkerOK, f
  <2>2. CopiedBody(f) \in Texts
    BY <1>t, <2>1, FullBodyIsText DEF CopiedBody, Part
  <2>3. work' = [work EXCEPT ![f][{}] = CopiedBody(f)]
    BY <1>4 DEF SplitBody, f
  <2>4. work' \in [Files -> [Paths -> Texts \cup {None}]]
    BY <1>p, <2>1, <2>2, <2>3, UpdateDirectory DEF TypeOK
  <2>5. TypeOK'
    BY <1>4, <2>1, <2>4 DEF TypeOK, SplitBody, driverVars
  <2>6. work'[f][{}] # None
    BY <1>p, <2>1, <2>2, <2>3, NoneIsNoContent DEF TypeOK
  <2>7. WorkerOK(p)'
    BY <1>4, <1>f, <2>1, <2>6
    DEF WorkerOK, SplitBody, TypeOK, Busy, driverVars, Cur, f
  <2>8. Persist
    <3>1. CopiedBody(f) # None /\ {} \in Paths
      BY <1>p, <2>2, NoneIsNoContent
    <3>2. \A g \in Files : \A Q \in Paths :
             work[g][Q] # None => work'[g][Q] # None
      BY <2>1, <2>3, <3>1, UpdatePersists DEF TypeOK
    <3> QED
      BY <1>4, <3>2 DEF Persist, SplitBody
  <2>9. /\ pc[p] # "off" /\ UNCHANGED driverVars
        /\ \A q \in Procs \ {p} : UNCHANGED <<pc[q], pos[q], inFile[q]>>
    BY <1>4 DEF SplitBody, TypeOK
  <2> QED
    BY <2>5, <2>7, <2>8, <2>9, WorkerFrame
<1>5. CASE Skip(p) \/ KillStage(p)
  <2>1. f \in Files /\ Busy(p) /\ NextStage(p) /\ TypeOK
    BY <1>5, <1>f DEF Busy, Skip, KillStage, KillFirst
  <2>2. inFile' \in [Procs -> Paths] /\ left' \in [Procs -> Texts]
    <3>1. inFile \in [Procs -> Paths] /\ left \in [Procs -> Texts]
      BY <2>1 DEF TypeOK
    <3>2. CASE Skip(p)
      BY <3>1, <3>2 DEF Skip
    <3>3. CASE KillStage(p)
      <4>1. /\ inFile' = [inFile EXCEPT ![p] = {}]
            /\ left' = [left EXCEPT ![p] = <<>>]
        BY <3>3 DEF KillStage, KillFirst
      <4>2. {} \in Paths /\ <<>> \in Texts
        BY <1>p, <1>t
      <4> QED
        BY <3>1, <4>1, <4>2
    <3> QED
      BY <1>5, <3>2, <3>3
  <2>3. TypeOK'
    <3>1. CASE Skip(p)
      BY <2>1, <2>2, <3>1, NextStageTypes
      DEF TypeOK, PcTypes, Skip, driverVars, workingVars
    <3>2. CASE KillStage(p)
      BY <2>1, <2>2, <3>2, NextStageTypes
      DEF TypeOK, PcTypes, KillStage, KillFirst, driverVars, workingVars
    <3> QED
      BY <1>5, <3>1, <3>2
  <2>4. WorkerOK(p)'
    BY <1>5, <1>f, <1>w, <2>1, NextStageTypes
    DEF WorkerOK, Skip, KillStage, KillFirst, Busy, driverVars, workingVars,
        Cur
  <2>5. \A q \in Procs \ {p} : inFile'[q] = inFile[q]
    BY <1>5 DEF Skip, KillStage, KillFirst, TypeOK
  <2> QED
    BY <1>5, <2>1, <2>3, <2>4, <2>5, NextStageTypes, WorkerFrame
    DEF Skip, KillStage, KillFirst, Persist, workingVars
<1>6. CASE Begin(p)
  <2> DEFINE P == Input(f, stage[p])
  <2>1. f \in Files /\ Busy(p) /\ work[f][{}] # None /\ stage[p] # 5
    BY <1>6, <1>f, <1>w DEF Busy, Begin, WorkerOK, f
  <2>2. P \in Paths /\ work[f][P] # None /\ P \cup {stage[p]} \in Paths
    BY <1>s, <1>p, <2>1, InputExists DEF TypeOK
  <2>3. /\ inFile' = [inFile EXCEPT ![p] = P]
        /\ left' = [left EXCEPT ![p] = Contents(work[f][P])]
        /\ temp' = [temp EXCEPT ![f][P \cup {stage[p]}] = <<>>]
    BY <1>6 DEF Begin, Truncate, f
  <2> HIDE DEF P
  <2>4. temp' \in [Files -> [Paths -> Texts \cup {None}]]
    BY <1>t, <2>1, <2>2, <2>3, UpdateDirectory DEF TypeOK
  <2>5. left' \in [Procs -> Texts]
    BY <2>1, <2>2, <2>3, ContentsIsText DEF TypeOK
  <2>6. TypeOK'
    BY <1>6, <2>2, <2>3, <2>4, <2>5 DEF TypeOK, Begin, driverVars
  <2>7. WorkerOK(p)'
    BY <1>6, <1>f, <1>w, <2>1, <2>2, <2>3
    DEF WorkerOK, Begin, TypeOK, Busy, driverVars, Cur, f
  <2> QED
    BY <1>6, <2>6, <2>7, WorkerFrame DEF Begin, TypeOK, Persist
<1>7. CASE AppendLine(p)
  <2> DEFINE P == inFile[p] \cup {stage[p]}
  <2>1. f \in Files /\ Busy(p) /\ stage[p] # 5 /\ P \in Paths
    BY <1>7, <1>f, <1>s, <1>p DEF Busy, AppendLine
  <2>2. /\ temp' = [temp EXCEPT ![f][P] =
                               Append(Contents(temp[f][P]), Head(left[p]))]
        /\ left' = [left EXCEPT ![p] = Tail(left[p])]
        /\ left[p] # <<>>
    BY <1>7 DEF AppendLine, f
  <2>3. Head(left[p]) \in Lines /\ Tail(left[p]) \in Texts
    BY <1>s, <2>2 DEF Texts
  <2>4. Contents(temp[f][P]) \in Texts
    BY <2>1, ContentsIsText DEF TypeOK
  <2>5. Append(Contents(temp[f][P]), Head(left[p])) \in Texts
    BY <2>3, <2>4 DEF Texts
  <2> HIDE DEF P
  <2>6. temp' \in [Files -> [Paths -> Texts \cup {None}]]
    BY <2>1, <2>2, <2>5, UpdateDirectory DEF TypeOK
  <2>7. TypeOK'
    <3>1. left' \in [Procs -> Texts]
      BY <2>2, <2>3 DEF TypeOK
    <3> QED
      BY <1>7, <2>6, <3>1 DEF TypeOK, AppendLine, driverVars
  <2>8. WorkerOK(p)'
    BY <1>7, <1>w DEF WorkerOK, AppendLine, Busy, driverVars, Cur
  <2> QED
    BY <1>7, <2>7, <2>8, WorkerFrame DEF AppendLine, TypeOK, Persist
<1>8. CASE Rename(p)
  <2> DEFINE P == inFile[p] \cup {stage[p]}
  <2>1. /\ f \in Files /\ Busy(p) /\ stage[p] # 5 /\ P \in Paths
        /\ NextStage(p) /\ TypeOK
    BY <1>8, <1>f, <1>s, <1>p DEF Busy, Rename
  <2>2. \/ UNCHANGED <<work, temp>>
        \/ /\ temp[f][P] \in Texts /\ temp[f][P] # None
           /\ work' = [work EXCEPT ![f][P] = temp[f][P]]
           /\ temp' = [temp EXCEPT ![f][P] = None]
    BY <1>8, <2>1 DEF Rename, TypeOK, f
  <2> HIDE DEF P
  <2>3. /\ work' \in [Files -> [Paths -> Texts \cup {None}]]
        /\ temp' \in [Files -> [Paths -> Texts \cup {None}]]
    <3>1. /\ work \in [Files -> [Paths -> Texts \cup {None}]]
          /\ temp \in [Files -> [Paths -> Texts \cup {None}]]
          /\ temp[f][P] \in Texts \cup {None} /\ None \in Texts \cup {None}
      BY <2>1 DEF TypeOK
    <3>2. CASE UNCHANGED <<work, temp>>
      BY <3>1, <3>2
    <3>3. CASE /\ work' = [work EXCEPT ![f][P] = temp[f][P]]
               /\ temp' = [temp EXCEPT ![f][P] = None]
      BY <2>1, <3>1, <3>3, UpdateDirectory
    <3> QED
      BY <2>2, <3>2, <3>3
  <2>4. inFile' = [inFile EXCEPT ![p] = {}]
    BY <1>8 DEF Rename
  <2>5. TypeOK'
    <3>1. /\ pc' \in [Procs -> PcTypes] /\ stage' \in [Procs -> 2..5]
      BY <2>1, NextStageTypes
    <3>2. inFile' \in [Procs -> Paths]
      BY <1>p, <2>4 DEF TypeOK
    <3>3. UNCHANGED <<in, edition, driverVars, copy, torn, header, vert,
                      vertTemp, out, allVert, pos, left>>
      BY <1>8 DEF Rename
    <3> QED
      BY <2>1, <2>3, <3>1, <3>2, <3>3 DEF TypeOK, PcTypes, driverVars
  <2>6. \A g \in Files : \A Q \in Paths :
           work[g][Q] # None => work'[g][Q] # None
    <3>1. CASE UNCHANGED work
      BY <3>1
    <3>2. CASE temp[f][P] # None /\ work' = [work EXCEPT ![f][P] = temp[f][P]]
      BY <2>1, <3>2, UpdatePersists DEF TypeOK
    <3> QED
      BY <2>2, <3>1, <3>2
  <2>7. Persist
    BY <1>8, <2>6 DEF Persist, Rename
  <2>8. WorkerOK(p)'
    BY <1>8, <1>f, <1>p, <1>w, <2>1, <2>6, NextStageTypes
    DEF WorkerOK, Rename, Busy, driverVars, Cur, f
  <2> QED
    BY <1>8, <2>1, <2>4, <2>5, <2>7, <2>8, NextStageTypes, WorkerFrame
    DEF Rename, TypeOK
<1>9. CASE BeginDoc(p)
  <2>1. f \in Files /\ Busy(p) /\ work[f][{}] # None /\ stage[p] = 5
    BY <1>9, <1>f, <1>w DEF Busy, BeginDoc, WorkerOK, f
  <2>2. Input(f, 5) \in Paths /\ work[f][Input(f, 5)] # None
    BY <2>1, InputExists DEF TypeOK
  <2>3. <<>> \in Seq(Blocks)
    OBVIOUS
  <2>4. TypeOK'
    BY <1>9, <2>1, <2>2, <2>3
    DEF TypeOK, BeginDoc, Truncate, driverVars, f
  <2>5. WorkerOK(p)'
    BY <1>9, <1>f, <1>w, <2>1, <2>2
    DEF WorkerOK, BeginDoc, TypeOK, Busy, driverVars, Cur, f
  <2> QED
    BY <1>9, <2>4, <2>5, WorkerFrame DEF BeginDoc, TypeOK, Persist
<1>10. CASE WriteDoc(p)
  <2> DEFINE block == [hdr |-> header[f], body |-> work[f][inFile[p]],
                       path |-> inFile[p]]
  <2>1. f \in Files /\ Busy(p)
    BY <1>10, <1>f DEF Busy, WriteDoc
  <2>2. header[f] \in Editions /\ work[f][inFile[p]] \in Texts
    BY <1>10, <1>w, <1>s, <2>1 DEF WriteDoc, WorkerOK, TypeOK, f
  <2>3. block \in Blocks
    BY <1>s, <2>2 DEF Blocks
  <2>4. /\ vertTemp' = [vertTemp EXCEPT ![f] =
                                   Append(Contents(vertTemp[f]), block)]
        /\ pc' = [pc EXCEPT ![p] = "rename"]
        /\ inFile' = [inFile EXCEPT ![p] = {}]
    BY <1>10 DEF WriteDoc, f
  <2> HIDE DEF block
  <2>5. Contents(vertTemp[f]) \in Seq(Blocks)
    BY <2>1 DEF TypeOK, Contents
  <2>6. Append(Contents(vertTemp[f]), block) \in Seq(Blocks)
    BY <2>3, <2>5
  <2>7. vertTemp' \in [Files -> Seq(Blocks) \cup {None}]
    BY <2>1, <2>4, <2>6 DEF TypeOK
  <2>8. TypeOK'
    BY <1>10, <1>p, <2>4, <2>7 DEF TypeOK, WriteDoc, driverVars
  <2>9. WorkerOK(p)'
    BY <1>10, <1>w, <2>4 DEF WorkerOK, WriteDoc, TypeOK, Busy, driverVars, Cur
  <2> QED
    BY <1>10, <2>4, <2>8, <2>9, WorkerFrame DEF WriteDoc, TypeOK, Persist
<1>11. CASE RenameDoc(p)
  <2>1. f \in Files /\ Busy(p) /\ NextStage(p) /\ TypeOK
    BY <1>11, <1>f DEF Busy, RenameDoc
  <2>2. TypeOK'
    BY <1>11, <2>1, NextStageTypes
    DEF TypeOK, PcTypes, RenameDoc, driverVars, f
  <2>3. WorkerOK(p)'
    BY <1>11, <1>f, <1>w, <2>1, NextStageTypes
    DEF WorkerOK, RenameDoc, Busy, driverVars, Cur
  <2> QED
    BY <1>11, <2>1, <2>2, <2>3, NextStageTypes, WorkerFrame
    DEF RenameDoc, TypeOK, Persist
<1>12. CASE Deliver(p)
  <2>1. f \in Files /\ Busy(p)
    BY <1>12, <1>f DEF Busy, Deliver
  <2>2. TypeOK'
    <3>1. /\ vert' \in [Files -> Seq(Blocks) \cup {None}]
          /\ out' \in [Files -> Seq(Blocks) \cup {None}]
      <4>1. /\ vert \in [Files -> Seq(Blocks) \cup {None}]
            /\ out \in [Files -> Seq(Blocks) \cup {None}]
        BY DEF TypeOK
      <4> QED
        BY <1>12, <2>1, <4>1 DEF Deliver, f
    <3>2. /\ pc' \in [Procs -> PcTypes] /\ pos' \in [Procs -> Nat \ {0}]
          /\ pc'[p] = "read"
      BY <1>12 DEF Deliver, TypeOK, PcTypes
    <3> QED
      BY <1>12, <3>1, <3>2 DEF TypeOK, PcTypes, Deliver, driverVars
  <2>3. WorkerOK(p)'
    BY <1>12 DEF WorkerOK, Deliver, TypeOK, Busy
  <2> QED
    BY <1>12, <2>2, <2>3, WorkerFrame DEF Deliver, TypeOK, Persist
<1> QED
  BY <1>1, <1>2, <1>3, <1>4, <1>5, <1>6, <1>7, <1>8, <1>9, <1>10, <1>11,
     <1>12, <1>13 DEF Worker

LEMMA TypeInvNext == TypeInv /\ [Next]_vars => TypeInv'
<1> SUFFICES ASSUME TypeInv, [Next]_vars PROVE TypeInv'
  OBVIOUS
<1>1. CASE Driver \/ \E n \in ThreadCounts : Start(n)
  BY <1>1, DriverKeepsTypes
<1>2. CASE \E p \in Procs : Worker(p) \/ KillFirst(p) \/ KillStage(p)
  BY <1>2, WorkerKeepsTypes
<1>3. CASE \/ Crash \/ CtrlCInFind \/ CtrlCInWait \/ CtrlCInFinish
           \/ SignalMain
           \/ \E f \in Files : Withdraw(f)
           \/ PrepareCorpus \/ RemovePreviousOutput
  BY <1>3, OthersKeepTypes
<1>4. CASE UNCHANGED vars
  <2>1. TypeOK'
    BY <1>4
    DEF TypeInv, TypeOK, vars, driverVars, workingVars, workerVars
  <2>2. PhaseOK'
    BY <1>4 DEF TypeInv, PhaseOK, AllOff, vars, driverVars, workerVars
  <2>3. \A p \in Procs : WorkerOK(p)'
    BY <1>4 DEF TypeInv, WorkerOK, Busy, Cur, vars, driverVars, workingVars,
                workerVars
  <2> QED
    BY <2>1, <2>2, <2>3 DEF TypeInv
<1> QED
  BY <1>1, <1>2, <1>3, <1>4 DEF Next, Disturbance, User

(* In every reachable state, for any number of files, workers, runs and    *)
(* any disturbances, all files and variables have the form the scripts     *)
(* take for granted: what a script reads exists.                           *)
THEOREM TypeCorrect == Spec => []TypeOK
<1>1. TypeInv => TypeOK
  BY DEF TypeInv
<1> QED
  BY <1>1, TypeInvInit, TypeInvNext, PTL DEF Spec

-----------------------------------------------------------------------------
(* The queues, when all runs are given the same number of threads.  No     *)
(* name is queued twice because the queue files that a run executes are    *)
(* the ones it has emptied, and find passes each name once.                *)

FixedThreads == \A m, n \in ThreadCounts : m = n

QueueInv ==
    /\ QueuedOnce
    /\ \A p \in Procs : \A n \in ThreadCounts : p > n => queue[p] = <<>>
    /\ main # "idle" => nThreads \in ThreadCounts
    /\ main \notin {"find", "cat"} => todo = {}
    /\ main = "find" =>
          \A p \in Procs : \A i \in DOMAIN queue[p] : queue[p][i] \notin todo

LEMMA QueueInvInit == Init => QueueInv
BY DEF Init, QueueInv, QueuedOnce

LEMMA StartEmpties ==
    ASSUME QueueInv, NEW n \in ThreadCounts, Start(n)
    PROVE  \A p \in Procs : queue'[p] = <<>>
<1>1. ASSUME NEW p \in Procs PROVE Emptied(n)[p] = <<>>
  <2>1. p \in Int /\ n \in Int
    BY ConstantsOK DEF Procs
  <2>2. p > n => queue[p] = <<>>
    BY DEF QueueInv
  <2> QED
    BY <2>1, <2>2 DEF Emptied
<1> QED
  BY <1>1 DEF Start

LEMMA QueueInvStart ==
    ASSUME FixedThreads, TypeInv, QueueInv,
           NEW n \in ThreadCounts, Start(n)
    PROVE  QueueInv'
BY StartEmpties DEF Start, QueueInv, QueuedOnce

LEMMA QueueInvQueueFile ==
    ASSUME FixedThreads, TypeInv, QueueInv, NEW f \in Files, QueueFile(f)
    PROVE  QueueInv'
<1>1. /\ main' = "find" /\ main = "find" /\ nThreads' = nThreads
      /\ todo' = todo \ {f} /\ f \in todo /\ nThreads \in ThreadCounts
  BY DEF QueueFile, QueueInv
<1>2. CASE PassedOver(f)
  BY <1>1, <1>2 DEF QueueFile, QueueInv, QueuedOnce
<1>3. CASE ~PassedOver(f)
  <2>1. Turn \in 1..nThreads /\ Turn \in Procs
    <3>1. nThreads \in Procs /\ counter \in Nat
      BY <1>1 DEF TypeInv, PhaseOK, TypeOK
    <3>2. /\ nThreads \in Nat \ {0} /\ MaxThreads \in Nat
          /\ nThreads <= MaxThreads
      BY <3>1, ConstantsOK DEF Procs
    <3>3. counter % nThreads \in 0..(nThreads - 1)
      BY <3>1, <3>2
    <3> QED
      BY <3>2, <3>3 DEF Turn, Procs
  <2> DEFINE t == Turn
             len == Len(queue[t])
  <2>2. queue \in [Procs -> Seq(Files)] /\ queue[t] \in Seq(Files)
    BY <2>1 DEF TypeInv, TypeOK
  <2>3. queue' = [queue EXCEPT ![t] = Append(queue[t], f)]
    BY <1>3 DEF QueueFile
  <2> HIDE DEF t
  <2>4. /\ DOMAIN queue'[t] = (DOMAIN queue[t]) \cup {len + 1}
        /\ len + 1 \notin DOMAIN queue[t]
        /\ queue'[t][len + 1] = f
        /\ \A i \in DOMAIN queue[t] : queue'[t][i] = queue[t][i]
    BY <2>1, <2>2, <2>3, AppendProperties DEF t
  <2>5. \A p \in Procs \ {t} : queue'[p] = queue[p]
    BY <2>2, <2>3
  <2>6. \A p \in Procs : \A i \in DOMAIN queue'[p] :
           \/ i \in DOMAIN queue[p] /\ queue'[p][i] = queue[p][i]
           \/ p = t /\ i = len + 1 /\ queue'[p][i] = f
    BY <2>4, <2>5
  <2>7. \A p \in Procs : \A i \in DOMAIN queue[p] : queue[p][i] # f
    BY <1>1 DEF QueueInv
  <2>8. QueuedOnce'
    BY <2>6, <2>7 DEF QueueInv, QueuedOnce
  <2>9. \A p \in Procs : \A n \in ThreadCounts : p > n => queue'[p] = <<>>
    <3> SUFFICES ASSUME NEW p \in Procs, NEW n \in ThreadCounts, p > n
                 PROVE  queue'[p] = <<>>
      OBVIOUS
    <3>1. n = nThreads
      BY <1>1 DEF FixedThreads
    <3>2. p # t
      BY <2>1, <3>1, ConstantsOK DEF t, Procs
    <3> QED
      BY <2>5, <3>2 DEF QueueInv
  <2>10. \A p \in Procs : \A i \in DOMAIN queue'[p] : queue'[p][i] \notin todo'
    BY <1>1, <2>6 DEF QueueInv
  <2> QED
    BY <1>1, <2>8, <2>9, <2>10 DEF QueueInv
<1> QED
  BY <1>2, <1>3

LEMMA QueueInvNext ==
    ASSUME FixedThreads, TypeInv, QueueInv, [Next]_vars
    PROVE  QueueInv'
<1>1. CASE \E n \in ThreadCounts : Start(n)
  BY <1>1, QueueInvStart
<1>2. CASE \E f \in Files : QueueFile(f)
  BY <1>2, QueueInvQueueFile
<1>3. CASE \/ Launch \/ Exit \/ RemoveAll \/ OpenAll \/ CloseAll
           \/ Crash \/ CtrlCInFind \/ CtrlCInWait \/ CtrlCInFinish
           \/ SignalMain
  <2>1. queue' = queue /\ nThreads' = nThreads
    BY <1>3
    DEF Launch, Exit, RemoveAll, OpenAll, CloseAll, Crash, CtrlCInFind,
        CtrlCInWait, CtrlCInFinish, SignalMain
  <2>2. main # "idle" /\ (main' # "cat" => todo' = {})
    BY <1>3
    DEF Launch, Exit, RemoveAll, OpenAll, CloseAll, Crash, CtrlCInFind,
        CtrlCInWait, CtrlCInFinish, SignalMain, QueueInv
  <2> QED
    BY <2>1, <2>2 DEF QueueInv, QueuedOnce
<1>5. CASE \E f \in Files : CatBegin(f) \/ CatEnd(f)
  <2>1. UNCHANGED <<queue, nThreads, main>> /\ main = "cat"
    BY <1>5 DEF CatBegin, CatEnd, driverVars
  <2> QED
    BY <2>1 DEF QueueInv, QueuedOnce
<1>4. CASE \/ \E p \in Procs : Worker(p) \/ KillFirst(p) \/ KillStage(p)
           \/ \E f \in Files : Withdraw(f)
           \/ PrepareCorpus \/ RemovePreviousOutput
           \/ UNCHANGED vars
  <2>1. UNCHANGED driverVars
    BY <1>4
    DEF Worker, ReadLine, Copy, CopyRest, SplitHeader, SplitBody, Skip, Begin,
        AppendLine, Rename, BeginDoc, WriteDoc, RenameDoc, Deliver, KillStage,
        KillFirst, Withdraw, PrepareCorpus, RemovePreviousOutput, vars
  <2> QED
    BY <2>1 DEF driverVars, QueueInv, QueuedOnce
<1> QED
  BY <1>1, <1>2, <1>3, <1>4, <1>5 DEF Next, Driver, Disturbance, User

(* With a fixed n no name is ever queued twice, whatever stops runs.       *)
THEOREM QueuedAtMostOnce ==
    ASSUME FixedThreads
    PROVE  Spec => []QueuedOnce
<1>1. Init => TypeInv /\ QueueInv
  BY TypeInvInit, QueueInvInit
<1>2. TypeInv /\ QueueInv /\ [Next]_vars => (TypeInv /\ QueueInv)'
  BY TypeInvNext, QueueInvNext
<1>3. QueueInv => QueuedOnce
  BY DEF QueueInv
<1> QED
  BY <1>1, <1>2, <1>3, PTL DEF Spec

LEMMA WorkersApart ==
    ASSUME TypeInv, QueuedOnce
    PROVE  NoSharedFile
<1> SUFFICES ASSUME NEW p \in Procs, NEW q \in Procs,
                    p # q, Busy(p), Busy(q)
             PROVE  Cur(p) # Cur(q)
  BY DEF NoSharedFile
<1>1. pos[p] \in DOMAIN queue[p] /\ pos[q] \in DOMAIN queue[q]
  BY CurIsFile DEF TypeInv, TypeOK
<1> QED
  BY <1>1 DEF QueuedOnce, Cur

(* With a fixed n the working files of a source file have one writer at    *)
(* most: no locking is needed for any number of workers, files and runs,   *)
(* nor after a crash or an interrupt at any point.                         *)
THEOREM OneWriterPerFile ==
    ASSUME FixedThreads
    PROVE  Spec => []NoSharedFile
<1>1. Init => TypeInv /\ QueueInv
  BY TypeInvInit, QueueInvInit
<1>2. TypeInv /\ QueueInv /\ [Next]_vars => (TypeInv /\ QueueInv)'
  BY TypeInvNext, QueueInvNext
<1>3. TypeInv /\ QueueInv => NoSharedFile
  BY WorkersApart DEF QueueInv
<1> QED
  BY <1>1, <1>2, <1>3, PTL DEF Spec

-----------------------------------------------------------------------------
(* Stage 1 and cp write in place.  Condition (s) of module Pipeline: what  *)
(* they leave is never cut short, because neither is killed by itself and, *)
(* if runs can be stopped in the middle of a copy, the source file is      *)
(* still there to be copied again.                                         *)

NeverCut ==
    /\ "killFirst" \notin Faults
    /\ "withdraw" \notin Faults \/ Faults \cap {"crash", "ctrlC"} = {}

CopyInv ==
    /\ \A p \in Procs : pc[p] \in {"split", "body"} => Cur(p) \notin torn
    /\ "withdraw" \notin Faults => \A f \in Files : in[f] # None
    /\ "withdraw" \in Faults =>
          \A f \in torn : \E p \in Procs : pc[p] = "copying" /\ Cur(p) = f

LEMMA CopyInvInit == Init => CopyInv
<1> SUFFICES ASSUME Init PROVE CopyInv
  OBVIOUS
<1>1. 1 \in Editions
  BY ConstantsOK DEF Editions
<1>2. \A f \in Files : in[f] # None
  BY <1>1, NoneIsNoContent DEF Init
<1>3. torn = {}
  BY DEF Init
<1> QED
  BY <1>2, <1>3 DEF CopyInv

LEMMA CopyInvCopy ==
    ASSUME TypeInv, NoSharedFile, CopyInv, NEW p \in Procs,
           Copy(p) \/ CopyRest(p)
    PROVE  CopyInv'
<1> DEFINE f == Cur(p)
<1>1. /\ UNCHANGED <<in, queue, pos>> /\ Busy(p) /\ f \in Files
      /\ \A q \in Procs \ {p} : UNCHANGED pc[q]
      /\ pc[p] \in {"copy", "copying"}
  <2>1. Busy(p)
    BY DEF Copy, CopyRest, Busy
  <2> QED
    BY <2>1, CurIsFile DEF Copy, CopyRest, TypeInv, TypeOK, driverVars
<1>2. \A q \in Procs : Cur(q)' = Cur(q)
  BY <1>1 DEF Cur
<1>3. \A q \in Procs \ {p} :
         pc[q] \in {"copying", "split", "body"} => Cur(q) # f
  BY <1>1 DEF NoSharedFile, Busy
<1> HIDE DEF f
<1>4. CASE Copy(p) /\ in[f] = None
  <2>1. UNCHANGED torn /\ pc[p] = "copy"
    BY <1>4 DEF Copy, f
  <2>2. "withdraw" \in Faults
    BY <1>1, <1>4 DEF CopyInv
  <2>3. f \notin torn
    BY <1>3, <2>1, <2>2 DEF CopyInv, f
  <2>4. \A q \in Procs : pc'[q] \in {"split", "body"} => Cur(q)' \notin torn
    BY <1>1, <1>2, <2>3 DEF CopyInv, f
  <2>5. ASSUME NEW g \in torn
        PROVE  \E q \in Procs : pc'[q] = "copying" /\ Cur(q)' = g
    BY <1>1, <1>2, <2>1, <2>2 DEF CopyInv
  <2> QED
    BY <1>1, <2>1, <2>4, <2>5 DEF CopyInv
<1>5. CASE Copy(p) /\ in[f] # None
  <2>1. torn' = torn \cup {f} /\ pc'[p] = "copying"
    BY <1>5 DEF Copy, TypeInv, TypeOK, f
  <2>2. \A q \in Procs : pc'[q] \in {"split", "body"} => Cur(q)' \notin torn'
    BY <1>1, <1>2, <1>3, <2>1 DEF CopyInv
  <2>3. ASSUME "withdraw" \in Faults, NEW g \in torn'
        PROVE  \E q \in Procs : pc'[q] = "copying" /\ Cur(q)' = g
    BY <1>1, <1>2, <2>1, <2>3 DEF CopyInv, f
  <2> QED
    BY <1>1, <2>2, <2>3 DEF CopyInv
<1>6. CASE CopyRest(p)
  <2>1. torn' = torn \ {f} /\ pc'[p] = "split"
    BY <1>6 DEF CopyRest, TypeInv, TypeOK, f
  <2>2. \A q \in Procs : pc'[q] \in {"split", "body"} => Cur(q)' \notin torn'
    BY <1>1, <1>2, <2>1 DEF CopyInv, f
  <2>3. ASSUME "withdraw" \in Faults, NEW g \in torn'
        PROVE  \E q \in Procs : pc'[q] = "copying" /\ Cur(q)' = g
    BY <1>1, <1>2, <2>1, <2>3 DEF CopyInv, f
  <2> QED
    BY <1>1, <2>2, <2>3 DEF CopyInv
<1> QED
  BY <1>4, <1>5, <1>6

(* A step that starts no copy and ends none.                               *)
LEMMA CopyInvAside ==
    ASSUME CopyInv, UNCHANGED torn,
           "withdraw" \notin Faults => \A f \in Files : in'[f] # None,
           \A p \in Procs :
              \/ /\ Cur(p)' = Cur(p)
                 /\ pc'[p] \in {"split", "body"} => pc[p] \in {"split", "body"}
                 /\ pc[p] = "copying" => pc'[p] = "copying"
              \/ /\ pc'[p] \notin {"split", "body"}
                 /\ "withdraw" \in Faults => pc[p] # "copying"
    PROVE  CopyInv'
<1>1. \A p \in Procs : pc'[p] \in {"split", "body"} => Cur(p)' \notin torn
  BY DEF CopyInv
<1>2. ASSUME "withdraw" \in Faults, NEW f \in torn
      PROVE  \E p \in Procs : pc'[p] = "copying" /\ Cur(p)' = f
  <2>1. PICK p \in Procs : pc[p] = "copying" /\ Cur(p) = f
    BY <1>2 DEF CopyInv
  <2> QED
    BY <1>2, <2>1
<1> QED
  BY <1>1, <1>2 DEF CopyInv

LEMMA CopyInvNext ==
    ASSUME NeverCut, TypeInv, NoSharedFile, CopyInv, [Next]_vars
    PROVE  CopyInv'
<1>f. \A p \in Procs : ~KillFirst(p)
  BY DEF NeverCut, KillFirst
<1>1. CASE \E p \in Procs : Copy(p) \/ CopyRest(p)
  BY <1>1, CopyInvCopy
<1>2. ASSUME NEW p \in Procs, Worker(p) \/ KillStage(p),
             ~(Copy(p) \/ CopyRest(p))
      PROVE  CopyInv'
  <2>1. UNCHANGED <<in, queue, torn>>
    BY <1>2 DEF Worker, ReadLine, SplitHeader, SplitBody, Skip, Begin,
                AppendLine, Rename, BeginDoc, WriteDoc, RenameDoc, Deliver,
                KillStage, driverVars, workingVars
  <2>2. \A q \in Procs \ {p} : UNCHANGED <<pc[q], pos[q]>>
    BY <1>2, NextStageTypes
    DEF Worker, ReadLine, SplitHeader, SplitBody, Skip, Begin, AppendLine,
        Rename, BeginDoc, WriteDoc, RenameDoc, Deliver, KillStage, TypeInv,
        TypeOK
  <2>3. /\ pc[p] # "copying"
        /\ pc'[p] \in {"split", "body"} =>
              pc[p] = "split" /\ pos'[p] = pos[p]
    BY <1>2, NextStageTypes
    DEF Worker, ReadLine, SplitHeader, SplitBody, Skip, Begin, AppendLine,
        Rename, BeginDoc, WriteDoc, RenameDoc, Deliver, KillStage, TypeInv,
        TypeOK
  <2> QED
    BY <2>1, <2>2, <2>3, CopyInvAside DEF CopyInv, Cur
<1>3. CASE ~ \E p \in Procs : Worker(p) \/ KillStage(p)
  <2>1. UNCHANGED torn
    BY <1>f, <1>3
    DEF Next, Driver, Disturbance, User, Start, QueueFile, Launch, Exit,
        RemoveAll, OpenAll, CatBegin, CatEnd, CloseAll, Crash, CtrlCInFind,
        CtrlCInFinish, CtrlCInWait, SignalMain, Withdraw, PrepareCorpus,
        RemovePreviousOutput, vars, workingVars
  <2>2. "withdraw" \notin Faults => \A f \in Files : in'[f] # None
    <3>1. CASE PrepareCorpus
      <4>1. edition + 1 \in Editions
        BY <3>1, ConstantsOK DEF PrepareCorpus, TypeInv, TypeOK, Editions
      <4> QED
        BY <3>1, <4>1, NoneIsNoContent DEF PrepareCorpus
    <3>2. CASE \E f \in Files : Withdraw(f)
      BY <3>2 DEF Withdraw
    <3>3. CASE ~PrepareCorpus /\ ~ \E f \in Files : Withdraw(f)
      <4>1. UNCHANGED in
        BY <1>f, <1>3, <3>3
        DEF Next, Driver, Disturbance, User, Start, QueueFile, Launch, Exit,
            RemoveAll, OpenAll, CatBegin, CatEnd, CloseAll, Crash,
            CtrlCInFind, CtrlCInFinish, CtrlCInWait, SignalMain,
            RemovePreviousOutput, vars
      <4> QED
        BY <4>1 DEF CopyInv
    <3> QED
      BY <3>1, <3>2, <3>3
  <2>3. CASE Crash \/ CtrlCInWait
    <3>1. "withdraw" \notin Faults
      BY <2>3 DEF NeverCut, Crash, CtrlCInWait
    <3>2. \A p \in Procs : pc'[p] = "off"
      BY <2>3 DEF Crash, CtrlCInWait, StopWorkers
    <3> QED
      BY <2>1, <2>2, <3>1, <3>2, CopyInvAside
  <2>4. CASE \/ \E n \in ThreadCounts : Start(n)
             \/ \E f \in Files : QueueFile(f)
             \/ Launch
    <3>1. \A p \in Procs : pc[p] = "off" /\ pc'[p] \in {"off", "read"}
      BY <2>4 DEF Start, QueueFile, Launch, TypeInv, PhaseOK, AllOff,
                  workerVars
    <3> QED
      BY <2>1, <2>2, <3>1, CopyInvAside
  <2>5. CASE UNCHANGED <<queue, workerVars>>
    BY <2>1, <2>2, <2>5, CopyInvAside DEF Cur, workerVars
  <2> QED
    BY <1>f, <1>3, <2>3, <2>4, <2>5
    DEF Next, Driver, Disturbance, User, Exit, RemoveAll, OpenAll, CatBegin,
        CatEnd, CloseAll, CtrlCInFind, CtrlCInFinish, SignalMain, Withdraw,
        PrepareCorpus, RemovePreviousOutput, vars, driverVars
<1> QED
  BY <1>1, <1>2, <1>3

-----------------------------------------------------------------------------
(* The texts, when all runs are given the same number of threads.  A       *)
(* temporary file and what its writer has still to read make up the text   *)
(* that it was opened for; the writer is the only one, and a file that     *)
(* nobody writes does not matter, because the next writer empties it.      *)

(* The texts that there can be: a whole one, or what is left of one that   *)
(* was cut short.                                                          *)
Bodies == {FullBody(e) : e \in Editions} \cup (IF NeverCut THEN {} ELSE {Part})

OneText(t) == t \in Bodies

Target(p) == inFile[p] \cup {stage[p]}

WorkerTexts(p) ==
    /\ pc[p] \in {"begin", "loop", "rename"} => OneText(work[Cur(p)][{}])
    /\ pc[p] = "loop" /\ stage[p] # 5 =>
          /\ temp[Cur(p)][Target(p)] # None
          /\ OneText(temp[Cur(p)][Target(p)] \o left[p])

(* f.body itself is in the making while stage 1 works.                     *)
WorkIsText ==
    \A f \in Files : \A P \in Paths :
        (P # {} \/ ~NeverCut) /\ work[f][P] # None => OneText(work[f][P])

TextInv ==
    /\ WorkIsText
    /\ \A p \in Procs : WorkerTexts(p)

LEMMA OneTextIsNotNone ==
    ASSUME NEW t, OneText(t)
    PROVE  t # None /\ t \in Texts
<1>1. Part \in Texts
  BY DEF Part, Texts
<1>2. t \in Texts
  BY <1>1, FullBodyIsText DEF OneText, Bodies
<1> QED
  BY <1>2, NoneIsNoContent

(* Moving the next line from what is left to what is written keeps the     *)
(* whole.                                                                  *)
LEMMA MoveLine ==
    ASSUME NEW t \in Texts, NEW l \in Texts, l # <<>>
    PROVE  Append(t, Head(l)) \o Tail(l) = t \o l
<1> USE DEF Texts
<1>1. Head(l) \in Lines /\ Tail(l) \in Seq(Lines)
  OBVIOUS
<1>2. Append(t, Head(l)) = t \o <<Head(l)>> /\ <<Head(l)>> \in Seq(Lines)
  BY <1>1, AppendIsConcat
<1>3. l = <<Head(l)>> \o Tail(l)
  BY <1>1, HeadTailProperties
<1>4. (t \o <<Head(l)>>) \o Tail(l) = t \o (<<Head(l)>> \o Tail(l))
  BY <1>1, <1>2, ConcatAssociative
<1> QED
  BY <1>2, <1>3, <1>4

LEMMA TextInvInit == Init => TextInv
<1> SUFFICES ASSUME Init PROVE TextInv
  OBVIOUS
<1>1. WorkIsText
  BY DEF Init, WorkIsText
<1>2. \A p \in Procs : WorkerTexts(p)
  BY DEF Init, WorkerTexts
<1> QED
  BY <1>1, <1>2 DEF TextInv

(* What remains to be shown of a step of worker p.                         *)
LEMMA TextFrame ==
    ASSUME TypeInv, TextInv, NoSharedFile, NEW p \in Procs, Busy(p),
           UNCHANGED queue,
           \A q \in Procs \ {p} :
              UNCHANGED <<pc[q], pos[q], stage[q], inFile[q], left[q]>>,
           \A g \in Files \ {Cur(p)} : UNCHANGED <<work[g], temp[g]>>,
           WorkIsText', WorkerTexts(p)'
    PROVE  TextInv'
<1>1. ASSUME NEW q \in Procs, q # p PROVE WorkerTexts(q)'
  <2>1. WorkerTexts(q) /\ Cur(q)' = Cur(q) /\ Target(q)' = Target(q)
    BY <1>1 DEF TextInv, Cur, Target
  <2>2. Busy(q) => Cur(q) \in Files \ {Cur(p)}
    BY <1>1, CurIsFile DEF NoSharedFile
  <2>3. pc[q] \notin {"off", "read"} => Busy(q)
    BY DEF Busy
  <2> QED
    BY <1>1, <2>1, <2>2, <2>3 DEF WorkerTexts
<1> QED
  BY <1>1 DEF TextInv

(* Writing f.body in part, or a text under any name.                       *)
LEMMA OutputsKept ==
    ASSUME TypeInv, WorkIsText, NEW f \in Files, NEW P \in Paths, NEW t,
           (P = {} /\ NeverCut) \/ OneText(t),
           work' = [work EXCEPT ![f][P] = t]
    PROVE  WorkIsText'
<1> SUFFICES ASSUME NEW g \in Files, NEW Q \in Paths, Q # {} \/ ~NeverCut,
                    work'[g][Q] # None
             PROVE  OneText(work'[g][Q])
  BY DEF WorkIsText
<1>1. work \in [Files -> [Paths -> Texts \cup {None}]]
  BY DEF TypeInv, TypeOK
<1>2. CASE g = f /\ Q = P
  <2>1. work'[g][Q] = t
    BY <1>1, <1>2
  <2> QED
    BY <1>2, <2>1
<1>3. CASE ~(g = f /\ Q = P)
  <2>1. work'[g][Q] = work[g][Q]
    BY <1>1, <1>3
  <2> QED
    BY <2>1 DEF WorkIsText
<1> QED
  BY <1>2, <1>3

(* The input that a stage finds is such a text.                            *)
LEMMA InputIsText ==
    ASSUME TypeInv, WorkIsText, NEW f \in Files, NEW s \in 2..5,
           OneText(work[f][{}])
    PROVE  OneText(work[f][Input(f, s)]) /\ Input(f, s) \in Paths
<1>1. work \in [Files -> [Paths -> Texts \cup {None}]]
  BY DEF TypeInv, TypeOK
<1>2. Input(f, s) \in Paths /\ work[f][Input(f, s)] # None
  BY <1>1, InputExists, OneTextIsNotNone
<1> QED
  BY <1>2 DEF WorkIsText

LEMMA NextStageTexts ==
    ASSUME TypeInv, NEW p \in Procs, NextStage(p)
    PROVE  /\ pc'[p] \in {"begin", "deliver"}
           /\ \A q \in Procs \ {p} : UNCHANGED <<pc[q], stage[q]>>
BY NextStageTypes DEF NextStage, TypeInv, TypeOK

LEMMA WorkerKeepsTexts ==
    ASSUME TypeInv, TextInv, NoSharedFile, NeverCut => CopyInv,
           NEW p \in Procs, Worker(p) \/ KillFirst(p) \/ KillStage(p)
    PROVE  TextInv'
<1> DEFINE f == Cur(p)
           others == \A q \in Procs \ {p} :
                 UNCHANGED <<pc[q], pos[q], stage[q], inFile[q], left[q]>>
           elsewhere == \A g \in Files \ {f} : UNCHANGED <<work[g], temp[g]>>
<1>t. TypeOK /\ WorkIsText /\ WorkerTexts(p)
  BY DEF TypeInv, TextInv
<1>f. Busy(p) => f \in Files
  BY CurIsFile
<1>d. /\ work \in [Files -> [Paths -> Texts \cup {None}]]
      /\ temp \in [Files -> [Paths -> Texts \cup {None}]]
  BY <1>t DEF TypeOK
<1>s. /\ stage[p] \in 2..5 /\ inFile[p] \in Paths /\ left[p] \in Texts
      /\ {} \in Paths /\ pos \in [Procs -> Nat \ {0}]
  BY <1>t DEF TypeOK, Paths
<1>p. stage[p] # 5 =>
         \A P \in Paths : P \cup {stage[p]} \in Paths /\ P \cup {stage[p]} # {}
  <2>1. stage[p] # 5 => stage[p] \in BodyStages
    BY <1>s DEF BodyStages
  <2> QED
    BY <2>1 DEF Paths
<1>c. pos'[p] = pos[p] /\ queue' = queue => Cur(p)' = f
  BY DEF Cur
<1>u. UNCHANGED work => WorkIsText'
  BY <1>t DEF WorkIsText
<1> HIDE DEF f
<1>1. CASE ReadLine(p)
  <2>1. /\ UNCHANGED <<work, temp, queue, pos, stage, inFile, left>>
        /\ \A q \in Procs \ {p} : pc'[q] = pc[q]
        /\ pc'[p] \in {"off", "copy"}
    BY <1>1, <1>t DEF ReadLine, TypeOK, driverVars, workingVars
  <2>2. \A q \in Procs \ {p} : WorkerTexts(q)'
    BY <2>1 DEF TextInv, WorkerTexts, Cur, Target
  <2>3. WorkerTexts(p)'
    BY <2>1 DEF WorkerTexts
  <2> QED
    BY <1>u, <2>1, <2>2, <2>3 DEF TextInv
<1>2. CASE Copy(p) \/ CopyRest(p) \/ WriteDoc(p) \/ Deliver(p)
  <2>1. /\ UNCHANGED <<work, temp, queue, stage, left>> /\ Busy(p)
        /\ pc'[p] \in {"copying", "split", "deliver", "rename", "read"}
    BY <1>2, <1>t
    DEF Copy, CopyRest, WriteDoc, Deliver, TypeOK, driverVars, Busy
  <2>2. others /\ elsewhere
    BY <1>2, <1>t, <2>1 DEF Copy, CopyRest, WriteDoc, Deliver, TypeOK
  <2>3. pc'[p] = "rename" => pc[p] = "loop" /\ pos'[p] = pos[p]
    BY <1>2, <1>t DEF Copy, CopyRest, WriteDoc, Deliver, TypeOK
  <2>4. WorkerTexts(p)'
    BY <1>t, <1>c, <2>1, <2>3 DEF WorkerTexts, f
  <2> QED
    BY <1>u, <2>1, <2>2, <2>4, TextFrame DEF f
<1>3. CASE SplitHeader(p)
  <2>1. /\ UNCHANGED <<queue, pos, temp>> /\ Busy(p) /\ f \in Files
        /\ work' = [work EXCEPT ![f][{}] = <<>>] /\ pc'[p] = "body"
    BY <1>3, <1>t, <1>f DEF SplitHeader, Part, TypeOK, driverVars, Busy, f
  <2>2. others /\ elsewhere
    BY <1>3, <1>t, <1>d, <2>1 DEF SplitHeader, TypeOK
  <2>3. WorkIsText'
    <3>1. NeverCut \/ OneText(<<>>)
      BY DEF OneText, Bodies, Part
    <3> QED
      BY <1>t, <1>s, <2>1, <3>1, OutputsKept
  <2>4. WorkerTexts(p)'
    BY <2>1 DEF WorkerTexts
  <2> QED
    BY <2>1, <2>2, <2>3, <2>4, TextFrame DEF f
<1>4. CASE SplitBody(p)
  <2>1. /\ UNCHANGED <<queue, pos, temp>> /\ Busy(p) /\ f \in Files
        /\ work' = [work EXCEPT ![f][{}] = CopiedBody(f)]
        /\ pc'[p] = "begin" /\ pc[p] = "body"
    BY <1>4, <1>t, <1>f DEF SplitBody, TypeOK, driverVars, Busy, f
  <2>2. others /\ elsewhere
    BY <1>4, <1>t, <1>d, <2>1 DEF SplitBody, TypeOK
  <2>3. copy[f] \in Editions
    BY <1>t, <2>1 DEF TypeInv, TypeOK, WorkerOK, f
  <2>4. OneText(CopiedBody(f))
    <3>1. CASE f \in torn
      <4>1. ~NeverCut
        BY <2>1, <3>1 DEF CopyInv, f
      <4> QED
        BY <3>1, <4>1 DEF CopiedBody, OneText, Bodies
    <3>2. CASE f \notin torn
      BY <2>3, <3>2 DEF CopiedBody, OneText, Bodies
    <3> QED
      BY <3>1, <3>2
  <2>5. WorkIsText'
    BY <1>t, <1>s, <2>1, <2>4, OutputsKept
  <2>6. OneText(work'[f][{}])
    BY <1>d, <1>s, <2>1, <2>4
  <2>7. WorkerTexts(p)'
    BY <1>c, <2>1, <2>6 DEF WorkerTexts
  <2> QED
    BY <2>1, <2>2, <2>5, <2>7, TextFrame DEF f
<1>10. CASE KillFirst(p)
  <2>1. /\ UNCHANGED <<queue, pos, work, temp, inFile, left>> /\ Busy(p)
        /\ f \in Files
        /\ \/ pc'[p] = "split"
           \/ pc'[p] = "begin" /\ work[f][{}] # None
        /\ "killFirst" \in Faults
    BY <1>10, <1>t, <1>f
    DEF KillFirst, TypeOK, driverVars, workingVars, Busy, f
  <2>2. others /\ elsewhere
    BY <1>10, <1>t, <2>1 DEF KillFirst, TypeOK
  <2>3. pc'[p] = "begin" => OneText(work[f][{}])
    BY <1>t, <1>s, <2>1 DEF WorkIsText, NeverCut
  <2>4. WorkerTexts(p)'
    BY <1>c, <2>1, <2>3 DEF WorkerTexts
  <2> QED
    BY <1>u, <2>1, <2>2, <2>4, TextFrame DEF f
<1>5. CASE Skip(p) \/ KillStage(p) \/ RenameDoc(p)
  <2>1. /\ UNCHANGED <<queue, pos, work, temp>> /\ Busy(p) /\ NextStage(p)
        /\ pc[p] \in {"begin", "loop", "rename"}
    BY <1>5
    DEF Skip, KillStage, KillFirst, RenameDoc, driverVars, workingVars, Busy
  <2>2. others /\ elsewhere
    BY <1>5, <1>t, <2>1, NextStageTexts
    DEF Skip, KillStage, KillFirst, RenameDoc, TypeOK
  <2>3. WorkerTexts(p)'
    BY <1>t, <1>c, <2>1, NextStageTexts DEF WorkerTexts, f
  <2> QED
    BY <1>u, <2>1, <2>2, <2>3, TextFrame DEF f
<1>6. CASE Begin(p)
  <2> DEFINE P == Input(f, stage[p])
             T == P \cup {stage[p]}
  <2>1. /\ UNCHANGED <<queue, pos, work, stage>> /\ Busy(p) /\ f \in Files
        /\ stage[p] # 5 /\ pc[p] = "begin" /\ pc'[p] = "loop"
        /\ inFile'[p] = P /\ left'[p] = Contents(work[f][P])
        /\ temp' = [temp EXCEPT ![f][T] = <<>>]
    BY <1>6, <1>t, <1>f DEF Begin, Truncate, TypeOK, driverVars, Busy, f
  <2>2. others /\ elsewhere
    BY <1>6, <1>t, <1>d, <2>1 DEF Begin, TypeOK
  <2>3. OneText(work[f][{}])
    BY <1>t, <2>1 DEF WorkerTexts, f
  <2>4. OneText(work[f][P]) /\ P \in Paths /\ T \in Paths
    BY <1>t, <1>s, <1>p, <2>1, <2>3, InputIsText
  <2>5. left'[p] = work[f][P] /\ temp'[f][T] = <<>>
    BY <1>d, <2>1, <2>4, OneTextIsNotNone DEF Contents
  <2>6. <<>> \o work[f][P] = work[f][P] /\ <<>> # None
    <3>1. work[f][P] \in Seq(Lines) /\ <<>> \in Texts
      BY <2>4, OneTextIsNotNone DEF Texts
    <3> QED
      BY <3>1, ConcatEmptySeq, NoneIsNoContent
  <2> HIDE DEF P
  <2>7. Target(p)' = T
    BY <2>1 DEF Target
  <2> HIDE DEF T
  <2>8. WorkerTexts(p)'
    BY <1>c, <2>1, <2>3, <2>4, <2>5, <2>6, <2>7 DEF WorkerTexts
  <2> QED
    BY <1>u, <2>1, <2>2, <2>8, TextFrame DEF f
<1>7. CASE AppendLine(p)
  <2> DEFINE T == Target(p)
  <2>1. /\ UNCHANGED <<queue, pos, work, stage, inFile>> /\ Busy(p)
        /\ f \in Files /\ stage[p] # 5 /\ pc[p] = "loop" /\ pc'[p] = "loop"
        /\ left[p] # <<>> /\ left'[p] = Tail(left[p])
        /\ temp' = [temp EXCEPT ![f][T] =
                               Append(Contents(temp[f][T]), Head(left[p]))]
    BY <1>7, <1>t, <1>f DEF AppendLine, Target, TypeOK, driverVars, Busy, f
  <2>2. others /\ elsewhere
    BY <1>7, <1>t, <1>d, <2>1 DEF AppendLine, TypeOK
  <2>3. T \in Paths /\ Target(p)' = T
    BY <1>s, <1>p, <2>1 DEF Target
  <2>4. /\ OneText(work[f][{}])
        /\ temp[f][T] # None /\ OneText(temp[f][T] \o left[p])
    BY <1>t, <2>1 DEF WorkerTexts, f
  <2> HIDE DEF T
  <2>5. temp[f][T] \in Texts /\ Contents(temp[f][T]) = temp[f][T]
    BY <1>d, <2>1, <2>3, <2>4 DEF Contents
  <2>6. temp'[f][T] = Append(temp[f][T], Head(left[p]))
    BY <1>d, <2>1, <2>3, <2>5
  <2>7. temp'[f][T] \o left'[p] = temp[f][T] \o left[p]
    BY <1>s, <2>1, <2>5, <2>6, MoveLine
  <2>8. temp'[f][T] # None
    <3>1. Head(left[p]) \in Lines
      BY <1>s, <2>1 DEF Texts
    <3>2. temp'[f][T] \in Texts
      BY <2>5, <2>6, <3>1 DEF Texts
    <3> QED
      BY <3>2, NoneIsNoContent
  <2>9. WorkerTexts(p)'
    BY <1>c, <2>1, <2>3, <2>4, <2>7, <2>8 DEF WorkerTexts
  <2> QED
    BY <1>u, <2>1, <2>2, <2>9, TextFrame DEF f
<1>8. CASE Rename(p)
  <2> DEFINE T == Target(p)
  <2>1. /\ UNCHANGED <<queue, pos>> /\ Busy(p) /\ f \in Files
        /\ stage[p] # 5 /\ pc[p] = "loop" /\ left[p] = <<>> /\ NextStage(p)
    BY <1>8, <1>f DEF Rename, driverVars, Busy
  <2>2. /\ OneText(work[f][{}])
        /\ temp[f][T] # None /\ OneText(temp[f][T] \o left[p])
    BY <1>t, <2>1 DEF WorkerTexts, f
  <2>3. /\ work' = [work EXCEPT ![f][T] = temp[f][T]]
        /\ temp' = [temp EXCEPT ![f][T] = None]
    BY <1>8, <2>2 DEF Rename, Target, f
  <2>4. T \in Paths /\ T # {}
    BY <1>s, <1>p, <2>1 DEF Target
  <2> HIDE DEF T
  <2>5. temp[f][T] \in Seq(Lines)
    BY <1>d, <2>1, <2>2, <2>4 DEF Texts
  <2>6. OneText(temp[f][T])
    BY <2>1, <2>2, <2>5, ConcatEmptySeq
  <2>7. others /\ elsewhere
    BY <1>8, <1>t, <1>d, <2>1, <2>3, <2>4, NextStageTexts DEF Rename, TypeOK
  <2>8. WorkIsText'
    BY <1>t, <2>1, <2>3, <2>4, <2>6, OutputsKept
  <2>9. work'[f][{}] = work[f][{}]
    BY <1>d, <1>s, <2>1, <2>3, <2>4
  <2>10. WorkerTexts(p)'
    BY <1>c, <2>1, <2>2, <2>9, NextStageTexts DEF WorkerTexts
  <2> QED
    BY <2>1, <2>7, <2>8, <2>10, TextFrame DEF f
<1>9. CASE BeginDoc(p)
  <2>1. /\ UNCHANGED <<queue, pos, work, temp, stage, left>> /\ Busy(p)
        /\ stage[p] = 5 /\ pc[p] = "begin"
    BY <1>9 DEF BeginDoc, driverVars, Busy
  <2>2. others /\ elsewhere
    BY <1>9, <1>t, <2>1 DEF BeginDoc, TypeOK
  <2>3. WorkerTexts(p)'
    BY <1>t, <1>c, <2>1 DEF WorkerTexts, f
  <2> QED
    BY <1>u, <2>1, <2>2, <2>3, TextFrame DEF f
<1> QED
  BY <1>1, <1>2, <1>3, <1>4, <1>5, <1>6, <1>7, <1>8, <1>9, <1>10
  DEF Worker

LEMMA OthersKeepTexts ==
    ASSUME TypeInv, TextInv, [Next]_vars,
           ~ \E p \in Procs : Worker(p) \/ KillFirst(p) \/ KillStage(p)
    PROVE  TextInv'
<1>1. UNCHANGED <<work, temp>>
  BY
  DEF Next, Driver, Disturbance, User, Start, QueueFile, Launch, Exit,
      RemoveAll, OpenAll, CatBegin, CatEnd, CloseAll, Crash, CtrlCInFind,
      CtrlCInFinish, CtrlCInWait, SignalMain, Withdraw, PrepareCorpus,
      RemovePreviousOutput, vars, workingVars
<1>2. WorkIsText'
  BY <1>1 DEF TextInv, WorkIsText
<1>3. CASE UNCHANGED <<queue, workerVars>>
  BY <1>1, <1>2, <1>3 DEF TextInv, WorkerTexts, Cur, Target, workerVars
<1>4. CASE \A p \in Procs : pc'[p] \in {"off", "read"}
  BY <1>2, <1>4 DEF TextInv, WorkerTexts
<1>5. CASE Launch \/ Crash \/ CtrlCInWait
  BY <1>4, <1>5 DEF Launch, Crash, CtrlCInWait, StopWorkers
<1>6. CASE \/ \E n \in ThreadCounts : Start(n)
           \/ \E f \in Files : QueueFile(f)
  BY <1>4, <1>6 DEF TypeInv, PhaseOK, AllOff, Start, QueueFile, workerVars
<1> QED
  BY <1>3, <1>5, <1>6
  DEF Next, Driver, Disturbance, User, Exit, RemoveAll, OpenAll, CatBegin,
      CatEnd, CloseAll, CtrlCInFind, CtrlCInFinish, SignalMain, Withdraw,
      PrepareCorpus, RemovePreviousOutput, vars, driverVars

LEMMA TextInvNext ==
    ASSUME TypeInv, TextInv, NoSharedFile, NeverCut => CopyInv, [Next]_vars
    PROVE  TextInv'
BY WorkerKeepsTexts, OthersKeepTexts

LEMMA CutInvNext ==
    ASSUME TypeInv, NoSharedFile, NeverCut => CopyInv, [Next]_vars
    PROVE  NeverCut => CopyInv'
BY CopyInvNext

(* With a fixed n, and if no text is cut short in a write in place         *)
(* (condition (s)), the name of a stage's output only ever carries a whole *)
(* text, however often runs are stopped in the middle of writing one,      *)
(* scripts of the stages 2 to 5 are killed, sources replaced.              *)
THEOREM OutputsOnlyFinished ==
    ASSUME FixedThreads, NeverCut
    PROVE  Spec => []StageOutputsFinished
<1> DEFINE IInv == TypeInv /\ QueueInv /\ CopyInv /\ TextInv
<1>1. Init => IInv
  BY TypeInvInit, QueueInvInit, CopyInvInit, TextInvInit
<1>2. IInv /\ [Next]_vars => IInv'
  <2>1. TypeInv /\ QueueInv => NoSharedFile
    BY WorkersApart DEF QueueInv
  <2> QED
    BY <2>1, TypeInvNext, QueueInvNext, CopyInvNext, TextInvNext
<1>3. IInv => StageOutputsFinished
  BY DEF TextInv, WorkIsText, OneText, Bodies, StageOutputsFinished
<1> QED
  BY <1>1, <1>2, <1>3, PTL DEF Spec

-----------------------------------------------------------------------------
(* Finished work is kept.  The name that a stage writes to is free from    *)
(* the test at its top to the renaming, because nobody else writes there.  *)

FreshInv ==
    \A p \in Procs :
        pc[p] = "loop" /\ stage[p] # 5 => work[Cur(p)][Target(p)] = None

(* Two workers that loop write to different files.                         *)
LEMMA OthersElsewhere ==
    ASSUME TypeInv, NoSharedFile, NEW p \in Procs, NEW q \in Procs, p # q,
           Busy(p), pc[q] = "loop"
    PROVE  Cur(q) \in Files /\ Cur(q) # Cur(p)
BY CurIsFile DEF NoSharedFile, Busy

LEMMA UpdateElsewhere ==
    ASSUME NEW S, NEW d \in [Files -> [Paths -> S]],
           NEW f \in Files, NEW P \in Paths, NEW x
    PROVE  /\ \A g \in Files \ {f} : [d EXCEPT ![f][P] = x][g] = d[g]
           /\ \A Q \in Paths \ {P} : [d EXCEPT ![f][P] = x][f][Q] = d[f][Q]
OBVIOUS

(* Where a step of p can change work: at one path of its file.             *)
LEMMA WhereWorkChanges ==
    ASSUME TypeInv, NEW p \in Procs, Worker(p) \/ KillFirst(p) \/ KillStage(p)
    PROVE  \/ UNCHANGED work
           \/ /\ Busy(p) /\ pc'[p] \in {"body", "begin"}
              /\ \A g \in Files \ {Cur(p)} : work'[g] = work[g]
              /\ \A P \in Paths \ {{}} : work'[Cur(p)][P] = work[Cur(p)][P]
           \/ /\ Busy(p) /\ pc[p] = "loop" /\ stage[p] # 5
              /\ pc'[p] \in {"begin", "deliver"} /\ Target(p) \in Paths
              /\ \A g \in Files \ {Cur(p)} : work'[g] = work[g]
              /\ \A P \in Paths \ {Target(p)} :
                    work'[Cur(p)][P] = work[Cur(p)][P]
<1> DEFINE f == Cur(p)
<1>t. /\ work \in [Files -> [Paths -> Texts \cup {None}]]
      /\ pc \in [Procs -> PcTypes] /\ {} \in Paths
  BY DEF TypeInv, TypeOK, PcTypes, Paths
<1>1. CASE SplitHeader(p) \/ SplitBody(p)
  <2>1. /\ Busy(p) /\ pc'[p] \in {"body", "begin"}
        /\ \E t : work' = [work EXCEPT ![f][{}] = t]
    BY <1>1, <1>t DEF SplitHeader, SplitBody, Busy
  <2>2. f \in Files
    BY <2>1, CurIsFile
  <2> HIDE DEF f
  <2>3. /\ \A g \in Files \ {f} : work'[g] = work[g]
        /\ \A P \in Paths \ {{}} : work'[f][P] = work[f][P]
    BY <1>t, <2>1, <2>2, UpdateElsewhere
  <2> QED
    BY <2>1, <2>3 DEF f
<1>2. CASE Rename(p)
  <2>1. /\ Busy(p) /\ pc[p] = "loop" /\ stage[p] # 5 /\ NextStage(p)
        /\ \/ UNCHANGED work
           \/ work' = [work EXCEPT ![f][Target(p)] = temp[f][Target(p)]]
    BY <1>2 DEF Rename, Busy, Target
  <2>2. f \in Files /\ Target(p) \in Paths
    <3>1. stage[p] \in 2..5 /\ inFile[p] \in Paths
      BY DEF TypeInv, TypeOK
    <3>2. stage[p] \in BodyStages
      BY <2>1, <3>1 DEF BodyStages
    <3> QED
      BY <2>1, <3>1, <3>2, CurIsFile DEF Target, Paths
  <2> HIDE DEF f
  <2>3. CASE UNCHANGED work
    BY <2>3
  <2>4. CASE work' = [work EXCEPT ![f][Target(p)] = temp[f][Target(p)]]
    <3>1. /\ \A g \in Files \ {f} : work'[g] = work[g]
          /\ \A P \in Paths \ {Target(p)} : work'[f][P] = work[f][P]
      BY <1>t, <2>2, <2>4, UpdateElsewhere
    <3> QED
      BY <2>1, <2>2, <3>1, NextStageTexts DEF f
  <2> QED
    BY <2>1, <2>3, <2>4
<1>3. CASE ~(SplitHeader(p) \/ SplitBody(p) \/ Rename(p))
  BY <1>3
  DEF Worker, ReadLine, Copy, CopyRest, Skip, Begin, AppendLine, BeginDoc,
      WriteDoc, RenameDoc, Deliver, KillStage, KillFirst, workingVars
<1> QED
  BY <1>1, <1>2, <1>3

LEMMA FreshInvInit == Init => FreshInv
BY DEF Init, FreshInv

LEMMA FreshInvWorker ==
    ASSUME TypeInv, FreshInv, NoSharedFile,
           NEW p \in Procs, Worker(p) \/ KillFirst(p) \/ KillStage(p)
    PROVE  FreshInv'
<1>t. /\ TypeOK /\ pc \in [Procs -> PcTypes]
  BY DEF TypeInv, TypeOK, PcTypes
<1>1. ASSUME NEW q \in Procs \ {p}
      PROVE  UNCHANGED <<pc[q], pos[q], stage[q], inFile[q], queue>>
  BY <1>t, NextStageTexts
  DEF Worker, ReadLine, Copy, CopyRest, SplitHeader, SplitBody, Skip, Begin,
      AppendLine, Rename, BeginDoc, WriteDoc, RenameDoc, Deliver, KillStage,
      KillFirst, TypeOK, driverVars
<1>2. ASSUME NEW q \in Procs \ {p}, pc'[q] = "loop", stage'[q] # 5
      PROVE  work'[Cur(q)'][Target(q)'] = None
  <2>1. /\ Cur(q)' = Cur(q) /\ Target(q)' = Target(q)
        /\ pc[q] = "loop" /\ work[Cur(q)][Target(q)] = None
    BY <1>1, <1>2 DEF Cur, Target, FreshInv
  <2>2. Busy(p) => Cur(q) \in Files \ {Cur(p)}
    BY <2>1, OthersElsewhere
  <2> QED
    BY <2>1, <2>2, WhereWorkChanges
<1>3. ASSUME pc'[p] = "loop", stage'[p] # 5
      PROVE  work'[Cur(p)'][Target(p)'] = None
  <2>1. CASE Begin(p)
    <3>1. /\ UNCHANGED <<queue, pos, stage, work>>
          /\ inFile'[p] = Input(Cur(p), stage[p])
          /\ stage[p] # 5 /\ ~Exists(Cur(p), stage[p])
      BY <2>1, <1>t DEF Begin, TypeOK, driverVars
    <3> QED
      BY <3>1 DEF Exists, Cur, Target
  <2>2. CASE AppendLine(p)
    BY <2>2 DEF AppendLine, FreshInv, Cur, Target, driverVars
  <2>3. CASE BeginDoc(p)
    BY <2>3, <1>3 DEF BeginDoc
  <2>4. CASE \/ ReadLine(p) \/ Copy(p) \/ CopyRest(p) \/ KillFirst(p)
             \/ SplitHeader(p) \/ SplitBody(p)
             \/ WriteDoc(p) \/ Deliver(p)
    BY <2>4, <1>3, <1>t
    DEF ReadLine, Copy, CopyRest, KillFirst, SplitHeader, SplitBody, WriteDoc,
        Deliver
  <2>5. CASE Skip(p) \/ Rename(p) \/ RenameDoc(p) \/ KillStage(p)
    BY <2>5, <1>3, NextStageTexts
    DEF Skip, Rename, RenameDoc, KillStage
  <2> QED
    BY <2>1, <2>2, <2>3, <2>4, <2>5 DEF Worker
<1> QED
  BY <1>2, <1>3 DEF FreshInv

LEMMA FreshInvNext ==
    ASSUME TypeInv, FreshInv, NoSharedFile, [Next]_vars
    PROVE  FreshInv'
<1>1. CASE \E p \in Procs : Worker(p) \/ KillFirst(p) \/ KillStage(p)
  BY <1>1, FreshInvWorker
<1>2. CASE ~ \E p \in Procs : Worker(p) \/ KillFirst(p) \/ KillStage(p)
  <2>1. UNCHANGED work
    BY <1>2
    DEF Next, Driver, Disturbance, User, Start, QueueFile, Launch, Exit,
        RemoveAll, OpenAll, CatBegin, CatEnd, CloseAll, Crash, CtrlCInFind,
        CtrlCInFinish, CtrlCInWait, SignalMain, Withdraw, PrepareCorpus,
        RemovePreviousOutput, vars, workingVars
  <2>2. \/ UNCHANGED <<queue, workerVars>>
        \/ \A p \in Procs : pc'[p] \in {"off", "read"}
    BY <1>2
    DEF TypeInv, PhaseOK, AllOff, Next, Driver, Disturbance, User, Start,
        QueueFile, Launch, Exit, RemoveAll, OpenAll, CatBegin, CatEnd,
        CloseAll, Crash, CtrlCInFind, CtrlCInFinish, CtrlCInWait, SignalMain,
        StopWorkers, Withdraw, PrepareCorpus, RemovePreviousOutput, vars,
        driverVars, workerVars
  <2> QED
    BY <2>1, <2>2 DEF FreshInv, Cur, Target, workerVars
<1> QED
  BY <1>1, <1>2

(* What a stage has finished stays as it is in every step.                 *)
LEMMA OutputsStay ==
    ASSUME TypeInv, FreshInv, [Next]_vars,
           NEW f \in Files, NEW P \in Paths \ {{}}, work[f][P] # None
    PROVE  work'[f][P] = work[f][P]
<1>1. CASE \E p \in Procs : Worker(p) \/ KillFirst(p) \/ KillStage(p)
  <2>1. PICK p \in Procs : Worker(p) \/ KillFirst(p) \/ KillStage(p)
    BY <1>1
  <2>2. pc[p] = "loop" /\ stage[p] # 5 => work[Cur(p)][Target(p)] = None
    BY DEF FreshInv
  <2>3. CASE f # Cur(p)
    BY <2>1, <2>3, WhereWorkChanges
  <2>4. CASE f = Cur(p) /\ P # Target(p)
    BY <2>1, <2>4, WhereWorkChanges
  <2>5. CASE f = Cur(p) /\ P = Target(p)
    <3>1. ~(pc[p] = "loop" /\ stage[p] # 5)
      BY <2>2, <2>5
    <3> QED
      BY <2>1, <2>5, <3>1, WhereWorkChanges
  <2> QED
    BY <2>3, <2>4, <2>5
<1>2. CASE ~ \E p \in Procs : Worker(p) \/ KillFirst(p) \/ KillStage(p)
  BY <1>2
  DEF Next, Driver, Disturbance, User, Start, QueueFile, Launch, Exit,
      RemoveAll, OpenAll, CatBegin, CatEnd, CloseAll, Crash, CtrlCInFind,
      CtrlCInFinish, CtrlCInWait, SignalMain, Withdraw, PrepareCorpus,
      RemovePreviousOutput, workingVars, vars
<1> QED
  BY <1>1, <1>2

(* With a fixed n a stage that has finished a file is never done on it     *)
(* again, in no later run either.                                          *)
THEOREM FinishedWorkIsKept ==
    ASSUME FixedThreads
    PROVE  Spec => FinishedWorkKept
<1> DEFINE IInv == TypeInv /\ QueueInv /\ FreshInv
           Kept == \A f \in Files : \A P \in Paths \ {{}} :
                      work[f][P] # None => work'[f][P] = work[f][P]
<1>1. Init => IInv
  BY TypeInvInit, QueueInvInit, FreshInvInit
<1>2. IInv => NoSharedFile
  BY WorkersApart DEF QueueInv
<1>3. IInv /\ [Next]_vars => IInv'
  BY <1>2, TypeInvNext, QueueInvNext, FreshInvNext
<1>4. IInv /\ [Next]_vars => [Kept]_vars
  BY OutputsStay
<1> QED
  BY <1>1, <1>3, <1>4, PTL DEF Spec, FinishedWorkKept
=============================================================================
