------------------------------ MODULE Pipeline ------------------------------
(***************************************************************************)
(* The batch driver of the tagger: allrunPar.sh queues the source files    *)
(* that have no output yet over n queue files on disk and starts one       *)
(* background worker per queue file; a worker takes its files one after    *)
(* the other through allrun.sh, whose five stage scripts communicate       *)
(* through files under run/working/, and moves the result to run/out/.     *)
(* Nothing is locked: that a run can be stopped anywhere and restarted,    *)
(* and that two workers never meet on a file, rests on which file exists   *)
(* when, and this is what the module models.                               *)
(*                                                                         *)
(* A text is abstracted to the sequence of its lines, a line to the        *)
(* edition of the corpus it comes from and its number; what a stage makes  *)
(* of a line is left to the modules of the stages.  A working file is      *)
(* named by the set of stages whose suffixes its name carries:             *)
(*     {}        f.body              {2, 3}     f.body.vertical.crunched   *)
(*     {2}       f.body.vertical     {2, 3, 4}  f.body....crunched.metad   *)
(***************************************************************************)
EXTENDS Integers, Sequences, FiniteSets

CONSTANTS
    Files,          \* the source files, as find prints them
    None,           \* a file that does not exist
    MaxThreads,     \* the largest n of all runs
    ThreadCounts,   \* the values given to -n
    NumLines,       \* how many lines a text has
    MaxEdition,     \* how many times prepare_corpus.sh fills run/in/
    MaxRuns,        \* how many times the user starts allrunPar.sh
    Faults          \* the disturbances of this instance, see Disturbances

Procs == 1..MaxThreads
Editions == 1..MaxEdition
BodyStages == 2..4                      \* 2_vert..., 3_crunch, 4_reformat...
Paths == SUBSET BodyStages
AllStages == BodyStages                 \* the name of a text all have seen
Lines == Editions \X (1..NumLines)
Texts == Seq(Lines)

(* The body of edition e of a file.                                        *)
FullBody(e) == [i \in 1..NumLines |-> <<e, i>>]

(* A <doc> element: the edition of its header, its lines and the name of   *)
(* the working file they were copied from.                                 *)
Blocks == [hdr : Editions, body : Texts, path : Paths]

(* What a write in place leaves when it is cut short: none of the lines    *)
(* stands for not all of them.                                             *)
Part == <<>>

(* A vertical file should be exactly one <doc> with all the lines.         *)
Doc(h, e) == <<[hdr |-> h, body |-> FullBody(e), path |-> AllStages]>>
Documents == {Doc(h, e) : h \in Editions, e \in Editions}

Disturbances ==
    {"crash",       \* the machine, or every process of the run, stops
     "ctrlC",       \* SIGINT to the whole process group, once a run
     "signal",      \* SIGINT to the driver alone, once a run
     "kill",        \* one script of the stages 2 to 5 is killed
     "killFirst",   \* cp or the script of stage 1 is killed
     "withdraw",    \* a source file is removed from run/in/ at any time
     "prepare",     \* prepare_corpus.sh between two runs
     "clear"}       \* remove_previous_output.sh between two runs

ASSUME ConstantsOK ==
    /\ MaxThreads \in Nat /\ NumLines \in Nat /\ MaxRuns \in Nat
    /\ MaxEdition \in Nat \ {0}
    /\ ThreadCounts \subseteq Procs
    /\ Faults \subseteq Disturbances

(* A file that does not exist is not an empty one, nor any other.          *)
ASSUME NoneIsNoContent ==
    /\ None \notin Texts
    /\ None \notin Seq(Blocks)
    /\ None \notin Editions
    /\ None \notin [Files -> Seq(Blocks) \cup {None}]

VARIABLES
    \* run/in/ and what the driver keeps
    in,         \* in[f]: the edition of in/f, or None
    edition,    \* the edition prepare_corpus.sh installed last
    queue,      \* queue[p]: the names in working/processor<p>
    counter,    \* working/i
    todo,       \* the names that find has still to pass to queueFile or cat
    nThreads,
    main,       \* what allrunPar.sh is doing
    after,      \* the state main returns to after endfunc
    trap,       \* the handler of EXIT and INT is endfunc
    runs,
    \* run/working/corpus/ and run/out/
    copy,       \* copy[f]: the edition of f
    torn,       \* the files whose copy is cut short
    header,     \* header[f]: the edition of f.header
    work,       \* work[f][P]: the text in f.body with the suffixes P
    temp,       \* temp[f][P]: its .temp
    vert,       \* vert[f]: the blocks in f.vert
    vertTemp,   \* vertTemp[f]: f.vert.temp
    out,        \* out[f]: out/f.vert
    allVert,    \* out/all.vert, as what it has of each file in out/
    \* the workers
    pc, pos, stage, inFile, left

driverVars == <<queue, counter, todo, nThreads, main, after, trap, runs>>
workingVars == <<copy, torn, header, work, temp, vert, vertTemp>>
workerVars == <<pc, pos, stage, inFile, left>>
vars == <<in, edition, driverVars, workingVars, out, allVert, workerVars>>

TypeOK ==
    /\ in \in [Files -> Editions \cup {None}]
    /\ edition \in Editions
    /\ queue \in [Procs -> Seq(Files)]
    /\ counter \in Nat
    /\ todo \subseteq Files
    /\ nThreads \in Procs \cup {0}
    /\ main \in {"idle", "find", "wait", "endfunc", "finish", "cat"}
    /\ after \in {"idle", "find"}
    /\ trap \in BOOLEAN
    /\ runs \in 0..MaxRuns
    /\ copy \in [Files -> Editions \cup {None}]
    /\ torn \subseteq Files
    /\ header \in [Files -> Editions \cup {None}]
    /\ work \in [Files -> [Paths -> Texts \cup {None}]]
    /\ temp \in [Files -> [Paths -> Texts \cup {None}]]
    /\ vert \in [Files -> Seq(Blocks) \cup {None}]
    /\ vertTemp \in [Files -> Seq(Blocks) \cup {None}]
    /\ out \in [Files -> Seq(Blocks) \cup {None}]
    /\ allVert \in [Files -> Seq(Blocks) \cup {None}] \cup {None}
    /\ pc \in [Procs -> {"off", "read", "copy", "copying", "split", "body",
                         "begin", "loop", "rename", "deliver"}]
    /\ pos \in [Procs -> Nat \ {0}]
    /\ stage \in [Procs -> 2..5]
    /\ inFile \in [Procs -> Paths]
    /\ left \in [Procs -> Texts]

NoFile == [f \in Files |-> None]

Init ==
    /\ in = [f \in Files |-> 1]
    /\ edition = 1
    /\ queue = [p \in Procs |-> <<>>]
    /\ counter = 0
    /\ todo = {}
    /\ nThreads = 0
    /\ main = "idle"
    /\ after = "idle"
    /\ trap = FALSE
    /\ runs = 0
    /\ copy = NoFile
    /\ torn = {}
    /\ header = NoFile
    /\ work = [f \in Files |-> [P \in Paths |-> None]]
    /\ temp = [f \in Files |-> [P \in Paths |-> None]]
    /\ vert = NoFile
    /\ vertTemp = NoFile
    /\ out = NoFile
    /\ allVert = None
    /\ pc = [p \in Procs |-> "off"]
    /\ pos = [p \in Procs |-> 1]
    /\ stage = [p \in Procs |-> 2]
    /\ inFile = [p \in Procs |-> {}]
    /\ left = [p \in Procs |-> <<>>]

(* The file worker p is at, once its read has returned.                    *)
Cur(p) == queue[p][pos[p]]

Busy(p) == pc[p] \notin {"off", "read"}

AllOff == \A p \in Procs : pc[p] = "off"

(* What an append finds: >> creates a file that is not there.              *)
Contents(file) == IF file = None THEN <<>> ELSE file

-----------------------------------------------------------------------------
(* The driver, allrunPar.sh                                                *)

(* The n queue files are emptied, one of a run with a larger n is not.     *)
Mutant_Emptied(n) == queue              \* bug: >> where > is meant
Emptied(n) == [p \in Procs |-> IF p <= n THEN <<>> ELSE queue[p]]

(* From the command line to the call of find.                              *)
Start(n) ==
    /\ main = "idle" /\ runs < MaxRuns
    /\ runs' = runs + 1
    /\ nThreads' = n
    /\ trap' = TRUE
    /\ queue' = Emptied(n)
    /\ counter' = 0
    /\ todo' = {f \in Files : in[f] # None}
    /\ main' = "find"
    /\ UNCHANGED <<in, edition, after, workingVars, out, allVert, workerVars>>

(* queueFile returns at once for a file that went away or has its output.  *)
Mutant_PassedOver(f) ==                 \* bug: looks in working/ for f.vert
    in[f] = None \/ vert[f] # None
PassedOver(f) == in[f] = None \/ out[f] # None

(* The queue that is next.                                                 *)
Turn == (counter % nThreads) + 1

(* find calls queueFile on the files, in any order.                        *)
QueueFile(f) ==
    /\ main = "find" /\ f \in todo
    /\ todo' = todo \ {f}
    /\ IF PassedOver(f)
       THEN UNCHANGED <<queue, counter>>
       ELSE /\ queue' = [queue EXCEPT ![Turn] = Append(@, f)]
            /\ counter' = counter + 1
    /\ UNCHANGED <<in, edition, nThreads, main, after, trap, runs,
                   workingVars, out, allVert, workerVars>>

(* The position of the first name in a queue file.                         *)
Mutant_First == 0                       \* bug: counts from 0
First == 1

(* One doFiles in the background for every queue file in working/, the     *)
(* ones that this run did not empty included.                              *)
Launch ==
    /\ main = "find" /\ todo = {}
    /\ main' = "wait"
    /\ pc' = [p \in Procs |-> "read"]
    /\ pos' = [p \in Procs |-> First]
    /\ UNCHANGED <<in, edition, queue, counter, todo, nThreads, after, trap,
                   runs, workingVars, out, allVert, stage, inFile, left>>

(* wait returns, the script ends and the EXIT trap runs endfunc.  A run    *)
(* that was interrupted before has no trap left, and just ends.            *)
Exit ==
    /\ main = "wait" /\ AllOff
    /\ IF trap THEN main' = "endfunc" ELSE main' = "idle"
    /\ trap' = FALSE
    /\ after' = "idle"
    /\ UNCHANGED <<in, edition, queue, counter, todo, nThreads, runs,
                   workingVars, out, allVert, workerVars>>

(* endfunc: it waits until no descendant is left, then finish.sh removes   *)
(* the old all.vert.                                                       *)
RemoveAll ==
    /\ main = "endfunc" /\ AllOff
    /\ allVert' = None
    /\ main' = "finish"
    /\ UNCHANGED <<in, edition, queue, counter, todo, nThreads, after, trap,
                   runs, workingVars, out, workerVars>>

(* The new one is written in place.  The shell creates it empty, find      *)
(* passes the names in out/ to cat ...                                     *)
OpenAll ==
    /\ main = "finish"
    /\ allVert' = NoFile
    /\ todo' = {f \in Files : out[f] # None}
    /\ main' = "cat"
    /\ UNCHANGED <<in, edition, queue, counter, nThreads, after, trap, runs,
                   workingVars, out, workerVars>>

(* ... and cat appends one file after the other, in any order.  Of a file  *)
(* that it is at, all.vert has a part.                                     *)
CatBegin(f) ==
    /\ main = "cat" /\ f \in todo
    /\ \A g \in todo : allVert[g] = None
    /\ allVert' = [allVert EXCEPT ![f] = Part]
    /\ UNCHANGED <<in, edition, driverVars, workingVars, out, workerVars>>

CatEnd(f) ==
    /\ main = "cat" /\ f \in todo /\ allVert[f] = Part
    /\ allVert' = [allVert EXCEPT ![f] = out[f]]
    /\ todo' = todo \ {f}
    /\ UNCHANGED <<in, edition, queue, counter, nThreads, main, after, trap,
                   runs, workingVars, out, workerVars>>

CloseAll ==
    /\ main = "cat" /\ todo = {}
    /\ main' = after
    /\ UNCHANGED <<in, edition, queue, counter, todo, nThreads, after, trap,
                   runs, workingVars, out, allVert, workerVars>>

-----------------------------------------------------------------------------
(* A worker, doFiles: one process that runs the scripts in sequence        *)

Mutant_ReadLine(p) ==                   \* bug: tries a missing file for ever
    /\ pc[p] = "read"
    /\ IF pos[p] > Len(queue[p])
       THEN pc' = [pc EXCEPT ![p] = "off"]
       ELSE IF in[Cur(p)] = None
            THEN UNCHANGED pc
            ELSE pc' = [pc EXCEPT ![p] = "copy"]
    /\ UNCHANGED <<in, edition, driverVars, workingVars, out, allVert,
                   pos, stage, inFile, left>>

(* The end of the queue ends the worker; so does a name whose source file  *)
(* is gone, and the names after it stay unread.                            *)
ReadLine(p) ==
    /\ pc[p] = "read"
    /\ IF pos[p] > Len(queue[p])
       THEN pc' = [pc EXCEPT ![p] = "off"]
       ELSE IF in[Cur(p)] = None
            THEN pc' = [pc EXCEPT ![p] = "off"]
            ELSE pc' = [pc EXCEPT ![p] = "copy"]
    /\ UNCHANGED <<in, edition, driverVars, workingVars, out, allVert,
                   pos, stage, inFile, left>>

(* cp truncates its target and fills it.  If the source went away          *)
(* meanwhile it fails before that, and what an earlier run has copied is   *)
(* used; without such a copy allrun.sh gives up on the file.               *)
Copy(p) ==
    LET f == Cur(p) IN
    /\ pc[p] = "copy"
    /\ IF in[f] = None
       THEN /\ pc' = [pc EXCEPT ![p] =
                         IF copy[f] = None THEN "deliver" ELSE "split"]
            /\ UNCHANGED <<copy, torn>>
       ELSE /\ pc' = [pc EXCEPT ![p] = "copying"]
            /\ copy' = [copy EXCEPT ![f] = in[f]]
            /\ torn' = torn \cup {f}
    /\ UNCHANGED <<in, edition, driverVars, header, work, temp, vert,
                   vertTemp, out, allVert, pos, stage, inFile, left>>

CopyRest(p) ==
    /\ pc[p] = "copying"
    /\ torn' = torn \ {Cur(p)}
    /\ pc' = [pc EXCEPT ![p] = "split"]
    /\ UNCHANGED <<in, edition, driverVars, copy, header, work, temp, vert,
                   vertTemp, out, allVert, pos, stage, inFile, left>>

(* Stage 1 writes f.header and f.body in place, on every run: the header,  *)
(* then the body, which is empty until sed has written it.                 *)
SplitHeader(p) ==
    LET f == Cur(p) IN
    /\ pc[p] = "split"
    /\ header' = [header EXCEPT ![f] = copy[f]]
    /\ work' = [work EXCEPT ![f][{}] = Part]
    /\ pc' = [pc EXCEPT ![p] = "body"]
    /\ UNCHANGED <<in, edition, driverVars, copy, torn, temp, vert, vertTemp,
                   out, allVert, pos, stage, inFile, left>>

CopiedBody(f) == IF f \in torn THEN Part ELSE FullBody(copy[f])

SplitBody(p) ==
    LET f == Cur(p) IN
    /\ pc[p] = "body"
    /\ work' = [work EXCEPT ![f][{}] = CopiedBody(f)]
    /\ pc' = [pc EXCEPT ![p] = "begin"]
    /\ stage' = [stage EXCEPT ![p] = 2]
    /\ UNCHANGED <<in, edition, driverVars, copy, torn, header, temp, vert,
                   vertTemp, out, allVert, pos, inFile, left>>

(* [ -e "$inFile.<suffix>" ] && inFile="$inFile.<suffix>"                  *)
Extend(f, P, s) == IF work[f][P \cup {s}] = None THEN P ELSE P \cup {s}

(* The chain of these tests at the top of stage s.                         *)
Mutant_Input(f, s) ==                   \* bug: stage 5 forgets f....metad
    CASE s = 2 -> {}
      [] s = 3 -> Extend(f, {}, 2)
      [] s \in {4, 5} -> Extend(f, Extend(f, {}, 2), 3)

Input(f, s) ==
    CASE s = 2 -> {}
      [] s = 3 -> Extend(f, {}, 2)
      [] s = 4 -> Extend(f, Extend(f, {}, 2), 3)
      [] s = 5 -> Extend(f, Extend(f, Extend(f, {}, 2), 3), 4)

(* Whether the outFile of stage s is there.                                *)
Mutant_Exists(f, s) == FALSE            \* bug: does all stages again
Exists(f, s) ==
    IF s = 5 THEN vert[f] # None ELSE work[f][Input(f, s) \cup {s}] # None

(* allrun.sh goes to the next script whatever the status of the last.      *)
NextStage(p) ==
    IF stage[p] = 5
    THEN /\ pc' = [pc EXCEPT ![p] = "deliver"]
         /\ UNCHANGED stage
    ELSE /\ pc' = [pc EXCEPT ![p] = "begin"]
         /\ stage' = [stage EXCEPT ![p] = @ + 1]

(* A stage whose outFile exists is skipped.                                *)
Skip(p) ==
    /\ pc[p] = "begin" /\ Exists(Cur(p), stage[p])
    /\ NextStage(p)
    /\ UNCHANGED <<in, edition, driverVars, workingVars, out, allVert, pos,
                   inFile, left>>

(* >"$tempFile"                                                            *)
Mutant_Truncate(file) == Contents(file) \* bug: goes on with an old one
Truncate(file) == <<>>

(* Stages 2 to 4: empty the temporary file, then open the input and append *)
(* what each of its lines becomes.                                         *)
Begin(p) ==
    LET f == Cur(p)
        P == Input(f, stage[p])
    IN
    /\ pc[p] = "begin" /\ stage[p] # 5 /\ ~Exists(f, stage[p])
    /\ inFile' = [inFile EXCEPT ![p] = P]
    /\ left' = [left EXCEPT ![p] = Contents(work[f][P])]
    /\ temp' = [temp EXCEPT ![f][P \cup {stage[p]}] = Truncate(@)]
    /\ pc' = [pc EXCEPT ![p] = "loop"]
    /\ UNCHANGED <<in, edition, driverVars, copy, torn, header, work, vert,
                   vertTemp, out, allVert, pos, stage>>

AppendLine(p) ==
    LET f == Cur(p)
        P == inFile[p] \cup {stage[p]}
    IN
    /\ pc[p] = "loop" /\ stage[p] # 5 /\ left[p] # <<>>
    /\ temp' = [temp EXCEPT ![f][P] = Append(Contents(@), Head(left[p]))]
    /\ left' = [left EXCEPT ![p] = Tail(@)]
    /\ UNCHANGED <<in, edition, driverVars, copy, torn, header, work, vert,
                   vertTemp, out, allVert, pc, pos, stage, inFile>>

(* mv "$tempFile" "$outFile", which fails if another worker has moved the  *)
(* temporary file already.                                                 *)
Rename(p) ==
    LET f == Cur(p)
        P == inFile[p] \cup {stage[p]}
    IN
    /\ pc[p] = "loop" /\ stage[p] # 5 /\ left[p] = <<>>
    /\ IF temp[f][P] = None
       THEN UNCHANGED <<work, temp>>
       ELSE /\ work' = [work EXCEPT ![f][P] = temp[f][P]]
            /\ temp' = [temp EXCEPT ![f][P] = None]
    /\ NextStage(p)
    /\ inFile' = [inFile EXCEPT ![p] = {}]
    /\ UNCHANGED <<in, edition, driverVars, copy, torn, header, vert,
                   vertTemp, out, allVert, pos, left>>

(* Stage 5: the same discipline around one <doc> element.                  *)
BeginDoc(p) ==
    LET f == Cur(p) IN
    /\ pc[p] = "begin" /\ stage[p] = 5 /\ ~Exists(f, 5)
    /\ inFile' = [inFile EXCEPT ![p] = Input(f, 5)]
    /\ vertTemp' = [vertTemp EXCEPT ![f] = Truncate(@)]
    /\ pc' = [pc EXCEPT ![p] = "loop"]
    /\ UNCHANGED <<in, edition, driverVars, copy, torn, header, work, temp,
                   vert, out, allVert, pos, stage, left>>

WriteDoc(p) ==
    LET f == Cur(p)
        block == [hdr |-> header[f], body |-> work[f][inFile[p]],
                  path |-> inFile[p]]
    IN
    /\ pc[p] = "loop" /\ stage[p] = 5
    /\ vertTemp' = [vertTemp EXCEPT ![f] = Append(Contents(@), block)]
    /\ pc' = [pc EXCEPT ![p] = "rename"]
    /\ inFile' = [inFile EXCEPT ![p] = {}]
    /\ UNCHANGED <<in, edition, driverVars, copy, torn, header, work, temp,
                   vert, out, allVert, pos, stage, left>>

RenameDoc(p) ==
    LET f == Cur(p) IN
    /\ pc[p] = "rename"
    /\ IF vertTemp[f] = None
       THEN UNCHANGED <<vert, vertTemp>>
       ELSE /\ vert' = [vert EXCEPT ![f] = vertTemp[f]]
            /\ vertTemp' = [vertTemp EXCEPT ![f] = None]
    /\ NextStage(p)
    /\ UNCHANGED <<in, edition, driverVars, copy, torn, header, work, temp,
                   out, allVert, pos, inFile, left>>

(* mv working/corpus/f.vert out/f.vert, and on to the next name.           *)
Deliver(p) ==
    LET f == Cur(p) IN
    /\ pc[p] = "deliver"
    /\ IF vert[f] = None
       THEN UNCHANGED <<vert, out>>
       ELSE /\ out' = [out EXCEPT ![f] = vert[f]]
            /\ vert' = [vert EXCEPT ![f] = None]
    /\ pc' = [pc EXCEPT ![p] = "read"]
    /\ pos' = [pos EXCEPT ![p] = @ + 1]
    /\ UNCHANGED <<in, edition, driverVars, copy, torn, header, work, temp,
                   vertTemp, allVert, stage, inFile, left>>

-----------------------------------------------------------------------------
(* Disturbances: what happens to the driver's processes from outside       *)

StopWorkers ==
    /\ pc' = [p \in Procs |-> "off"]
    /\ pos' = [p \in Procs |-> 1]
    /\ stage' = [p \in Procs |-> 2]
    /\ inFile' = [p \in Procs |-> {}]
    /\ left' = [p \in Procs |-> <<>>]

(* Every process is gone, every file stays as it is.                       *)
Crash ==
    /\ "crash" \in Faults
    /\ main # "idle"
    /\ main' = "idle"
    /\ after' = "idle"
    /\ trap' = FALSE
    /\ todo' = {}
    /\ StopWorkers
    /\ UNCHANGED <<in, edition, queue, counter, nThreads, runs, workingVars,
                   out, allVert>>

(* Ctrl-C while find runs: find dies, endfunc assembles all.vert and, a    *)
(* trap handler that does not exit, returns to the script after find.      *)
CtrlCInFind ==
    /\ "ctrlC" \in Faults
    /\ main = "find" /\ trap
    /\ trap' = FALSE
    /\ todo' = {}
    /\ main' = "endfunc"
    /\ after' = "find"
    /\ UNCHANGED <<in, edition, queue, counter, nThreads, runs, workingVars,
                   out, allVert, workerVars>>

(* Ctrl-C while the workers run: the terminal signals them too.            *)
CtrlCInWait ==
    /\ "ctrlC" \in Faults
    /\ main = "wait" /\ trap
    /\ trap' = FALSE
    /\ main' = "endfunc"
    /\ after' = "idle"
    /\ StopWorkers
    /\ UNCHANGED <<in, edition, queue, counter, todo, nThreads, runs,
                   workingVars, out, allVert>>

(* Ctrl-C while finish.sh works: finish.sh, find and cat die, the driver   *)
(* has no other handler left than one that does nothing, and goes on.      *)
CtrlCInFinish ==
    /\ "ctrlC" \in Faults
    /\ main \in {"finish", "cat"}
    /\ todo' = {}
    /\ main' = after
    /\ UNCHANGED <<in, edition, queue, counter, nThreads, after, trap, runs,
                   workingVars, out, allVert, workerVars>>

(* SIGINT to the driver alone: kill_descendant_processes finds children as *)
(* long as there are any, and its kill -0 on their joined list never lets  *)
(* it signal one.                                                          *)
SignalMain ==
    /\ "signal" \in Faults
    /\ main = "wait" /\ trap
    /\ trap' = FALSE
    /\ main' = "endfunc"
    /\ after' = "idle"
    /\ UNCHANGED <<in, edition, queue, counter, todo, nThreads, runs,
                   workingVars, out, allVert, workerVars>>

(* cp or stage 1 is killed and what comes next carries on with what they   *)
(* have written so far.  (Killed before there is an f.body, stage 1 would  *)
(* leave the later ones with the source file itself: not modelled.)        *)
KillFirst(p) ==
    LET f == Cur(p) IN
    /\ "killFirst" \in Faults
    /\ \/ /\ pc[p] = "copying"
          /\ pc' = [pc EXCEPT ![p] = "split"]
          /\ UNCHANGED stage
       \/ /\ pc[p] \in {"split", "body"}
          /\ header[f] # None /\ work[f][{}] # None
          /\ pc' = [pc EXCEPT ![p] = "begin"]
          /\ stage' = [stage EXCEPT ![p] = 2]
    /\ UNCHANGED <<in, edition, driverVars, workingVars, out, allVert, pos,
                   inFile, left>>

(* A script of a later stage is killed and allrun.sh carries on.           *)
KillStage(p) ==
    /\ "kill" \in Faults
    /\ pc[p] \in {"begin", "loop", "rename"}
    /\ NextStage(p)
    /\ inFile' = [inFile EXCEPT ![p] = {}]
    /\ left' = [left EXCEPT ![p] = <<>>]
    /\ UNCHANGED <<in, edition, driverVars, workingVars, out, allVert, pos>>

-----------------------------------------------------------------------------
(* The user                                                                *)

Withdraw(f) ==
    /\ "withdraw" \in Faults
    /\ in[f] # None
    /\ in' = [in EXCEPT ![f] = None]
    /\ UNCHANGED <<edition, driverVars, workingVars, out, allVert, workerVars>>

PrepareCorpus ==
    /\ "prepare" \in Faults
    /\ main = "idle" /\ edition < MaxEdition
    /\ edition' = edition + 1
    /\ in' = [f \in Files |-> edition + 1]
    /\ UNCHANGED <<driverVars, workingVars, out, allVert, workerVars>>

Mutant_RemovePreviousOutput ==          \* bug: spares out/all.vert
    /\ "clear" \in Faults
    /\ main = "idle"
    /\ out' = NoFile
    /\ UNCHANGED <<in, edition, driverVars, workingVars, allVert, workerVars>>

RemovePreviousOutput ==
    /\ "clear" \in Faults
    /\ main = "idle"
    /\ out' = NoFile
    /\ allVert' = None
    /\ UNCHANGED <<in, edition, driverVars, workingVars, workerVars>>

-----------------------------------------------------------------------------
Driver ==
    \/ \E f \in Files : QueueFile(f)
    \/ Launch \/ Exit \/ RemoveAll \/ OpenAll \/ CloseAll
    \/ \E f \in Files : CatBegin(f) \/ CatEnd(f)

Worker(p) ==
    \/ ReadLine(p) \/ Copy(p) \/ CopyRest(p) \/ SplitHeader(p) \/ SplitBody(p)
    \/ Skip(p) \/ Begin(p) \/ AppendLine(p) \/ Rename(p)
    \/ BeginDoc(p) \/ WriteDoc(p) \/ RenameDoc(p)
    \/ Deliver(p)

Disturbance ==
    \/ Crash \/ CtrlCInFind \/ CtrlCInWait \/ CtrlCInFinish \/ SignalMain
    \/ \E p \in Procs : KillFirst(p) \/ KillStage(p)

User ==
    \/ \E n \in ThreadCounts : Start(n)
    \/ \E f \in Files : Withdraw(f)
    \/ PrepareCorpus \/ RemovePreviousOutput

Next ==
    \/ Driver
    \/ \E p \in Procs : Worker(p)
    \/ Disturbance
    \/ User

Spec == Init /\ [][Next]_vars

(* The operating system runs the driver and each worker process; nothing   *)
(* obliges the user or a disturbance.                                      *)
Fairness == WF_vars(Driver) /\ \A p \in Procs : WF_vars(Worker(p))

FairSpec == Spec /\ Fairness
-----------------------------------------------------------------------------
(* Properties.  Some need a condition on what happens around the scripts:  *)
(*   (n)  all runs are given the same n;                                   *)
(*   (k)  no script of a stage, nor cp, is killed by itself;               *)
(*   (s)  the text that stage 2 reads is never cut short.  Stage 1 and cp  *)
(*        write in place: neither is killed by itself, and no source file  *)
(*        is taken away after a run was stopped in the middle of a copy.   *)

(* (n) Two workers are never at work on the same file, although nothing    *)
(* but the contents of the queue files keeps them apart: the working files *)
(* of a source file have one writer.                                       *)
NoSharedFile ==
    \A p, q \in Procs :
        p # q /\ Busy(p) /\ Busy(q) => Cur(p) # Cur(q)

(* (n) Whatever stopped earlier runs, no name is in the queue files twice, *)
(* not in one and not in two.                                              *)
QueuedOnce ==
    \A p, q \in Procs : \A i \in DOMAIN queue[p], j \in DOMAIN queue[q] :
        queue[p][i] = queue[q][j] => p = q /\ i = j

(* (n, s) "outFile only exists in a finished state": what a stage finds    *)
(* under the name it looks for has all the lines of one edition, however   *)
(* often runs were stopped in the middle of writing it.                    *)
StageOutputsFinished ==
    \A f \in Files : \A P \in Paths \ {{}} :
        work[f][P] # None => \E e \in Editions : work[f][P] = FullBody(e)

(* (n, s) What is delivered is one <doc> with all the lines of one edition,*)
(* also if scripts of the stages 2 to 5 were killed.                       *)
DocumentsWhole ==
    \A f \in Files : out[f] # None =>
        \E h \in Editions, e \in Editions, P \in Paths :
            out[f] = <<[hdr |-> h, body |-> FullBody(e), path |-> P]>>

(* (n) Whatever is killed, stopped or taken away: what is delivered is one *)
(* <doc>, and its text is one that stage 1 or an interruption of it left,  *)
(* never lines twice, of two editions or behind those of an earlier run.   *)
DocumentsOfOneText ==
    \A f \in Files : out[f] # None =>
        \E h \in Editions, e \in Editions, P \in Paths :
            \E body \in {Part, FullBody(e)} :
                out[f] = <<[hdr |-> h, body |-> body, path |-> P]>>

(* (n, k, s) And all three body stages have been over these lines.         *)
DocumentsFinished ==
    \A f \in Files : out[f] # None => out[f] \in Documents

(* (n) A stage that has finished a file is never done again on it: its    *)
(* output does not change from then on.  Crunching a text takes hours.     *)
FinishedWorkKept ==
    [][\A f \in Files : \A P \in Paths \ {{}} :
           work[f][P] # None => work'[f][P] = work[f][P]]_vars

(* What all.vert has of a file is the document that is in out/, or a part  *)
(* of it.                                                                  *)
PartsAgree ==
    allVert # None =>
        \A f \in Files : allVert[f] \in {None, Part, out[f]}

(* When find has no more names to pass on and the assembly ends, all.vert  *)
(* has every document of out/ and none in part, whatever an assembly that  *)
(* was stopped has left, and although endfunc may be entered, by Ctrl-C or *)
(* a signal, while workers still deliver.                                  *)
AssembledWhole == main = "cat" /\ todo = {} => allVert = out

(* (n) all.vert, which is written in place, agrees with out/, also when    *)
(* the writing of it was stopped, and is whole when it was not.            *)
AllVertAgrees == PartsAgree /\ AssembledWhole

(* (k) "This will process all files in in/": a run that is left alone ends *)
(* with a document for every source file, whatever became of the runs      *)
(* before it, as long as no source file is taken away.                     *)
AllFilesProcessed ==
    [][Exit /\ trap => \A f \in Files : in[f] # None => out[f] # None]_vars

(* Every run comes to its end, also one that is interrupted: the loop of   *)
(* endfunc that looks for descendants does not outlive them.               *)
RunEnds == main # "idle" ~> main = "idle"

(* The pipeline is the publisher of documents of module Corpus.            *)
C == INSTANCE Corpus WITH
    Files <- Files, Documents <- Documents, None <- None, Part <- Part,
    out <- out, allVert <- allVert, assembling <- (main = "cat")

ImplementsCorpus == C!CorpusSpec

=============================================================================
