------------------------------- MODULE Corpus -------------------------------
(***************************************************************************)
(* What the tagging pipeline promises the person who runs it, with         *)
(* neither workers, stages nor temporary files: run/out/ holds finished    *)
(* documents only, a document appears there in one step and is never       *)
(* touched again until remove_previous_output.sh clears the directory.     *)
(* run/out/all.vert is made from nothing each time, grows by documents     *)
(* that are in run/out/, and nothing appears there while it does.  It is   *)
(* not promised that it becomes complete: it is written in place, and the  *)
(* writing may be stopped.                                                 *)
(*                                                                         *)
(* Pipeline.tla implements this specification under the conditions that    *)
(* README.md names.                                                        *)
(***************************************************************************)

CONSTANTS
    Files,          \* the names of the source files
    Documents,      \* the finished vertical documents
    Part,           \* stands for a document of which only a part is there
    None            \* stands for a file that does not exist

VARIABLES
    out,            \* out[f]: run/out/f.vert
    allVert,        \* run/out/all.vert, as what it has of each document
    assembling      \* is all.vert being written?

corpusVars == <<out, allVert, assembling>>

CorpusInit ==
    /\ out = [f \in Files |-> None]
    /\ allVert = None
    /\ assembling = FALSE

(* A document that was missing appears, finished.                          *)
Publish(f) ==
    /\ ~assembling
    /\ out[f] = None
    /\ \E d \in Documents : out' = [out EXCEPT ![f] = d]
    /\ UNCHANGED <<allVert, assembling>>

(* The previous all.vert goes away before a new one is assembled.          *)
Discard ==
    /\ ~assembling
    /\ allVert' = None
    /\ UNCHANGED <<out, assembling>>

Open ==
    /\ allVert = None
    /\ allVert' = [f \in Files |-> None]
    /\ assembling' = TRUE
    /\ UNCHANGED out

(* A document is added, in part or, if only it was in part, as a whole.    *)
Add(f) ==
    /\ assembling /\ out[f] # None
    /\ \/ /\ \A g \in Files : allVert[g] \in {None, out[g]}
          /\ allVert[f] = None
          /\ allVert' = [allVert EXCEPT ![f] = Part]
       \/ /\ allVert[f] = Part
          /\ allVert' = [allVert EXCEPT ![f] = out[f]]
    /\ UNCHANGED <<out, assembling>>

(* All documents have been added, or the assembly is stopped.              *)
Close ==
    /\ assembling
    /\ assembling' = FALSE
    /\ UNCHANGED <<out, allVert>>

(* remove_previous_output.sh starts over.                                  *)
Clear ==
    /\ ~assembling
    /\ out' = [f \in Files |-> None]
    /\ allVert' = None
    /\ UNCHANGED assembling

CorpusNext ==
    \/ \E f \in Files : Publish(f) \/ Add(f)
    \/ Discard \/ Open \/ Close
    \/ Clear

CorpusSpec == CorpusInit /\ [][CorpusNext]_corpusVars
=============================================================================
